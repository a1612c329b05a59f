--------------------------- MODULE StoresProofs ----------------------------
(***************************************************************************)
(* Theorems about the stores, for any set of processes, calls, stores,     *)
(* prefixes, paths and keys, and about what their bus carries.             *)
(*                                                                         *)
(* First what the encoder does to any message.  Its operators recurse over *)
(* positions; induction and recursion over them are had from what is known *)
(* of finite sets and injections.  Then the types of the state, the        *)
(* accounts by which no value that is dead stays in L2, those by which     *)
(* whoever serves one is told, and last who may remove what.               *)
(***************************************************************************)
EXTENDS Stores, FiniteSetTheorems, TLAPS

----------------------------------------------------------------------------
(* Induction and recursion over positions.                                *)

(* A set of naturals with 0 and each next one has them all.                *)
LEMMA Induction ==
  ASSUME NEW S \in SUBSET Nat, 0 \in S, \A n \in S : n + 1 \in S
  PROVE  S = Nat
<1> SUFFICES ASSUME NEW n \in Nat, n \notin S  PROVE FALSE
  OBVIOUS
<1> DEFINE T == S \cap (0..n)
           f == [i \in T |-> i + 1]
<1>1. IsFiniteSet(T)
  <2>1. IsFiniteSet(0..n)
    BY FS_Interval
  <2> QED  BY <2>1, FS_Intersection
<1>2. f \in Injection(T, T)
  <2>1. \A i \in T : i + 1 \in T
    OBVIOUS
  <2> QED  BY <2>1 DEF Injection, IsInjective
<1>3. f \in Surjection(T, T)
  BY <1>1, <1>2, FS_Injection
<1>4. 0 \in T
  OBVIOUS
<1>5. PICK i \in T : f[i] = 0
  BY <1>3, <1>4 DEF Surjection
<1> QED  BY <1>5

(* A definition of g[0], ..., g[n] in V by recursion: the value of i is    *)
(* made from that of back[i].                                              *)
Recursive(n, V, base, back, step) ==
  /\ n \in Nat /\ base \in V
  /\ back \in [1..n -> Nat] /\ \A i \in 1..n : back[i] < i
  /\ step \in [1..n -> [V -> V]]

Solves(g, n, base, back, step) ==
  g[0] = base /\ \A i \in 1..n : g[i] = step[i][g[back[i]]]

(* The recursive definition has a solution.                                *)
LEMMA Recursion ==
  ASSUME NEW n, NEW V, NEW base, NEW back, NEW step, Recursive(n, V, base, back, step)
  PROVE  \E g \in [0..n -> V] : Solves(g, n, base, back, step)
<1> USE DEF Recursive
<1> DEFINE Upto(g, m) == \A i \in 0..m : g[i] = IF i = 0 THEN base ELSE step[i][g[back[i]]]
           S == {m \in Nat : m <= n => \E g \in [0..m -> V] : Upto(g, m)}
<1>1. 0 \in S
  <2>1. Upto([i \in 0..0 |-> base], 0) /\ [i \in 0..0 |-> base] \in [0..0 -> V]
    OBVIOUS
  <2> QED  BY <2>1
<1> HIDE DEF Upto
<1>2. ASSUME NEW m \in S  PROVE m + 1 \in S
  <2> SUFFICES ASSUME m + 1 <= n  PROVE \E g \in [0..(m + 1) -> V] : Upto(g, m + 1)
    OBVIOUS
  <2>1. PICK g \in [0..m -> V] : Upto(g, m)
    <3>1. m \in Nat /\ m <= n
      OBVIOUS
    <3> QED  BY <3>1
  <2> USE DEF Upto
  <2> DEFINE h == [i \in 0..(m + 1) |-> IF i <= m THEN g[i] ELSE step[i][g[back[i]]]]
  <2>2. m + 1 \in 1..n /\ back[m + 1] \in 0..m /\ m \in Nat
    OBVIOUS
  <2>3. h \in [0..(m + 1) -> V]
    BY <2>2
  <2>4. (\A i \in 0..m : h[i] = g[i]) /\ h[m + 1] = step[m + 1][g[back[m + 1]]]
    BY <2>2
  <2> HIDE DEF h
  <2>5. ASSUME NEW i \in 0..(m + 1)
        PROVE  h[i] = IF i = 0 THEN base ELSE step[i][h[back[i]]]
    <3>1. CASE i <= m
      <4>1. i \in 0..m /\ (i # 0 => back[i] \in 0..m)
        BY <2>2, <3>1
      <4>2. g[i] = IF i = 0 THEN base ELSE step[i][g[back[i]]]
        BY <2>1, <4>1
      <4> QED  BY <2>4, <4>1, <4>2
    <3>2. CASE i = m + 1
      <4>1. h[back[m + 1]] = g[back[m + 1]] /\ m + 1 # 0
        BY <2>2, <2>4
      <4> QED  BY <2>4, <3>2, <4>1
    <3>3. i <= m \/ i = m + 1
      BY <2>2
    <3> QED  BY <3>1, <3>2, <3>3
  <2> QED  BY <2>3, <2>5
<1> HIDE DEF S
<1>3. n \in S
  <2>1. S \subseteq Nat
    BY DEF S
  <2> QED  BY <1>1, <1>2, <2>1, Induction
<1>4. PICK g \in [0..n -> V] : Upto(g, n)
  BY <1>3 DEF S
<1>5. Solves(g, n, base, back, step)
  BY <1>4 DEF Upto, Solves
<1> QED  BY <1>5

(* g[i] is the first i of the sequences s, one after another.              *)
Extends(g, s, i) == g[i] = g[i - 1] \o s[i]

Joins(X, n, s, g) ==
  /\ n \in Nat /\ g[0] = <<>>
  /\ \A i \in 1..n : s[i] \in Seq(X) /\ Extends(g, s, i)
  /\ \A i \in 0..n : g[i] \in Seq(X)

(* c is a and then b.                                                      *)
Concatenates(c, a, b) ==
  /\ Len(c) = Len(a) + Len(b) /\ Len(a) \in Nat /\ Len(b) \in Nat
  /\ \A x \in 1..Len(a) : c[x] = a[x]
  /\ \A x \in 1..Len(b) : c[Len(a) + x] = b[x]

LEMMA Concat ==
  ASSUME NEW X, NEW a \in Seq(X), NEW b \in Seq(X), NEW c, c = a \o b
  PROVE  c \in Seq(X) /\ Concatenates(c, a, b)
BY DEF Concatenates

(* What one sequence adds.                                                 *)
Adds(g, s, i, j) ==
  /\ Len(g[i]) = Len(g[j]) + Len(s[i]) /\ Len(g[j]) \in Nat /\ Len(s[i]) \in Nat
  /\ \A x \in 1..Len(g[j]) : g[i][x] = g[j][x]
  /\ \A x \in 1..Len(s[i]) : g[i][Len(g[j]) + x] = s[i][x]

LEMMA JoinedStep ==
  ASSUME NEW X, NEW n, NEW s, NEW g, Joins(X, n, s, g),
         NEW i \in 1..n, NEW j, j = i - 1
  PROVE  Adds(g, s, i, j) /\ g[i] = g[j] \o s[i] /\ j \in 0..n /\ i \in 0..n
<1>1. i \in Nat /\ j \in 0..n /\ i \in 0..n
  BY DEF Joins
<1>2. s[i] \in Seq(X) /\ Extends(g, s, i) /\ g[j] \in Seq(X)
  BY <1>1 DEF Joins
<1>3. g[i] = g[j] \o s[i]
  BY <1>2 DEF Extends
<1> DEFINE a == g[j]  b == s[i]  c == g[i]
<1>4. a \in Seq(X) /\ b \in Seq(X) /\ c = a \o b
  BY <1>2, <1>3
<1> HIDE DEF a, b, c
<1>5. Concatenates(c, a, b)
  BY <1>4, Concat
<1> QED  BY <1>1, <1>3, <1>5 DEF Concatenates, Adds, a, b, c

(* i of the sequences are how those up to j begin.                         *)
Within(g, i, j) ==
  /\ Len(g[i]) <= Len(g[j]) /\ Len(g[i]) \in Nat /\ Len(g[j]) \in Nat
  /\ \A x \in 1..Len(g[i]) : g[j][x] = g[i][x]

LEMMA JoinedPrefix ==
  ASSUME NEW X, NEW n, NEW s, NEW g, Joins(X, n, s, g), NEW i \in 0..n
  PROVE  Within(g, i, n)
<1> DEFINE S == {d \in Nat : \A j \in 0..n : j = i + d => Within(g, i, j)}
<1>0. n \in Nat /\ i \in Nat /\ \A j \in 0..n : g[j] \in Seq(X)
  BY DEF Joins
<1>1. 0 \in S
  BY <1>0 DEF Within
<1>2. ASSUME NEW d \in S  PROVE d + 1 \in S
  <2>1. d \in Nat /\ \A j \in 0..n : j = i + d => Within(g, i, j)
    OBVIOUS
  <2>2. ASSUME NEW j \in 0..n, j = i + (d + 1)  PROVE Within(g, i, j)
    <3> DEFINE k == j - 1
    <3>1. k \in 0..n /\ k = i + d /\ j \in 1..n /\ k = j - 1
      BY <1>0, <2>1, <2>2
    <3> HIDE DEF k, S
    <3>2. Within(g, i, k)
      BY <2>1, <3>1
    <3>3. Adds(g, s, j, k)
      BY <3>1, JoinedStep
    <3>4. /\ Len(g[i]) <= Len(g[k]) /\ Len(g[i]) \in Nat
          /\ \A x \in 1..Len(g[i]) : g[k][x] = g[i][x]
      BY <3>2 DEF Within
    <3>5. /\ Len(g[j]) = Len(g[k]) + Len(s[j]) /\ Len(g[k]) \in Nat /\ Len(s[j]) \in Nat
          /\ \A x \in 1..Len(g[k]) : g[j][x] = g[k][x]
      BY <3>3 DEF Adds
    <3>6. Len(g[i]) <= Len(g[j]) /\ Len(g[j]) \in Nat
      <4> DEFINE a == Len(g[i])  b == Len(g[k])  c == Len(s[j])  e == Len(g[j])
      <4>1. a \in Nat /\ b \in Nat /\ c \in Nat /\ a <= b /\ e = b + c
        BY <3>4, <3>5
      <4> HIDE DEF a, b, c, e
      <4>2. a <= e /\ e \in Nat
        BY <4>1
      <4> QED  BY <4>2 DEF a, e
    <3>7. ASSUME NEW x \in 1..Len(g[i])  PROVE g[j][x] = g[i][x]
      <4>1. x \in 1..Len(g[k])
        BY <3>4, <3>5
      <4> QED  BY <3>4, <3>5, <4>1
    <3> QED  BY <3>4, <3>6, <3>7 DEF Within
  <2> QED  BY <2>1, <2>2
<1>3. S = Nat
  <2> HIDE DEF S
  <2>1. S \subseteq Nat
    BY DEF S
  <2> QED  BY <1>1, <1>2, <2>1, Induction
<1> DEFINE d == n - i
<1>4. d \in Nat /\ n = i + d /\ n \in 0..n
  BY <1>0
<1> HIDE DEF d
<1> QED  BY <1>3, <1>4

LEMMA FlattenJoins ==
  ASSUME NEW X, NEW s \in Seq(Seq(X))
  PROVE  \E g : Joins(X, Len(s), s, g) /\ FlattenSeq(s) = g[Len(s)]
<1> DEFINE n == Len(s)
           V == Seq(X)
           back == [i \in 1..n |-> i - 1]
           step == [i \in 1..n |-> [v \in V |-> v \o s[i]]]
<1>0. n \in Nat /\ (\A i \in 1..n : s[i] \in V) /\ <<>> \in V
  OBVIOUS
<1>a. \A v, w \in V : v \o w \in V
  OBVIOUS
<1> HIDE DEF V, n
<1>1. PICK g \in [0..n -> V] : Solves(g, n, <<>>, back, step)
  <2>1. back \in [1..n -> Nat] /\ \A i \in 1..n : back[i] < i
    BY <1>0
  <2>2. step \in [1..n -> [V -> V]]
    BY <1>0, <1>a
  <2> HIDE DEF back, step
  <2>3. Recursive(n, V, <<>>, back, step)
    BY <1>0, <2>1, <2>2 DEF Recursive
  <2> QED  BY <2>3, Recursion
<1>2. g[0] = <<>>
  BY <1>1 DEF Solves
<1>3. ASSUME NEW i \in 1..n  PROVE Extends(g, s, i)
  <2> DEFINE j == i - 1
  <2>1. j \in 0..n /\ i \in 1..n /\ j = i - 1
    BY <1>0
  <2>2. back[i] = j
    OBVIOUS
  <2> HIDE DEF j, back
  <2>3. g[j] \in V
    BY <2>1
  <2>4. step[i][g[j]] = g[j] \o s[i]
    BY <2>1, <2>3
  <2> HIDE DEF step
  <2>5. g[i] = step[i][g[back[i]]]
    BY <1>1 DEF Solves
  <2> QED  BY <2>1, <2>2, <2>4, <2>5 DEF Extends
<1>4. Joins(X, n, s, g)
  BY <1>0, <1>2, <1>3 DEF Joins, V
<1>5. FlattenSeq(s) = g[n]
  <2>1. FlattenSeq(s) = IF n = 0 THEN s
          ELSE LET flatten[i \in 1..n] == IF i = 1 THEN s[i] ELSE flatten[i - 1] \o s[i]
               IN flatten[n]
    BY DEF FlattenSeq, n
  <2>2. n = 0 => s = <<>>
    BY DEF n
  <2>3. CASE n = 0
    BY <1>2, <2>1, <2>2, <2>3
  <2>4. CASE n # 0
    <3> DEFINE F == CHOOSE f : f = [i \in 1..n |-> IF i = 1 THEN s[i] ELSE f[i - 1] \o s[i]]
               h == [i \in 1..n |-> g[i]]
               S == {i \in Nat : \A k \in 1..n : k = i + 1 => F[k] = g[k]}
    <3>1. FlattenSeq(s) = F[n]
      BY <2>1, <2>4
    <3>2. h = [i \in 1..n |-> IF i = 1 THEN s[i] ELSE h[i - 1] \o s[i]]
      <4>1. ASSUME NEW i \in 1..n  PROVE g[i] = IF i = 1 THEN s[i] ELSE h[i - 1] \o s[i]
        <5> DEFINE j == i - 1
        <5>1. j = i - 1 /\ (i = 1 => j = 0) /\ (i # 1 => j \in 1..n)
          BY <1>0
        <5>2. i # 1 => h[j] = g[j]
          BY <5>1
        <5> HIDE DEF j, h
        <5>3. g[i] = g[j] \o s[i]
          BY <1>3, <5>1 DEF Extends
        <5>4. i = 1 => g[i] = s[i]
          <6>1. i = 1 => g[i] = <<>> \o s[i]
            BY <1>2, <5>1, <5>3
          <6>2. s[i] \in V
            BY <1>0
          <6> QED  BY <6>1, <6>2 DEF V
        <5> QED  BY <5>1, <5>2, <5>3, <5>4
      <4> QED  BY <4>1
    <3> HIDE DEF h
    <3>3. F = [i \in 1..n |-> IF i = 1 THEN s[i] ELSE F[i - 1] \o s[i]]
      BY <3>2
    <3> HIDE DEF F
    <3>4. ASSUME NEW i \in 1..n, NEW j, j = i - 1  PROVE F[i] = IF i = 1 THEN s[i] ELSE F[j] \o s[i]
      <4>1. F[i] = IF i = 1 THEN s[i] ELSE F[i - 1] \o s[i]
        BY <3>3, Zenon
      <4> QED  BY <3>4, <4>1
    <3>5. 0 \in S
      <4>1. ASSUME NEW k \in 1..n, k = 1  PROVE F[k] = g[k]
        <5>1. F[k] = s[k] /\ h[k] = g[k] /\ h[k] = s[k]
          BY <3>2, <3>4, <4>1 DEF h
        <5> QED  BY <5>1
      <4> QED  BY <4>1
    <3>6. ASSUME NEW i \in S  PROVE i + 1 \in S
      <4>1. i \in Nat /\ \A k \in 1..n : k = i + 1 => F[k] = g[k]
        OBVIOUS
      <4>2. ASSUME NEW k \in 1..n, k = (i + 1) + 1  PROVE F[k] = g[k]
        <5> DEFINE j == k - 1
        <5>1. j = k - 1 /\ j \in 1..n /\ k # 1 /\ j = i + 1
          BY <1>0, <4>1, <4>2
        <5> HIDE DEF j, S
        <5>2. F[k] = F[j] \o s[k]
          BY <3>4, <5>1
        <5>3. g[k] = g[j] \o s[k]
          BY <1>3, <5>1 DEF Extends
        <5>4. F[j] = g[j]
          BY <4>1, <5>1
        <5> QED  BY <5>2, <5>3, <5>4
      <4> QED  BY <4>1, <4>2
    <3>7. S = Nat
      <4> HIDE DEF S
      <4>1. S \subseteq Nat
        BY DEF S
      <4> QED  BY <3>5, <3>6, <4>1, Induction
    <3> DEFINE i == n - 1
    <3>8. i \in Nat /\ n \in 1..n /\ n = i + 1
      BY <1>0, <2>4
    <3> HIDE DEF i
    <3>9. F[n] = g[n]
      BY <3>7, <3>8
    <3> QED  BY <3>1, <3>9
  <2> QED  BY <2>3, <2>4
<1> QED  BY <1>4, <1>5 DEF n

----------------------------------------------------------------------------
(* The largest of some numbers, and slices of joined sequences.           *)

LEMMA MaxIs ==
  ASSUME NEW S \in SUBSET Nat, NEW m \in S, \A y \in S : m >= y
  PROVE  Max(S) = m
<1>1. \A x \in S : (\A y \in S : x >= y) => x = m
  <2> SUFFICES ASSUME NEW x \in S, \A y \in S : x >= y  PROVE x = m
    OBVIOUS
  <2>1. x >= m /\ m >= x /\ x \in Nat /\ m \in Nat
    OBVIOUS
  <2> QED  BY <2>1
<1> QED  BY <1>1 DEF Max

(* Max of a bounded set of naturals.                                       *)
LEMMA MaxOf ==
  ASSUME NEW S \in SUBSET Nat, NEW n \in Nat, \A y \in S : y <= n, S # {}
  PROVE  Max(S) \in S /\ \A y \in S : Max(S) >= y
<1> DEFINE D == {m \in Nat : (\E x \in S : x <= m) =>
                   \E x \in S : \A y \in S : y <= m => x >= y}
<1>1. 0 \in D
  OBVIOUS
<1>2. ASSUME NEW m \in D  PROVE m + 1 \in D
  <2>1. CASE m + 1 \in S
    BY <2>1
  <2>2. CASE m + 1 \notin S
    <3>1. \A x \in S : x <= m + 1 <=> x <= m
      BY <2>2
    <3> QED  BY <3>1
  <2> QED  BY <2>1, <2>2
<1>3. n \in D
  <2> HIDE DEF D
  <2>1. D \subseteq Nat
    BY DEF D
  <2> QED  BY <1>1, <1>2, <2>1, Induction
<1>4. PICK m \in S : \A y \in S : m >= y
  BY <1>3
<1> QED  BY <1>4, MaxIs

(* Where the i-th sequence is in all of them.                              *)
Sliced(g, s, i, j, n) ==
  /\ Len(g[i]) = Len(g[j]) + Len(s[i])
  /\ Len(g[j]) \in Nat /\ Len(s[i]) \in Nat /\ Len(g[n]) \in Nat
  /\ Len(g[i]) <= Len(g[n])
  /\ \A x \in 1..Len(s[i]) : g[n][Len(g[j]) + x] = s[i][x]
  /\ SubSeq(g[n], Len(g[j]) + 1, Len(g[i])) = s[i]

LEMMA Slice ==
  ASSUME NEW X, NEW n, NEW s, NEW g, Joins(X, n, s, g),
         NEW i \in 1..n, NEW j, j = i - 1
  PROVE  Sliced(g, s, i, j, n)
<1>1. Adds(g, s, i, j) /\ i \in 0..n
  BY JoinedStep
<1>2. Within(g, i, n)
  BY <1>1, JoinedPrefix
<1>3. g[n] \in Seq(X) /\ s[i] \in Seq(X)
  BY DEF Joins
<1> DEFINE a == Len(g[j])  b == Len(s[i])  c == Len(g[i])  d == Len(g[n])
<1>4. c = a + b /\ a \in Nat /\ b \in Nat /\ c <= d /\ d \in Nat
  BY <1>1, <1>2 DEF Adds, Within
<1>5. ASSUME NEW x \in 1..b  PROVE g[n][a + x] = s[i][x]
  <2> DEFINE y == a + x
  <2>1. g[i][y] = s[i][x]
    BY <1>1 DEF Adds
  <2>2. y \in 1..c
    <3> HIDE DEF a, b, c, d
    <3> QED  BY <1>4
  <2> HIDE DEF y
  <2>3. g[n][y] = g[i][y]
    BY <1>2, <2>2 DEF Within
  <2> QED  BY <2>1, <2>3 DEF y
<1>6. SubSeq(g[n], a + 1, c) = s[i]
  <2> DEFINE t == g[n]  u == s[i]
  <2>1. t \in Seq(X) /\ u \in Seq(X) /\ Len(t) = d /\ Len(u) = b
        /\ \A x \in 1..b : t[a + x] = u[x]
    BY <1>3, <1>5
  <2> HIDE DEF a, b, c, d, t, u
  <2>2. SubSeq(t, a + 1, c) = u
    <3> DEFINE v == SubSeq(t, a + 1, c)
    <3>1. v \in Seq(X) /\ Len(v) = b /\ \A x \in 1..b : v[x] = t[a + x]
      BY <1>4, <2>1
    <3> HIDE DEF v
    <3>2. v = u
      BY <1>4, <2>1, <3>1
    <3> QED  BY <3>2 DEF v
  <2> QED  BY <2>2 DEF t, u
<1> QED  BY <1>4, <1>5, <1>6 DEF Sliced

----------------------------------------------------------------------------
(* A string and its bytes.                                                *)

Spelled(str) == [i \in DOMAIN str |-> Utf8[str[i]]]

LEMMA SpelledType ==
  ASSUME NEW str \in Seq(Chars)
  PROVE  /\ Spelled(str) \in Seq(Seq(Bytes)) /\ Len(Spelled(str)) = Len(str) /\ Len(str) \in Nat
         /\ \A i \in 1..Len(str) : Spelled(str)[i] = Utf8[str[i]] /\ str[i] \in Chars
<1>1. \A i \in 1..Len(str) : str[i] \in Chars /\ Utf8[str[i]] \in Seq(Bytes)
  BY EncoderAssumption
<1>2. DOMAIN str = 1..Len(str) /\ Len(str) \in Nat
  OBVIOUS
<1> QED  BY <1>1, <1>2 DEF Spelled

(* What ToText chooses from at each position.                              *)
Starts(bytes, m) == {i \in 1..m : bytes[i] \notin Continuing}
Start(bytes, m) == Max(Starts(bytes, m))
Read(bytes, m) == CHOOSE ch \in Chars : Utf8[ch] = SubSeq(bytes, Start(bytes, m), m)

LEMMA CharAt ==
  ASSUME NEW str \in Seq(Chars), NEW g, Joins(Bytes, Len(str), Spelled(str), g),
         NEW i \in 1..Len(str), NEW j, j = i - 1, NEW bytes, bytes = g[Len(str)]
  PROVE  /\ Start(bytes, Len(g[i])) = Len(g[j]) + 1
         /\ Read(bytes, Len(g[i])) = str[i]
         /\ Len(g[i]) \in 1..Len(bytes) /\ Len(g[j]) \in 0..Len(bytes)
<1> DEFINE a == Len(g[j])  c == Len(g[i])  s == Spelled(str)[i]  d == Len(bytes)
<1>1. /\ c = a + Len(s) /\ a \in Nat /\ Len(s) \in Nat /\ d \in Nat /\ c <= d
      /\ \A x \in 1..Len(s) : bytes[a + x] = s[x]
      /\ SubSeq(bytes, a + 1, c) = s
  <2> DEFINE n == Len(str)  u == Spelled(str)
  <2> HIDE DEF n, u
  <2>1. Joins(Bytes, n, u, g) /\ i \in 1..n /\ j = i - 1 /\ bytes = g[n]
    BY DEF n, u
  <2>2. Sliced(g, u, i, j, n)
    BY <2>1, Slice
  <2> QED  BY <2>1, <2>2 DEF u, Sliced
<1>2. s = Utf8[str[i]] /\ str[i] \in Chars
  BY SpelledType
<1> HIDE DEF a, c, s, d
<1>3. /\ s \in Seq(Bytes) /\ s # <<>>
      /\ \A x \in DOMAIN s : s[x] \in Continuing <=> x # 1
      /\ \A ch \in Chars : Utf8[ch] = s => ch = str[i]
  BY <1>2, EncoderAssumption
<1>4. Len(s) >= 1 /\ DOMAIN s = 1..Len(s)
  BY <1>1, <1>3
<1>5. Start(bytes, c) = a + 1
  <2> DEFINE S == Starts(bytes, c)  m == a + 1
  <2>1. S \in SUBSET Nat /\ m \in 1..c
    BY <1>1, <1>4 DEF Starts
  <2>2. bytes[m] = s[1] /\ s[1] \notin Continuing
    BY <1>1, <1>3, <1>4
  <2>3. m \in S
    BY <2>1, <2>2 DEF Starts
  <2>4. ASSUME NEW y \in S  PROVE m >= y
    <3>1. y \in 1..c /\ bytes[y] \notin Continuing
      BY DEF Starts
    <3> SUFFICES ASSUME y > m  PROVE FALSE
      BY <1>1, <3>1
    <3> DEFINE x == y - a
    <3>2. x \in 1..Len(s) /\ x # 1 /\ y = a + x
      BY <1>1, <3>1
    <3> HIDE DEF x, m, S
    <3>3. bytes[y] = s[x]
      BY <1>1, <3>2
    <3> QED  BY <1>3, <1>4, <3>1, <3>2, <3>3
  <2> HIDE DEF S, m
  <2>5. Max(S) = m
    BY <2>1, <2>3, <2>4, MaxIs
  <2> QED  BY <2>5 DEF S, m, Start
<1>6. Read(bytes, c) = str[i]
  BY <1>1, <1>2, <1>3, <1>5 DEF Read
<1> QED  BY <1>1, <1>4, <1>5, <1>6 DEF a, c, d

(* Reads: what ToText makes of the bytes up to each position.              *)
Reads(bytes, T) ==
  /\ T[0] = <<>>
  /\ \A m \in 1..Len(bytes) : \A k \in 0..Len(bytes) :
       k = Start(bytes, m) - 1 => T[m] = Append(T[k], Read(bytes, m))

LEMMA ToTextReads ==
  ASSUME NEW bytes, Len(bytes) \in Nat, Len(bytes) # 0 => bytes[1] \notin Continuing
  PROVE  \E T : Reads(bytes, T) /\ ToText(bytes) = T[Len(bytes)]
<1> DEFINE L == Len(bytes)
           W == {Read(bytes, m) : m \in 1..L}
           V == Seq(W)
           back == [m \in 1..L |-> Start(bytes, m) - 1]
           step == [m \in 1..L |-> [v \in V |-> Append(v, Read(bytes, m))]]
           Text(T) == [m \in 0..L |->
             IF m = 0 THEN <<>> ELSE Append(T[Start(bytes, m) - 1], Read(bytes, m))]
           T == CHOOSE f : f = Text(f)
<1>1. ASSUME NEW m \in 1..L  PROVE Start(bytes, m) \in 1..m
  <2>1. 1 \in Starts(bytes, m) /\ Starts(bytes, m) \in SUBSET Nat /\ m \in Nat
        /\ \A y \in Starts(bytes, m) : y <= m
    BY DEF Starts
  <2>2. Start(bytes, m) \in Starts(bytes, m)
    BY <2>1, MaxOf DEF Start
  <2> QED  BY <2>2 DEF Starts
<1>2. \A m \in 1..L : Start(bytes, m) - 1 \in 0..L /\ Start(bytes, m) - 1 < m
  BY <1>1
<1>3. PICK g \in [0..L -> V] : Solves(g, L, <<>>, back, step)
  <2>1. back \in [1..L -> Nat] /\ \A m \in 1..L : back[m] < m
    BY <1>2
  <2>2. step \in [1..L -> [V -> V]]
    <3>1. \A m \in 1..L : \A v \in V : Append(v, Read(bytes, m)) \in V
      <4>1. \A m \in 1..L : Read(bytes, m) \in W
        OBVIOUS
      <4> HIDE DEF W
      <4> QED  BY <4>1
    <3> HIDE DEF V
    <3> QED  BY <3>1
  <2>3. <<>> \in V /\ L \in Nat
    <3> HIDE DEF W
    <3> QED  OBVIOUS
  <2> HIDE DEF back, step, L, V
  <2>4. Recursive(L, V, <<>>, back, step)
    BY <2>1, <2>2, <2>3 DEF Recursive
  <2> QED  BY <2>4, Recursion
<1>4. g = Text(g)
  <2>1. g[0] = <<>>
    BY <1>3 DEF Solves
  <2>2. ASSUME NEW m \in 1..L  PROVE g[m] = Append(g[Start(bytes, m) - 1], Read(bytes, m))
    <3> DEFINE k == Start(bytes, m) - 1
    <3>1. k \in 0..L /\ back[m] = k
      BY <1>2
    <3> HIDE DEF k, V, L
    <3>2. g[k] \in V
      BY <3>1
    <3>3. step[m][g[k]] = Append(g[k], Read(bytes, m))
      BY <3>2
    <3> HIDE DEF back, step
    <3>4. g[m] = step[m][g[back[m]]]
      BY <1>3 DEF Solves
    <3> QED  BY <3>1, <3>3, <3>4 DEF k
  <2>3. L \in Nat
    OBVIOUS
  <2> HIDE DEF L, V
  <2>4. ASSUME NEW m \in 0..L
        PROVE g[m] = IF m = 0 THEN <<>> ELSE Append(g[Start(bytes, m) - 1], Read(bytes, m))
    <3>1. m = 0 \/ m \in 1..L
      BY <2>3
    <3>2. CASE m = 0
      BY <2>1, <3>2
    <3>3. CASE m # 0
      BY <2>2, <3>1, <3>3
    <3> QED  BY <3>2, <3>3
  <2> QED  BY <2>4
<1>5. T = Text(T)
  <2> HIDE DEF Text, V
  <2> QED  BY <1>4
<1>6. ToText(bytes) = T[L]
  BY DEF ToText, Start, Starts, Read
<1>7. Reads(bytes, T)
  <2> HIDE DEF T
  <2>0. 0 \in 0..L /\ L \in Nat
    OBVIOUS
  <2>1. T[0] = <<>>
    BY <1>5, <2>0
  <2>2. ASSUME NEW m \in 1..L, NEW k \in 0..L, k = Start(bytes, m) - 1
        PROVE  T[m] = Append(T[k], Read(bytes, m))
    <3>1. m \in 0..L /\ m # 0
      BY <2>0
    <3> QED  BY <1>5, <2>2, <3>1
  <2> QED  BY <2>1, <2>2 DEF Reads
<1> QED  BY <1>6, <1>7

(* buffer.toString gives back what buffer.write wrote.                     *)
LEMMA TextRoundTrip ==
  ASSUME NEW str \in Seq(Chars)
  PROVE  ToText(ToBytes(str)) = str /\ ToBytes(str) \in Seq(Bytes)
<1> DEFINE n == Len(str)  s == Spelled(str)  bytes == ToBytes(str)
<1>1. s \in Seq(Seq(Bytes)) /\ Len(s) = n /\ n \in Nat
  BY SpelledType
<1>2. PICK g : Joins(Bytes, n, s, g) /\ bytes = g[n]
  <2>1. \E g : Joins(Bytes, Len(s), s, g) /\ FlattenSeq(s) = g[Len(s)]
    BY <1>1, FlattenJoins
  <2>2. bytes = FlattenSeq(s)
    BY DEF ToBytes, Spelled
  <2> HIDE DEF s, n, bytes
  <2> QED  BY <1>1, <2>1, <2>2
<1> HIDE DEF bytes
<1>3. bytes \in Seq(Bytes) /\ g[0] = <<>>
  <2>1. n \in 0..n
    BY <1>1
  <2> QED  BY <1>2, <2>1 DEF Joins
<1>4. Len(bytes) # 0 => bytes[1] \notin Continuing
  <2> SUFFICES ASSUME Len(bytes) # 0  PROVE bytes[1] \notin Continuing
    OBVIOUS
  <2>1. n # 0
    BY <1>2, <1>3
  <2> DEFINE i == 1  j == 0
  <2>2. i \in 1..n /\ j = i - 1
    BY <1>1, <2>1
  <2> HIDE DEF i, j, n
  <2>3. Len(g[j]) = 0 /\ \A x \in 1..Len(s[i]) : bytes[Len(g[j]) + x] = s[i][x]
    <3>1. \A x \in 1..Len(s[i]) : g[n][Len(g[j]) + x] = s[i][x]
      <4>1. Sliced(g, s, i, j, n)
        BY <1>2, <2>2, Slice
      <4> QED  BY <4>1 DEF Sliced
    <3> QED  BY <1>2, <1>3, <3>1 DEF j
  <2>4. s[i] = Utf8[str[i]] /\ str[i] \in Chars
    BY <2>2, SpelledType DEF n
  <2> HIDE DEF s
  <2>5. s[i] \in Seq(Bytes) /\ s[i] # <<>> /\ \A x \in DOMAIN s[i] : s[i][x] \in Continuing <=> x # 1
    BY <2>4, EncoderAssumption
  <2>6. 1 \in 1..Len(s[i]) /\ 1 \in DOMAIN s[i] /\ 0 + 1 = 1
    BY <2>5
  <2> QED  BY <2>3, <2>5, <2>6
<1>5. PICK T : Reads(bytes, T) /\ ToText(bytes) = T[Len(bytes)]
  <2>1. Len(bytes) \in Nat
    BY <1>3
  <2> QED  BY <1>4, <2>1, ToTextReads
<1> DEFINE S == {i \in Nat : i <= n => T[Len(g[i])] = SubSeq(str, 1, i)}
<1>6. 0 \in S
  <2>1. SubSeq(str, 1, 0) = <<>> /\ Len(<<>>) = 0
    OBVIOUS
  <2> QED  BY <1>3, <1>5, <2>1 DEF Reads
<1>7. ASSUME NEW j \in S  PROVE j + 1 \in S
  <2> DEFINE i == j + 1
  <2> SUFFICES ASSUME i <= n  PROVE T[Len(g[i])] = SubSeq(str, 1, i)
    OBVIOUS
  <2>1. j \in Nat /\ i \in 1..n /\ j = i - 1 /\ T[Len(g[j])] = SubSeq(str, 1, j)
    BY <1>1
  <2> HIDE DEF i, S, s
  <2>2. /\ Start(bytes, Len(g[i])) = Len(g[j]) + 1
        /\ Read(bytes, Len(g[i])) = str[i]
        /\ Len(g[i]) \in 1..Len(bytes) /\ Len(g[j]) \in 0..Len(bytes)
    BY <1>2, <2>1, CharAt DEF s
  <2> DEFINE m == Len(g[i])  k == Len(g[j])
  <2>3. k = Start(bytes, m) - 1 /\ m \in 1..Len(bytes) /\ k \in 0..Len(bytes) /\ Read(bytes, m) = str[i]
    BY <2>2
  <2> HIDE DEF m, k
  <2>4. T[m] = Append(T[k], str[i])
    BY <1>5, <2>3 DEF Reads
  <2>5. Append(SubSeq(str, 1, j), str[i]) = SubSeq(str, 1, i)
    BY <2>1
  <2> QED  BY <2>1, <2>4, <2>5 DEF m, k
<1>8. n \in S
  <2> HIDE DEF S
  <2>1. S \subseteq Nat
    BY DEF S
  <2> QED  BY <1>1, <1>6, <1>7, <2>1, Induction
<1>9. SubSeq(str, 1, n) = str
  OBVIOUS
<1>10. T[Len(g[n])] = str
  <2>1. T[Len(g[n])] = SubSeq(str, 1, n)
    <3> HIDE DEF n
    <3> QED  BY <1>1, <1>8
  <2> QED  BY <1>9, <2>1
<1> QED  BY <1>2, <1>3, <1>5, <1>10 DEF bytes

----------------------------------------------------------------------------
(* A string behind its length.                                            *)

Octets == Nat \cup Bytes

(* The four bytes of n, read as a number.                                  *)
Number(b) == b[1] * 16777216 + b[2] * 65536 + b[3] * 256 + b[4]

LEMMA NumberRoundTrip ==
  ASSUME NEW n \in Nat
  PROVE  /\ UInt32BE(n) \in Seq(Nat) /\ Len(UInt32BE(n)) = 4
         /\ Number(UInt32BE(n)) = n
<1> DEFINE a == n \div 16777216  b == (n \div 65536) % 256  c == (n \div 256) % 256  d == n % 256
<1>1. a \in Nat /\ b \in Nat /\ c \in Nat /\ d \in Nat
  BY SMT
<1>2. a * 16777216 + b * 65536 + c * 256 + d = n
  <2> DEFINE x == n \div 256  y == n \div 65536
  <2>1. x \in Nat /\ y \in Nat /\ a \in Nat
    BY SMT
  <2>2. d = n - 256 * x
    BY SMT
  <2>3. x \div 256 = y
    BY SMT
  <2>4. c = x - 256 * y
    <3>1. x % 256 = x - 256 * (x \div 256)
      <4> HIDE DEF x
      <4> QED  BY <2>1, SMT
    <3> QED  BY <2>3, <3>1, SMT
  <2>5. y \div 256 = a
    BY SMT
  <2>6. b = y - 256 * a
    <3>1. y % 256 = y - 256 * (y \div 256)
      <4> HIDE DEF y
      <4> QED  BY <2>1, SMT
    <3> QED  BY <2>5, <3>1, SMT
  <2> HIDE DEF a, b, c, d, x, y
  <2> QED  BY <2>1, <2>2, <2>4, <2>6, SMT
<1>3. UInt32BE(n) = <<a, b, c, d>>
  BY SMT DEF UInt32BE
<1> HIDE DEF a, b, c, d
<1> QED  BY <1>1, <1>2, <1>3, SMT DEF Number

(* str stands in bytes behind its length.                                  *)
Holds(bytes, at, str) ==
  /\ at \in Nat \ {0} /\ at - 1 + Len(WithLength(str)) <= Len(bytes)
  /\ \A x \in 1..Len(WithLength(str)) : bytes[at - 1 + x] = WithLength(str)[x]

Following(bytes, at) == at + 4 + ReadUInt32BE(bytes, at)
TextAt(bytes, at) == ToText(SubSeq(bytes, at + 4, Following(bytes, at) - 1))

LEMMA WithLengthType ==
  ASSUME NEW str \in Seq(Chars)
  PROVE  /\ WithLength(str) \in Seq(Octets)
         /\ Len(WithLength(str)) = 4 + Len(ToBytes(str)) /\ Len(ToBytes(str)) \in Nat
         /\ \A x \in 1..4 : WithLength(str)[x] = UInt32BE(Len(ToBytes(str)))[x]
         /\ \A x \in 1..Len(ToBytes(str)) : WithLength(str)[4 + x] = ToBytes(str)[x]
<1> DEFINE t == ToBytes(str)  u == UInt32BE(Len(t))
<1>1. t \in Seq(Bytes) /\ Len(t) \in Nat
  BY TextRoundTrip
<1>2. u \in Seq(Nat) /\ Len(u) = 4
  <2> HIDE DEF t
  <2> QED  BY <1>1, NumberRoundTrip
<1>3. WithLength(str) = u \o t
  BY DEF WithLength
<1> HIDE DEF t, u
<1>4. t \in Seq(Octets) /\ u \in Seq(Octets)
  BY <1>1, <1>2 DEF Octets
<1> DEFINE w == WithLength(str)
<1>5. w = u \o t
  BY <1>3
<1> HIDE DEF w
<1>6. /\ w \in Seq(Octets) /\ Len(w) = 4 + Len(t)
      /\ \A x \in 1..4 : w[x] = u[x]
      /\ \A x \in 1..Len(t) : w[4 + x] = t[x]
  <2>1. w \in Seq(Octets) /\ Concatenates(w, u, t)
    BY <1>4, <1>5, Concat
  <2> QED  BY <1>1, <1>2, <2>1 DEF Concatenates
<1> QED  BY <1>1, <1>6 DEF t, u, w

LEMMA WithLengthLong ==
  ASSUME NEW str \in Seq(Chars)
  PROVE  Len(WithLength(str)) \in Nat /\ Len(WithLength(str)) >= 4
BY WithLengthType

LEMMA TextRead ==
  ASSUME NEW bytes \in Seq(Octets), NEW at, NEW str \in Seq(Chars), Holds(bytes, at, str)
  PROVE  /\ Following(bytes, at) = at + Len(WithLength(str)) /\ TextAt(bytes, at) = str
         /\ Len(WithLength(str)) \in Nat /\ Len(WithLength(str)) >= 4
<1> DEFINE t == ToBytes(str)  l == Len(t)  u == UInt32BE(l)  w == WithLength(str)
<1>1. t \in Seq(Bytes) /\ ToText(t) = str
  BY TextRoundTrip
<1>2. /\ l \in Nat /\ Len(w) = 4 + l
      /\ \A x \in 1..4 : w[x] = u[x]
      /\ \A x \in 1..l : w[4 + x] = t[x]
  BY WithLengthType
<1>3. Number(u) = l
  <2> HIDE DEF t, l
  <2> QED  BY <1>2, NumberRoundTrip
<1>4. /\ at \in Nat \ {0} /\ at - 1 + Len(w) <= Len(bytes)
      /\ \A x \in 1..Len(w) : bytes[at - 1 + x] = w[x]
  BY DEF Holds
<1> HIDE DEF t, l, u, w
<1>5. bytes[at] = u[1] /\ bytes[at + 1] = u[2] /\ bytes[at + 2] = u[3] /\ bytes[at + 3] = u[4]
  <2>1. /\ 1 \in 1..Len(w) /\ 2 \in 1..Len(w) /\ 3 \in 1..Len(w) /\ 4 \in 1..Len(w)
        /\ at - 1 + 1 = at /\ at - 1 + 2 = at + 1 /\ at - 1 + 3 = at + 2 /\ at - 1 + 4 = at + 3
    BY <1>2, <1>4
  <2>2. bytes[at - 1 + 1] = w[1] /\ bytes[at - 1 + 2] = w[2]
        /\ bytes[at - 1 + 3] = w[3] /\ bytes[at - 1 + 4] = w[4]
    BY <1>4, <2>1
  <2> QED  BY <1>2, <2>1, <2>2
<1>6. Following(bytes, at) = at + 4 + l
  BY <1>3, <1>5, SMT DEF Number, Following, ReadUInt32BE
<1>7. SubSeq(bytes, at + 4, at + 4 + l - 1) = t
  <2> DEFINE v == SubSeq(bytes, at + 4, at + 4 + l - 1)
  <2>1. v \in Seq(Octets) /\ Len(v) = l /\ \A x \in 1..l : v[x] = bytes[at + 3 + x]
    <3> DEFINE a == at + 4  e == at + 4 + l - 1
    <3>1. /\ a \in Nat \ {0} /\ e \in Int /\ e <= Len(bytes) /\ Len(bytes) \in Nat /\ l \in Nat
          /\ e - a + 1 = l /\ \A x \in 1..l : a + x - 1 = at + 3 + x
      BY <1>2, <1>4
    <3>2. bytes \in Seq(Octets) /\ v = SubSeq(bytes, a, e)
      OBVIOUS
    <3> HIDE DEF a, e, v
    <3>3. v \in Seq(Octets) /\ Len(v) = l /\ \A x \in 1..l : v[x] = bytes[a + x - 1]
      BY <3>1, <3>2
    <3> QED  BY <3>1, <3>3
  <2>2. ASSUME NEW x \in 1..l  PROVE bytes[at + 3 + x] = t[x]
    <3> DEFINE y == 4 + x
    <3>1. y \in 1..Len(w) /\ at - 1 + y = at + 3 + x
      BY <1>2, <1>4
    <3>2. w[y] = t[x]
      BY <1>2
    <3> HIDE DEF y
    <3>3. bytes[at - 1 + y] = w[y]
      BY <1>4, <3>1
    <3> QED  BY <3>1, <3>2, <3>3
  <2> HIDE DEF v
  <2>3. Len(t) = l
    BY DEF l
  <2>4. v = t
    <3>1. \A x \in 1..l : v[x] = t[x]
      BY <2>1, <2>2
    <3>2. v \in Seq(Octets) /\ t \in Seq(Bytes) /\ Len(v) = l /\ Len(t) = l /\ l \in Nat
      BY <1>1, <1>2, <2>1, <2>3
    <3> QED  BY <3>1, <3>2
  <2> QED  BY <2>4 DEF v
<1>8. TextAt(bytes, at) = str
  <2> DEFINE f == Following(bytes, at)
  <2>1. f - 1 = at + 4 + l - 1
    BY <1>2, <1>4, <1>6
  <2>2. TextAt(bytes, at) = ToText(SubSeq(bytes, at + 4, f - 1))
    BY DEF TextAt
  <2> HIDE DEF f
  <2> QED  BY <1>1, <1>7, <2>1, <2>2
<1> QED  BY <1>2, <1>4, <1>6, <1>8 DEF w

----------------------------------------------------------------------------
(* The strings TextsFrom finds.                                           *)

(* Chain: what TextsFrom makes of each position.                           *)
Chain(bytes, from, T) ==
  \A at \in from..Len(bytes) : \A next : next = Following(bytes, at) =>
    /\ next \in (at + 1)..Len(bytes) => T[at] = <<TextAt(bytes, at)>> \o T[next]
    /\ next \notin (at + 1)..Len(bytes) => T[at] = <<TextAt(bytes, at)>> \o <<>>

LEMMA TextsChain ==
  ASSUME NEW bytes, Len(bytes) \in Nat, NEW from \in 1..Len(bytes)
  PROVE  \E T : Chain(bytes, from, T) /\ TextsFrom(bytes, from) = T[from]
<1> DEFINE L == Len(bytes)
           N == L - from
           W == {TextAt(bytes, at) : at \in from..L}
           V == Seq(W)
           One(at) == <<TextAt(bytes, at)>>
           Inside(at) == Following(bytes, at) \in (at + 1)..L
           back == [i \in 1..N |-> IF Inside(L - i) THEN L - Following(bytes, L - i) ELSE 0]
           step == [i \in 1..N |-> [v \in V |->
                      One(L - i) \o (IF Inside(L - i) THEN v ELSE <<>>)]]
           Whole(T) == [at \in from..L |->
             One(at) \o (IF Inside(at) THEN T[Following(bytes, at)] ELSE <<>>)]
           T == CHOOSE f : f = Whole(f)
<1>1. L \in Nat /\ from \in Nat /\ from <= L /\ N \in Nat /\ L = from + N
  OBVIOUS
<1>2. /\ <<>> \in V
      /\ \A at \in from..L : One(at) \o <<>> \in V /\ \A v \in V : One(at) \o v \in V
  <2>1. \A at \in from..L : TextAt(bytes, at) \in W
    OBVIOUS
  <2> HIDE DEF W
  <2> QED  BY <2>1
<1> HIDE DEF V, W, One, L, N, Inside
<1>3. ASSUME NEW i \in 1..N
      PROVE  L - i \in from..L /\ (Inside(L - i) => Following(bytes, L - i) \in from..L
                                                    /\ L - Following(bytes, L - i) < i
                                                    /\ L - Following(bytes, L - i) \in Nat)
  BY <1>1 DEF Inside
<1>4. ~Inside(L)
  BY <1>1 DEF Inside
<1>5. PICK g \in [0..N -> V] : Solves(g, N, One(L) \o <<>>, back, step)
  <2>1. back \in [1..N -> Nat] /\ \A i \in 1..N : back[i] < i
    BY <1>3
  <2>2. step \in [1..N -> [V -> V]]
    <3>1. \A i \in 1..N : \A v \in V : One(L - i) \o (IF Inside(L - i) THEN v ELSE <<>>) \in V
      <4> TAKE i \in 1..N
      <4> TAKE v \in V
      <4> DEFINE at == L - i
      <4>1. at \in from..L
        BY <1>3
      <4> HIDE DEF at
      <4>2. One(at) \o v \in V /\ One(at) \o <<>> \in V
        BY <1>2, <4>1
      <4>3. One(at) \o (IF Inside(at) THEN v ELSE <<>>) \in V
        BY <4>2
      <4> QED  BY <4>3 DEF at
    <3> QED  BY <3>1
  <2>3. One(L) \o <<>> \in V
    BY <1>1, <1>2
  <2> HIDE DEF back, step
  <2>4. Recursive(N, V, One(L) \o <<>>, back, step)
    BY <1>1, <2>1, <2>2, <2>3 DEF Recursive
  <2> QED  BY <2>4, Recursion
<1> DEFINE h == [at \in from..L |-> g[L - at]]
<1>6. h = Whole(h)
  <2>1. ASSUME NEW at \in from..L
        PROVE  h[at] = One(at) \o (IF Inside(at) THEN h[Following(bytes, at)] ELSE <<>>)
    <3> DEFINE i == L - at
    <3>1. i \in 0..N /\ at = L - i /\ h[at] = g[i] /\ (i = 0 <=> at = L)
      BY <1>1
    <3> HIDE DEF i, h
    <3>2. CASE i = 0
      <4>1. g[i] = One(L) \o <<>>
        BY <1>5, <3>2 DEF Solves
      <4> QED  BY <1>4, <3>1, <3>2, <4>1
    <3>3. CASE i # 0
      <4>1. i \in 1..N
        BY <3>1, <3>3
      <4>2. g[i] = step[i][g[back[i]]]
        <5> HIDE DEF step, back
        <5> QED  BY <1>5, <4>1 DEF Solves
      <4>3. CASE Inside(at)
        <5> DEFINE next == Following(bytes, at)  k == L - next
        <5>1. next \in from..L /\ k \in 0..N
          BY <1>1, <1>3, <3>1, <4>1, <4>3
        <5>2. back[i] = k
          BY <3>1, <4>1, <4>3
        <5>3. h[next] = g[k]
          BY <5>1 DEF h
        <5> HIDE DEF next, k
        <5>4. g[k] \in V
          BY <5>1
        <5>5. step[i][g[k]] = One(at) \o g[k]
          BY <3>1, <4>1, <4>3, <5>4
        <5> HIDE DEF step, back
        <5>6. h[at] = One(at) \o h[next]
          BY <3>1, <4>2, <5>2, <5>3, <5>5
        <5> QED  BY <4>3, <5>6 DEF next
      <4>4. CASE ~Inside(at)
        <5>1. back[i] = 0 /\ g[0] \in V
          BY <1>1, <3>1, <4>1, <4>4
        <5> DEFINE k == 0
        <5>2. g[k] \in V /\ back[i] = k
          BY <5>1
        <5> HIDE DEF k
        <5>3. step[i][g[k]] = One(at) \o <<>>
          BY <3>1, <4>1, <4>4, <5>2
        <5> HIDE DEF step, back
        <5> QED  BY <3>1, <4>2, <4>4, <5>2, <5>3
      <4> QED  BY <4>3, <4>4
    <3> QED  BY <3>2, <3>3
  <2> HIDE DEF h
  <2>2. h = [at \in from..L |-> h[at]]
    BY DEF h
  <2> QED  BY <2>1, <2>2
<1>7. T = Whole(T)
  <2> HIDE DEF h, Whole
  <2> QED  BY <1>6
<1>8. TextsFrom(bytes, from) = T[from]
  BY DEF TextsFrom, One, Inside, L, TextAt, Following
<1>9. Chain(bytes, from, T)
  <2> HIDE DEF T
  <2>1. ASSUME NEW at \in from..L, NEW next, next = Following(bytes, at)
        PROVE  /\ next \in (at + 1)..L => T[at] = One(at) \o T[next]
               /\ next \notin (at + 1)..L => T[at] = One(at) \o <<>>
    <3>1. T[at] = One(at) \o (IF Inside(at) THEN T[Following(bytes, at)] ELSE <<>>)
      BY <1>7, Zenon
    <3>2. Inside(at) <=> next \in (at + 1)..L
      BY <2>1 DEF Inside
    <3> QED  BY <2>1, <3>1, <3>2
  <2> QED  BY <2>1 DEF Chain, L, One
<1> QED  BY <1>8, <1>9

Parts(keys) == [i \in DOMAIN keys |-> WithLength(keys[i])]

LEMMA PartsType ==
  ASSUME NEW keys \in Seq(Seq(Chars))
  PROVE  /\ Parts(keys) \in Seq(Seq(Octets)) /\ Len(Parts(keys)) = Len(keys) /\ Len(keys) \in Nat
         /\ \A i \in 1..Len(keys) : Parts(keys)[i] = WithLength(keys[i]) /\ keys[i] \in Seq(Chars)
<1>1. \A i \in 1..Len(keys) : keys[i] \in Seq(Chars)
  <2> DEFINE C == Seq(Chars)
  <2> HIDE DEF C
  <2>1. keys \in Seq(C)
    BY DEF C
  <2>2. \A i \in 1..Len(keys) : keys[i] \in C
    BY <2>1
  <2> QED  BY <2>2 DEF C
<1>2. \A i \in 1..Len(keys) : WithLength(keys[i]) \in Seq(Octets)
  BY <1>1, WithLengthType
<1>3. DOMAIN keys = 1..Len(keys) /\ Len(keys) \in Nat
  OBVIOUS
<1> DEFINE S == Seq(Octets)
<1> HIDE DEF S
<1>4. Parts(keys) \in Seq(S) /\ Len(Parts(keys)) = Len(keys)
      /\ \A i \in 1..Len(keys) : Parts(keys)[i] = WithLength(keys[i])
  <2>1. \A i \in 1..Len(keys) : WithLength(keys[i]) \in S
    BY <1>2 DEF S
  <2> QED  BY <1>3, <2>1 DEF Parts
<1> QED  BY <1>1, <1>3, <1>4 DEF S

LEMMA TakeOff ==
  ASSUME NEW C, NEW q \in Seq(C), NEW i \in 1..Len(q)
  PROVE  <<q[i]>> \o SubSeq(q, i + 1, Len(q)) = SubSeq(q, i, Len(q))
OBVIOUS

(* bytes end with what stands from B on.                                   *)
EndsWith(bytes, B, flat) ==
  /\ Len(bytes) = B - 1 + Len(flat)
  /\ \A x \in 1..Len(flat) : bytes[B - 1 + x] = flat[x]

(* The namespace and the keys from a position to the end.                  *)
LEMMA TextsRoundTrip ==
  ASSUME NEW bytes \in Seq(Octets), NEW from \in 1..Len(bytes),
         NEW ns \in Seq(Chars), NEW keys \in Seq(Seq(Chars)),
         NEW flat, flat = FlattenSeq(Parts(keys)),
         Holds(bytes, from, ns), NEW B, B = from + Len(WithLength(ns)),
         EndsWith(bytes, B, flat)
  PROVE  TextsFrom(bytes, from) = <<ns>> \o keys
<1> DEFINE n == Len(keys)  s == Parts(keys)  L == Len(bytes)
<1>0. /\ Len(bytes) = B - 1 + Len(flat)
      /\ \A x \in 1..Len(flat) : bytes[B - 1 + x] = flat[x]
  BY DEF EndsWith
<1>1. PICK g : Joins(Octets, n, s, g) /\ flat = g[n]
  <2>1. \E g : Joins(Octets, Len(s), s, g) /\ FlattenSeq(s) = g[Len(s)]
    BY PartsType, FlattenJoins
  <2>2. Len(s) = n
    BY PartsType
  <2> HIDE DEF s, n
  <2> QED  BY <2>1, <2>2 DEF s
<1>2. PICK T : Chain(bytes, from, T) /\ TextsFrom(bytes, from) = T[from]
  <2>1. Len(bytes) \in Nat
    OBVIOUS
  <2> QED  BY <2>1, TextsChain
<1>3. /\ Following(bytes, from) = B /\ TextAt(bytes, from) = ns
      /\ B \in Nat /\ B >= from + 4 /\ from \in Nat /\ from >= 1
  BY TextRead
<1>4. n \in Nat /\ g[0] = <<>> /\ Len(flat) \in Nat /\ L = B - 1 + Len(flat)
  <2>1. n \in 0..n
    BY PartsType
  <2> QED  BY <1>0, <1>1, <2>1, PartsType DEF Joins
<1>5. ASSUME NEW i \in 1..n, NEW j, j = i - 1
      PROVE  /\ Len(g[j]) \in Nat /\ Len(g[i]) \in Nat
             /\ Len(g[i]) >= Len(g[j]) + 4 /\ Len(g[i]) <= Len(flat)
             /\ Following(bytes, B + Len(g[j])) = B + Len(g[i])
             /\ TextAt(bytes, B + Len(g[j])) = keys[i]
  <2>1. Sliced(g, s, i, j, n)
    BY <1>1, <1>5, Slice
  <2> DEFINE w == WithLength(keys[i])  a == Len(g[j])  c == Len(g[i])  at == B + a
  <2>2. s[i] = w /\ keys[i] \in Seq(Chars)
    BY PartsType
  <2>3. /\ c = a + Len(w) /\ a \in Nat /\ Len(w) \in Nat /\ Len(w) >= 4 /\ c <= Len(flat)
        /\ \A x \in 1..Len(w) : flat[a + x] = w[x]
    <3>1. Len(w) \in Nat /\ Len(w) >= 4
      BY <2>2, WithLengthLong
    <3> HIDE DEF w, s
    <3> QED  BY <1>1, <2>1, <2>2, <3>1 DEF Sliced
  <2>4. /\ a \in Nat /\ c \in Nat /\ Len(w) \in Nat /\ Len(w) >= 4
        /\ c = a + Len(w) /\ c <= Len(flat) /\ at = B + a
    <3> HIDE DEF a, c, w
    <3> QED  BY <2>3
  <2>5. /\ at \in Nat \ {0} /\ at - 1 + Len(w) <= L /\ at + Len(w) = B + c /\ c >= a + 4
        /\ \A x \in 1..Len(w) : a + x \in 1..Len(flat) /\ B - 1 + (a + x) = at - 1 + x
    <3> DEFINE m == Len(w)  f == Len(flat)
    <3> HIDE DEF w, a, c, L, m, f, at
    <3>1. /\ a \in Nat /\ c \in Nat /\ m \in Nat /\ m >= 4 /\ c = a + m /\ c <= f /\ at = B + a
      BY <2>4 DEF m, f
    <3>2. B \in Nat /\ B >= 1 /\ f \in Nat /\ L = B - 1 + f
      BY <1>3, <1>4 DEF f
    <3>3. /\ at \in Nat \ {0} /\ at - 1 + m <= L /\ at + m = B + c /\ c >= a + 4
          /\ \A x \in 1..m : a + x \in 1..f /\ B - 1 + (a + x) = at - 1 + x
      BY <3>1, <3>2
    <3> QED  BY <3>3 DEF m, f
  <2>6. Holds(bytes, at, keys[i])
    <3>1. ASSUME NEW x \in 1..Len(w)  PROVE bytes[at - 1 + x] = w[x]
      <4> DEFINE y == a + x
      <4>1. y \in 1..Len(flat) /\ B - 1 + y = at - 1 + x
        BY <2>5
      <4>2. flat[y] = w[x]
        BY <2>3
      <4> HIDE DEF y, w, a, at
      <4>3. bytes[B - 1 + y] = flat[y]
        BY <1>0, <4>1
      <4> QED  BY <4>1, <4>2, <4>3
    <3> HIDE DEF at
    <3> QED  BY <2>5, <3>1 DEF Holds
  <2>7. Following(bytes, at) = at + Len(w) /\ TextAt(bytes, at) = keys[i]
    <3> HIDE DEF at
    <3> QED  BY <2>2, <2>6, TextRead
  <2>8. /\ a \in Nat /\ c \in Nat /\ c >= a + 4 /\ c <= Len(flat)
        /\ Following(bytes, at) = B + c /\ TextAt(bytes, at) = keys[i]
    <3> HIDE DEF a, c, w, at
    <3> QED  BY <2>4, <2>5, <2>7
  <2> QED  BY <2>8
(* Before key i stand the keys from i on.                                  *)
<1> DEFINE After(j) == T[B + Len(g[j])] = SubSeq(keys, j + 1, n)
           D == {d \in Nat : \A j \in 0..n : j = n - (d + 1) => After(j)}
<1>6. 0 \in D
  <2>1. ASSUME NEW j \in 0..n, j = n - 1  PROVE After(j)
    <3> DEFINE i == j + 1  at == B + Len(g[j])  next == B + Len(g[i])
    <3>1. i \in 1..n /\ j = i - 1 /\ i = n
      BY <1>4, <2>1
    <3> HIDE DEF i
    <3>2. /\ Len(g[j]) \in Nat /\ Len(g[i]) \in Nat
          /\ Len(g[i]) >= Len(g[j]) + 4 /\ Len(g[i]) = Len(flat)
          /\ Following(bytes, at) = next /\ TextAt(bytes, at) = keys[i]
      BY <1>1, <1>5, <3>1
    <3>3. at \in from..L /\ next \notin (at + 1)..L
      <4> DEFINE a == Len(g[j])  c == Len(g[i])  f == Len(flat)
      <4>1. a \in Nat /\ c \in Nat /\ c >= a + 4 /\ c = f /\ at = B + a /\ next = B + c
        BY <3>2
      <4>2. B \in Nat /\ from \in Nat /\ B >= from + 4 /\ L = B - 1 + f
        BY <1>3, <1>4
      <4> HIDE DEF L, a, c, f, at, next
      <4> QED  BY <4>1, <4>2
    <3> HIDE DEF at, next
    <3>4. T[at] = <<keys[i]>> \o <<>>
      BY <1>2, <3>2, <3>3 DEF Chain
    <3> DEFINE C == Seq(Chars)
    <3> HIDE DEF C
    <3>5. keys \in Seq(C)
      BY DEF C
    <3>6. <<keys[i]>> \o <<>> = SubSeq(keys, j + 1, n)
      BY <3>1, <3>5
    <3> QED  BY <3>4, <3>6 DEF at
  <2>2. \A j \in 0..n : j = n - (0 + 1) => After(j)
    <3> HIDE DEF After
    <3>1. 0 + 1 = 1
      OBVIOUS
    <3> QED  BY <2>1, <3>1
  <2> HIDE DEF After
  <2> QED  BY <2>2
<1>7. ASSUME NEW d \in D  PROVE d + 1 \in D
  <2>1. d \in Nat /\ \A k \in 0..n : k = n - (d + 1) => After(k)
    OBVIOUS
  <2>2. ASSUME NEW j \in 0..n, j = n - ((d + 1) + 1)  PROVE After(j)
    <3> DEFINE i == j + 1  at == B + Len(g[j])  next == B + Len(g[i])
    <3>1. i \in 1..n /\ j = i - 1 /\ i = n - (d + 1) /\ i \in 0..n /\ i + 1 \in 1..n
      BY <1>4, <2>1, <2>2
    <3> DEFINE k == i + 1
    <3>2. k \in 1..n /\ i = k - 1
      BY <3>1
    <3> HIDE DEF i, D, k, After
    <3>3. /\ Len(g[j]) \in Nat /\ Len(g[i]) \in Nat
          /\ Len(g[i]) >= Len(g[j]) + 4
          /\ Following(bytes, at) = next /\ TextAt(bytes, at) = keys[i]
      BY <1>5, <3>1
    <3>4. Len(g[k]) >= Len(g[i]) + 4 /\ Len(g[k]) <= Len(flat) /\ Len(g[k]) \in Nat
      BY <1>5, <3>2
    <3>5. at \in from..L /\ next \in (at + 1)..L
      <4> DEFINE a == Len(g[j])  c == Len(g[i])  e == Len(g[k])  f == Len(flat)
      <4>1. a \in Nat /\ c \in Nat /\ c >= a + 4 /\ at = B + a /\ next = B + c
        BY <3>3
      <4>2. e \in Nat /\ e >= c + 4 /\ e <= f
        BY <3>4
      <4>3. B \in Nat /\ from \in Nat /\ B >= from + 4 /\ f \in Nat /\ L = B - 1 + f
        BY <1>3, <1>4
      <4> HIDE DEF L, a, c, e, f, at, next
      <4> QED  BY <4>1, <4>2, <4>3
    <3>6. T[next] = SubSeq(keys, i + 1, n)
      BY <2>1, <3>1 DEF After
    <3> HIDE DEF at, next
    <3>7. T[at] = <<keys[i]>> \o T[next]
      BY <1>2, <3>3, <3>5 DEF Chain
    <3> DEFINE C == Seq(Chars)
    <3> HIDE DEF C
    <3>8. keys \in Seq(C)
      BY DEF C
    <3>9. <<keys[i]>> \o SubSeq(keys, i + 1, n) = SubSeq(keys, j + 1, n)
      <4>1. n = Len(keys)
        OBVIOUS
      <4> HIDE DEF n
      <4>2. <<keys[i]>> \o SubSeq(keys, i + 1, Len(keys)) = SubSeq(keys, i, Len(keys))
        BY <3>1, <3>8, <4>1, TakeOff
      <4>3. j + 1 = i
        BY <3>1
      <4> QED  BY <4>1, <4>2, <4>3
    <3> QED  BY <3>6, <3>7, <3>9 DEF at, After
  <2> HIDE DEF After
  <2> QED  BY <2>1, <2>2
<1>8. D = Nat
  <2> HIDE DEF D
  <2>1. D \subseteq Nat
    BY DEF D
  <2> QED  BY <1>6, <1>7, <2>1, Induction
<1> DEFINE C == Seq(Chars)
<1>9. keys \in Seq(C) /\ ns \in C
  OBVIOUS
<1> HIDE DEF C
<1>10. CASE n = 0
  <2>1. keys = <<>>
    BY <1>9, <1>10
  <2>2. Len(flat) = 0
    BY <1>1, <1>4, <1>10
  <2>3. from \in from..L /\ B \notin (from + 1)..L
    BY <1>3, <1>4, <2>2
  <2>4. T[from] = <<ns>> \o <<>>
    BY <1>2, <1>3, <2>3 DEF Chain
  <2> QED  BY <1>2, <2>1, <2>4
<1>11. CASE n # 0
  <2> DEFINE d == n - 1
  <2>1. d \in Nat /\ 0 \in 0..n /\ 0 = n - (d + 1)
    BY <1>4, <1>11
  <2> HIDE DEF D, After
  <2>2. After(0)
    <3> HIDE DEF d
    <3> QED  BY <1>8, <2>1 DEF D
  <2>3. T[B] = keys
    <3>1. Len(g[0]) = 0 /\ B + 0 = B
      BY <1>3, <1>4
    <3>2. SubSeq(keys, 0 + 1, n) = keys
      BY <1>9
    <3> QED  BY <2>2, <3>1, <3>2 DEF After
  <2>4. Len(g[0]) = 0 /\ 1 \in 1..n /\ 0 = 1 - 1
    BY <1>4, <1>11
  <2> DEFINE i == 1  j == 0
  <2>5. Len(g[j]) = 0 /\ i \in 1..n /\ j = i - 1
    BY <2>4
  <2> HIDE DEF i, j, n, L
  <2>6. Len(flat) >= 4
    <3>1. /\ Len(g[i]) \in Nat /\ Len(g[i]) >= Len(g[j]) + 4 /\ Len(g[i]) <= Len(flat)
      BY <1>5, <2>5
    <3> DEFINE c == Len(g[i])  f == Len(flat)
    <3>2. c \in Nat /\ c >= 0 + 4 /\ c <= f /\ f \in Nat
      BY <1>4, <2>5, <3>1
    <3> HIDE DEF c, f
    <3>3. f >= 4
      BY <3>2
    <3> QED  BY <3>3 DEF f
  <2>7. from \in from..L /\ B \in (from + 1)..L
    BY <1>3, <1>4, <2>6
  <2>8. T[from] = <<ns>> \o T[B]
    BY <1>2, <1>3, <2>7 DEF Chain, L
  <2> QED  BY <1>2, <2>3, <2>8
<1> QED  BY <1>10, <1>11

----------------------------------------------------------------------------
(* Messages.                                                              *)

(* What a bus may send: an id fills the bytes reserved for it.             *)
Messages == [busId: {id \in Seq(Chars) : Len(ToBytes(id)) = BusIdLength},
             type: MessageTypes, namespace: Seq(Chars), keys: Seq(Seq(Chars))]

LEMMA TypeRoundTrip ==
  ASSUME NEW type \in MessageTypes
  PROVE  TypeByte[type] \in Nat /\ TypeOf(TypeByte[type]) = type
<1>1. \A other \in MessageTypes : TypeByte[other] = TypeByte[type] <=> other = type
  BY DEF MessageTypes, TypeByte
<1>2. TypeByte[type] \in Nat
  BY DEF MessageTypes, TypeByte
<1> QED  BY <1>1, <1>2 DEF TypeOf

(* Decoding gives back every message that was encoded, with any names and  *)
(* keys, a process's id of the reserved length: binary_encoder.ts:54-173   *)
(* loses nothing, whatever bytes its characters take.                      *)
THEOREM MessageRoundTrip ==
  ASSUME NEW m \in Messages
  PROVE  Decode(Encode(m)) = m
<1> DEFINE b == BusIdLength  id == ToBytes(m.busId)  ns == m.namespace  keys == m.keys
           fixed == FixedBytes(m.busId)  byte == TypeByte[m.type]
           w == WithLength(ns)  flat == FlattenSeq(Parts(keys))
           bytes == Encode(m)  from == b + 2
<1>1. /\ m.busId \in Seq(Chars) /\ Len(id) = b /\ m.type \in MessageTypes
      /\ ns \in Seq(Chars) /\ keys \in Seq(Seq(Chars)) /\ b \in Nat
  BY EncoderAssumption DEF Messages
<1>2. id \in Seq(Bytes) /\ ToText(id) = m.busId
  BY <1>1, TextRoundTrip
<1>3. fixed = id
  <2>1. fixed = [i \in 1..b |-> IF i <= Len(id) THEN id[i] ELSE 0]
    BY DEF FixedBytes
  <2>2. id = [i \in 1..b |-> id[i]]
    <3> HIDE DEF id
    <3> QED  BY <1>1, <1>2
  <2> HIDE DEF id, fixed
  <2> QED  BY <1>1, <2>1, <2>2
<1>4. byte \in Nat /\ TypeOf(byte) = m.type
  BY <1>1, TypeRoundTrip
<1>5. w \in Seq(Octets) /\ Len(w) \in Nat /\ Len(w) >= 4
  BY <1>1, WithLengthType, WithLengthLong
<1>6. flat \in Seq(Octets)
  <2> DEFINE s == Parts(keys)  n == Len(s)
  <2>1. s \in Seq(Seq(Octets))
    BY <1>1, PartsType
  <2>2. PICK g : Joins(Octets, n, s, g) /\ FlattenSeq(s) = g[n]
    BY <2>1, FlattenJoins
  <2>3. n \in 0..n
    BY <2>2 DEF Joins
  <2> HIDE DEF n, s
  <2>4. g[n] \in Seq(Octets)
    BY <2>2, <2>3 DEF Joins
  <2> QED  BY <2>2, <2>4 DEF s
<1>7. bytes = id \o <<byte>> \o w \o flat
  <2>1. bytes = fixed \o <<byte>> \o w \o flat
    BY DEF Encode, Parts
  <2> QED  BY <1>3, <2>1
<1>8. id \in Seq(Octets) /\ <<byte>> \in Seq(Octets)
  <2> HIDE DEF id, byte
  <2> QED  BY <1>2, <1>4 DEF Octets
<1> HIDE DEF id, byte, w, flat, bytes, from, b
<1> DEFINE one == id \o <<byte>>  two == one \o w
<1>9. /\ one \in Seq(Octets) /\ Len(one) = b + 1 /\ one[b + 1] = byte
      /\ \A x \in 1..b : one[x] = id[x]
  BY <1>1, <1>8
<1> HIDE DEF one
<1>10. /\ two \in Seq(Octets) /\ Len(two) = b + 1 + Len(w)
       /\ \A x \in 1..(b + 1) : two[x] = one[x]
       /\ \A x \in 1..Len(w) : two[b + 1 + x] = w[x]
  <2>1. two = one \o w
    OBVIOUS
  <2> HIDE DEF two
  <2>2. two \in Seq(Octets) /\ Concatenates(two, one, w)
    BY <1>5, <1>9, <2>1, Concat
  <2> QED  BY <1>9, <2>2 DEF Concatenates
<1>11. bytes = two \o flat
  BY <1>7 DEF one
<1> HIDE DEF two
<1>12. /\ bytes \in Seq(Octets) /\ Len(bytes) = b + 1 + Len(w) + Len(flat) /\ Len(flat) \in Nat
       /\ \A x \in 1..(b + 1 + Len(w)) : bytes[x] = two[x]
       /\ \A x \in 1..Len(flat) : bytes[b + 1 + Len(w) + x] = flat[x]
  <2>1. bytes \in Seq(Octets) /\ Concatenates(bytes, two, flat)
    BY <1>6, <1>10, <1>11, Concat
  <2> QED  BY <1>10, <2>1 DEF Concatenates
<1> DEFINE l == Len(w)  f == Len(flat)
<1>13. l \in Nat /\ l >= 4 /\ f \in Nat /\ b \in Nat /\ Len(bytes) = b + 1 + l + f /\ from = b + 2
  BY <1>1, <1>5, <1>12 DEF from
<1>14. ASSUME NEW x \in 1..b  PROVE bytes[x] = id[x]
  <2>1. x \in 1..(b + 1) /\ x \in 1..(b + 1 + Len(w))
    <3> HIDE DEF l, f
    <3> QED  BY <1>13 DEF l
  <2> QED  BY <1>9, <1>10, <1>12, <2>1
<1>15. bytes[b + 1] = byte
  <2>1. b + 1 \in 1..(b + 1) /\ b + 1 \in 1..(b + 1 + Len(w))
    <3> HIDE DEF l, f
    <3> QED  BY <1>13 DEF l
  <2> QED  BY <1>9, <1>10, <1>12, <2>1
<1>16. SubSeq(bytes, 1, b) = id
  <2> DEFINE v == SubSeq(bytes, 1, b)
  <2>1. v \in Seq(Octets) /\ Len(v) = b /\ \A x \in 1..b : v[x] = bytes[x]
    <3>1. b <= Len(bytes)
      <4> HIDE DEF l, f
      <4> QED  BY <1>13
    <3> QED  BY <1>12, <1>13, <3>1
  <2>2. \A x \in 1..b : v[x] = id[x]
    BY <1>14, <2>1
  <2> HIDE DEF v
  <2>3. v = id
    BY <1>1, <1>2, <2>1, <2>2 DEF id
  <2> QED  BY <2>3 DEF v
<1>17. Holds(bytes, from, ns)
  <2>1. ASSUME NEW x \in 1..Len(w)  PROVE bytes[from - 1 + x] = w[x]
    <3> DEFINE y == b + 1 + x
    <3>1. y \in 1..(b + 1 + Len(w)) /\ y = from - 1 + x
      <4> HIDE DEF f
      <4> QED  BY <1>13
    <3>2. two[y] = w[x]
      BY <1>10
    <3> HIDE DEF y
    <3>3. bytes[y] = two[y]
      BY <1>12, <3>1
    <3> QED  BY <3>1, <3>2, <3>3
  <2>2. from \in Nat \ {0} /\ from - 1 + Len(w) <= Len(bytes)
    <3> HIDE DEF l, f
    <3> QED  BY <1>13 DEF l
  <2> QED  BY <2>1, <2>2 DEF Holds, w
<1>18. TextsFrom(bytes, from) = <<ns>> \o keys
  <2> DEFINE B == from + Len(w)
  <2>1. from \in 1..Len(bytes) /\ Len(bytes) = B - 1 + Len(flat) /\ B - 1 = b + 1 + Len(w)
    <3> HIDE DEF l, f
    <3> QED  BY <1>13 DEF l, f
  <2>2. \A x \in 1..Len(flat) : bytes[B - 1 + x] = flat[x]
    <3> HIDE DEF B
    <3> QED  BY <1>12, <2>1
  <2>3. B = from + Len(WithLength(ns)) /\ flat = FlattenSeq(Parts(keys))
    BY DEF w, flat
  <2>4. EndsWith(bytes, B, flat)
    <3> HIDE DEF B
    <3> QED  BY <2>1, <2>2 DEF EndsWith
  <2> HIDE DEF B, ns, keys
  <2> QED  BY <1>1, <1>12, <1>17, <2>1, <2>3, <2>4, TextsRoundTrip
<1>19. Head(<<ns>> \o keys) = ns /\ Tail(<<ns>> \o keys) = keys
  <2> DEFINE C == Seq(Chars)
  <2>1. ns \in C /\ keys \in Seq(C)
    BY <1>1
  <2> HIDE DEF C, ns, keys
  <2> QED  BY <2>1
<1>20. Decode(bytes) = [busId |-> ToText(SubSeq(bytes, 1, b)), type |-> TypeOf(bytes[b + 1]),
                        namespace |-> Head(TextsFrom(bytes, b + 2)),
                        keys |-> Tail(TextsFrom(bytes, b + 2))]
  BY DEF Decode, b
<1>21. Decode(bytes) = [busId |-> m.busId, type |-> m.type, namespace |-> ns, keys |-> keys]
  <2> HIDE DEF ns, keys
  <2> QED  BY <1>2, <1>4, <1>13, <1>15, <1>16, <1>18, <1>19, <1>20
<1>22. m = [busId |-> m.busId, type |-> m.type, namespace |-> ns, keys |-> keys]
  BY DEF Messages
<1> QED  BY <1>21, <1>22 DEF bytes

----------------------------------------------------------------------------
(* Prefixes and keys.                                                     *)

LEMMA SanitizedType ==
  ASSUME NEW C, NEW prefix \in Seq(C)
  PROVE  Sanitized(prefix) \in Seq(C)
<1> DEFINE S == {0} \cup {i \in DOMAIN prefix : prefix[i] # ":"}  n == Len(prefix)
<1>1. n \in Nat /\ S \in SUBSET Nat /\ S # {} /\ \A i \in S : i <= n
  OBVIOUS
<1>2. Max(S) \in S
  <2> HIDE DEF S, n
  <2> QED  BY <1>1, MaxOf
<1>3. Max(S) \in 0..n
  <2> HIDE DEF S
  <2>1. Max(S) \in Nat /\ Max(S) <= n
    BY <1>1, <1>2
  <2> QED  BY <1>1, <2>1
<1>4. Sanitized(prefix) = SubSeq(prefix, 1, Max(S))
  BY DEF Sanitized
<1> HIDE DEF S
<1> QED  BY <1>3, <1>4

LEMMA NamespacePrefixType ==
  ASSUME NEW C, ":" \in C, NEW prefix \in Seq(C), NEW name \in Seq(C)
  PROVE  NamespacePrefix(prefix, name) \in Seq(C)
<1>1. Sanitized(prefix) \in Seq(C)
  BY SanitizedType
<1>2. <<":">> \in Seq(C)
  OBVIOUS
<1> QED  BY <1>1, <1>2 DEF NamespacePrefix

LEMMA ItemKeyType ==
  ASSUME NEW C, ":" \in C, NEW prefix \in Seq(C), NEW key \in Seq(C)
  PROVE  ItemKey(prefix, key) \in Seq(C)
<1>1. <<":">> \in Seq(C)
  OBVIOUS
<1> QED  BY <1>1 DEF ItemKey

(* The prefix of every namespace is a string.                              *)
LEMMA PrefixOfType ==
  ASSUME NEW C, ":" \in C, NEW root \in Seq(C), NEW path \in Seq(Seq(C))
  PROVE  PrefixOf(root, path) \in Seq(C)
<1> DEFINE n == Len(path)
           V == Seq(C)
           base == Sanitized(root)
           back == [i \in 1..n |-> i - 1]
           step == [i \in 1..n |-> [v \in V |-> Sanitized(NamespacePrefix(v, path[i]))]]
           Whole(T) == [i \in 0..n |-> IF i = 0 THEN base
                          ELSE Sanitized(NamespacePrefix(T[i - 1], path[i]))]
           T == CHOOSE f : f = Whole(f)
<1>1. n \in Nat /\ base \in V /\ \A i \in 1..n : path[i] \in V
  <2>1. base \in V
    BY SanitizedType
  <2>2. path \in Seq(V)
    OBVIOUS
  <2> HIDE DEF V, base
  <2> QED  BY <2>1, <2>2
<1>2. \A i \in 1..n : \A v \in V : Sanitized(NamespacePrefix(v, path[i])) \in V
  <2> TAKE i \in 1..n
  <2> TAKE v \in V
  <2>1. path[i] \in Seq(C) /\ v \in Seq(C)
    BY <1>1
  <2>2. NamespacePrefix(v, path[i]) \in Seq(C)
    BY <2>1, NamespacePrefixType
  <2> QED  BY <2>2, SanitizedType
<1> HIDE DEF V, n, base
<1>3. PICK g \in [0..n -> V] : Solves(g, n, base, back, step)
  <2>1. back \in [1..n -> Nat] /\ \A i \in 1..n : back[i] < i
    BY <1>1
  <2>2. step \in [1..n -> [V -> V]]
    BY <1>2
  <2> HIDE DEF back, step
  <2>3. Recursive(n, V, base, back, step)
    BY <1>1, <2>1, <2>2 DEF Recursive
  <2> QED  BY <2>3, Recursion
<1>4. g = Whole(g)
  <2>1. ASSUME NEW i \in 0..n
        PROVE  g[i] = IF i = 0 THEN base ELSE Sanitized(NamespacePrefix(g[i - 1], path[i]))
    <3>1. CASE i = 0
      BY <1>3, <3>1 DEF Solves
    <3>2. CASE i # 0
      <4> DEFINE j == i - 1
      <4>1. i \in 1..n /\ j \in 0..n /\ j = i - 1
        BY <1>1, <3>2
      <4>2. back[i] = j
        BY <4>1
      <4> HIDE DEF j
      <4>3. g[j] \in V
        BY <4>1
      <4>4. step[i][g[j]] = Sanitized(NamespacePrefix(g[j], path[i]))
        BY <4>1, <4>3
      <4> HIDE DEF step, back
      <4>5. g[i] = step[i][g[back[i]]]
        BY <1>3, <4>1 DEF Solves
      <4> QED  BY <3>2, <4>1, <4>2, <4>4, <4>5
    <3> QED  BY <3>1, <3>2
  <2>2. g = [i \in 0..n |-> g[i]]
    OBVIOUS
  <2> QED  BY <2>1, <2>2
<1>5. T = Whole(T)
  <2> HIDE DEF Whole
  <2> QED  BY <1>4
<1> HIDE DEF T
<1> DEFINE S == {i \in Nat : i <= n => T[i] \in V}
<1>6. 0 \in S
  BY <1>1, <1>5
<1>7. ASSUME NEW j \in S  PROVE j + 1 \in S
  <2>1. j \in Nat /\ (j <= n => T[j] \in V)
    OBVIOUS
  <2>2. ASSUME NEW i \in 1..n, j = i - 1  PROVE T[i] \in V
    <3>1. i \in 0..n /\ i # 0 /\ T[j] \in V
      BY <1>1, <2>1, <2>2
    <3>2. T[i] = Sanitized(NamespacePrefix(T[j], path[i]))
      BY <1>5, <2>2, <3>1
    <3> QED  BY <1>2, <3>1, <3>2
  <2>3. j + 1 <= n => j + 1 \in 1..n /\ j = (j + 1) - 1
    BY <1>1, <2>1
  <2>4. j + 1 <= n => T[j + 1] \in V
    BY <2>2, <2>3
  <2> QED  BY <2>1, <2>4
<1>8. n \in S
  <2> HIDE DEF S
  <2>1. S \subseteq Nat
    BY DEF S
  <2> QED  BY <1>1, <1>6, <1>7, <2>1, Induction
<1>9. PrefixOf(root, path) = T[n]
  BY DEF PrefixOf, T, n, base
<1> QED  BY <1>1, <1>8, <1>9 DEF V

(* What starts with a prefix, LIKE and glob match.                         *)
LEMMA SameMatched ==
  ASSUME NEW C, NEW pattern \in Seq(C), NEW key \in Seq(C), NEW many, NEW one,
         Len(pattern) <= Len(key), \A i \in 1..Len(pattern) : pattern[i] = key[i]
  PROVE  Matched(pattern, key, many, one)
<1> DEFINE literal == {i \in DOMAIN pattern : pattern[i] # many}  at == [i \in literal |-> i]
           lies(i) == IF i = 0 THEN 0 ELSE at[i]
<1>1. /\ DOMAIN pattern = 1..Len(pattern) /\ DOMAIN key = 1..Len(key)
      /\ Len(pattern) \in Nat /\ Len(key) \in Nat
  OBVIOUS
<1>2. literal \subseteq 1..Len(pattern)
  BY <1>1
<1>3. at \in [literal -> DOMAIN key]
  BY <1>1, <1>2
<1>4. \A i \in literal : pattern[i] \in {one, key[at[i]]}
  BY <1>2
<1>5. \A i \in literal \cup {0}, j \in literal : lies(j) - lies(i) = j - i
  BY <1>1, <1>2
<1> HIDE DEF at
<1> QED  BY <1>3, <1>4, <1>5 DEF Matched

LEMMA Lowered ==
  ASSUME NEW C, Lower \in [C -> C], NEW str \in Seq(C)
  PROVE  /\ LowerCase(str) \in Seq(C) /\ Len(LowerCase(str)) = Len(str)
         /\ \A i \in 1..Len(str) : LowerCase(str)[i] = Lower[str[i]]
<1>1. DOMAIN str = 1..Len(str) /\ Len(str) \in Nat
  OBVIOUS
<1>2. LowerCase(str) = [i \in 1..Len(str) |-> Lower[str[i]]]
  BY <1>1 DEF LowerCase
<1>3. \A i \in 1..Len(str) : Lower[str[i]] \in C
  BY <1>1
<1> QED  BY <1>1, <1>2, <1>3

LEMMA StartsLike ==
  ASSUME NEW C, NEW x, x = ":", x \in C, NEW prefix \in Seq(C), NEW key \in Seq(C),
         Lower \in [C -> C], StartsWith(prefix, key)
  PROVE  Like(prefix, key) /\ Glob(prefix, key)
<1>0. PICK p : p = prefix \o <<x>>
  OBVIOUS
<1>1. p \in Seq(C)
  BY <1>0
<1>2. IsPrefix(p, key)
  BY <1>0 DEF StartsWith
<1>3. Len(p) <= Len(key) /\ SubSeq(p, 1, Len(p)) = SubSeq(key, 1, Len(p))
  BY <1>2 DEF IsPrefix
<1>4. ASSUME NEW i \in 1..Len(p)  PROVE p[i] = key[i]
  <2> DEFINE a == SubSeq(p, 1, Len(p))  b == SubSeq(key, 1, Len(p))
  <2>1. a[i] = p[i] /\ b[i] = key[i]
    BY <1>1, <1>3
  <2> HIDE DEF a, b
  <2>2. a = b
    BY <1>3 DEF a, b
  <2> QED  BY <2>1, <2>2
<1>5. Matched(p, key, "*", "?")
  BY <1>1, <1>3, <1>4, SameMatched
<1> DEFINE low == LowerCase(p)  of == LowerCase(key)
<1>6. /\ low \in Seq(C) /\ Len(low) = Len(p) /\ \A i \in 1..Len(p) : low[i] = Lower[p[i]]
      /\ of \in Seq(C) /\ Len(of) = Len(key) /\ \A i \in 1..Len(key) : of[i] = Lower[key[i]]
  BY <1>1, Lowered
<1>7. Len(p) \in Nat /\ Len(key) \in Nat
  BY <1>1
<1> HIDE DEF low, of
<1>8. \A i \in 1..Len(low) : low[i] = of[i]
  BY <1>3, <1>4, <1>6, <1>7
<1>9. Matched(low, of, "%", "_")
  BY <1>3, <1>6, <1>8, SameMatched
<1> QED  BY <1>0, <1>5, <1>9 DEF Like, Glob, low, of

----------------------------------------------------------------------------
(* The names of paths, targets and keys.                                  *)

StrSet == Seq(Chars)

LEMMA PathOf ==
  ASSUME NEW path
  PROVE  path \in Paths <=> path = <<>> \/ \E t \in Targets : path \in Ancestors(t.path)
BY DEF Paths

LEMMA TargetTypes ==
  ASSUME NEW target \in Targets \cup Wholes
  PROVE  /\ target.path \in Paths /\ target.path \in Seq(StrSet) /\ target.keys \in Seq(StrSet)
         /\ target \in Targets => target.keys # <<>>
         /\ target \in Wholes => target.keys = <<>>
<1>1. CASE target \in Targets
  <2>1. target.path \in Seq(StrSet) /\ target.keys \in Seq(StrSet)
    BY <1>1, NamesAssumption DEF StrSet
  <2>2. target.path \in Ancestors(target.path)
    <3> DEFINE path == target.path  n == Len(path)
    <3> HIDE DEF path
    <3>1. path \in Seq(StrSet)
      BY <2>1 DEF path
    <3>2. n \in 0..n /\ SubSeq(path, 1, n) = path
      BY <3>1
    <3> QED  BY <3>2 DEF path, Ancestors
  <2>3. target.path \in Paths
    BY <1>1, <2>2, PathOf
  <2>4. target.keys # <<>>
    BY <1>1, StoresAssumption
  <2>5. target \in Wholes => target.keys = <<>>
    BY DEF Wholes
  <2> QED  BY <2>1, <2>3, <2>4, <2>5
<1>2. CASE target \in Wholes
  <2>1. target.keys = <<>> /\ target.path \in Paths
    BY <1>2 DEF Wholes
  <2>2. target.keys \in Seq(StrSet)
    BY <2>1
  <2>3. ASSUME NEW path \in Paths  PROVE path \in Seq(StrSet)
    <3>1. CASE path = <<>>
      BY <3>1
    <3>2. CASE path # <<>>
      <4>1. PICK t \in Targets : path \in Ancestors(t.path)
        BY <3>2, PathOf
      <4>2. t.path \in Seq(StrSet)
        BY NamesAssumption DEF StrSet
      <4>3. PICK n \in 0..Len(t.path) : path = SubSeq(t.path, 1, n)
        BY <4>1 DEF Ancestors
      <4> QED  BY <4>2, <4>3
    <3> QED  BY <3>1, <3>2
  <2>4. target \in Targets => target.keys # <<>>
    BY StoresAssumption
  <2> QED  BY <2>1, <2>2, <2>3, <2>4
<1> QED  BY <1>1, <1>2

LEMMA PathTypes ==
  ASSUME NEW path \in Paths
  PROVE  path \in Seq(StrSet) /\ Ancestors(path) \subseteq Paths
<1>1. path \in Seq(StrSet)
  <2>1. [path |-> path, keys |-> <<>>] \in Wholes
    BY DEF Wholes
  <2> QED  BY <2>1, TargetTypes
<1>2. ASSUME NEW n \in 0..Len(path)  PROVE SubSeq(path, 1, n) \in Paths
  <2>1. CASE path = <<>>
    <3>1. SubSeq(path, 1, n) = <<>>
      BY <2>1
    <3> QED  BY <3>1, PathOf
  <2>2. CASE path # <<>>
    <3>1. PICK t \in Targets : path \in Ancestors(t.path)
      BY <2>2, PathOf
    <3>2. t.path \in Seq(StrSet)
      BY NamesAssumption DEF StrSet
    <3>3. PICK m \in 0..Len(t.path) : path = SubSeq(t.path, 1, m)
      BY <3>1 DEF Ancestors
    <3>4. n \in 0..Len(t.path) /\ SubSeq(path, 1, n) = SubSeq(t.path, 1, n)
      <4> DEFINE q == t.path
      <4>1. q \in Seq(StrSet) /\ m \in 0..Len(q) /\ path = SubSeq(q, 1, m)
        BY <3>2, <3>3
      <4> HIDE DEF q
      <4>2. Len(path) = m
        BY <4>1
      <4>3. n \in 0..Len(q) /\ SubSeq(SubSeq(q, 1, m), 1, n) = SubSeq(q, 1, n)
        BY <4>1, <4>2
      <4> QED  BY <4>1, <4>3 DEF q
    <3>5. SubSeq(path, 1, n) \in Ancestors(t.path)
      BY <3>4 DEF Ancestors
    <3> QED  BY <3>5, PathOf
  <2> QED  BY <2>1, <2>2
<1> QED  BY <1>1, <1>2 DEF Ancestors

LEMMA PrefixTypes ==
  ASSUME NEW s \in StoreNames, NEW path \in Paths
  PROVE  L1Prefix[s][path] \in Seq(Chars) /\ L2Prefix[s][path] \in Seq(Chars)
<1>1. StackRoot(s) \in Seq(Chars)
  BY NamesAssumption DEF StackRoot
<1>2. DriverRoot(s) \in Seq(Chars)
  BY <1>1, NamesAssumption DEF DriverRoot
<1>3. ":" \in Chars /\ path \in Seq(Seq(Chars))
  BY NamesAssumption, PathTypes DEF StrSet
<1>4. PrefixOf(StackRoot(s), path) \in Seq(Chars) /\ PrefixOf(DriverRoot(s), path) \in Seq(Chars)
  BY <1>1, <1>2, <1>3, PrefixOfType
<1> QED  BY <1>4 DEF L1Prefix, L2Prefix

LEMMA KeyTypes ==
  ASSUME NEW s \in StoreNames, NEW target \in Targets \cup Wholes
  PROVE  /\ L1Keys[s][target] = {ItemKey(L1Prefix[s][target.path], target.keys[i]) : i \in DOMAIN target.keys}
         /\ L2Keys[s][target] = {ItemKey(L2Prefix[s][target.path], target.keys[i]) : i \in DOMAIN target.keys}
         /\ L1Keys[s][target] \subseteq L1All[s] /\ L2Keys[s][target] \subseteq L2All
         /\ target \in Wholes => L1Keys[s][target] = {} /\ L2Keys[s][target] = {}
         /\ (target \in Targets /\ Len(target.keys) = 1) =>
               /\ L1Keys[s][target] = {L1Key(s, target)} /\ L2Keys[s][target] = {L2Key(s, target)}
               /\ L1Key(s, target) \in L1All[s] /\ L2Key(s, target) \in L2All
<1>1. /\ L1Keys[s][target] = {ItemKey(L1Prefix[s][target.path], target.keys[i]) : i \in DOMAIN target.keys}
      /\ L2Keys[s][target] = {ItemKey(L2Prefix[s][target.path], target.keys[i]) : i \in DOMAIN target.keys}
  BY DEF L1Keys, L2Keys
<1>2. target \in Wholes => L1Keys[s][target] = {} /\ L2Keys[s][target] = {}
  <2> SUFFICES ASSUME target \in Wholes  PROVE L1Keys[s][target] = {} /\ L2Keys[s][target] = {}
    OBVIOUS
  <2>1. DOMAIN target.keys = {}
    BY DEF Wholes
  <2> QED  BY <1>1, <2>1
<1>3. target \in Targets => L1Keys[s][target] \subseteq L1All[s] /\ L2Keys[s][target] \subseteq L2All
  BY DEF L1All, L2All
<1>4. ASSUME target \in Targets, Len(target.keys) = 1
      PROVE  /\ L1Keys[s][target] = {L1Key(s, target)} /\ L2Keys[s][target] = {L2Key(s, target)}
  <2> DEFINE keys == target.keys
  <2>1. keys \in Seq(StrSet)
    BY TargetTypes
  <2> HIDE DEF keys
  <2>2. DOMAIN keys = {1} /\ Head(keys) = keys[1]
    BY <1>4, <2>1 DEF keys
  <2> QED  BY <1>1, <2>2 DEF keys, L1Key, L2Key
<1> QED  BY <1>1, <1>2, <1>3, <1>4

LEMMA L2KeysAreStrings == L2All \subseteq Seq(Chars)
<1> SUFFICES ASSUME NEW s \in StoreNames, NEW target \in Targets, NEW k \in L2Keys[s][target]
             PROVE  k \in Seq(Chars)
  BY DEF L2All
<1>1. PICK i \in DOMAIN target.keys : k = ItemKey(L2Prefix[s][target.path], target.keys[i])
  BY KeyTypes
<1>2. target.path \in Paths /\ target.keys \in Seq(StrSet)
  BY TargetTypes
<1>3. target.keys[i] \in StrSet
  BY <1>2
<1>4. L2Prefix[s][target.path] \in Seq(Chars) /\ ":" \in Chars
  BY <1>2, PrefixTypes, NamesAssumption
<1> QED  BY <1>1, <1>3, <1>4, ItemKeyType DEF StrSet

(* What the clear of a driver matches.                                     *)
LEMMA MatchesKey ==
  ASSUME driver \in Backends, NEW s \in StoreNames, NEW path \in Paths, NEW k \in L2All
  PROVE  Matches(L2Prefix[s][path], k) <=>
           \/ driver = "redis" /\ Glob(L2Prefix[s][path], k)
           \/ driver = "table" /\ Like(L2Prefix[s][path], k)
           \/ driver \in {"dynamo", "orchid"} /\ StartsWith(L2Prefix[s][path], k)
<1> DEFINE prefix == L2Prefix[s][path]
<1>1. prefix \in L2Prefixes
  BY DEF L2Prefixes
<1>2. driver \in {"redis", "dynamo", "table", "orchid"}
  BY StoresAssumption
<1> HIDE DEF prefix
<1>3. ClearedL2[driver][prefix] = {j \in L2All :
        CASE driver = "redis" -> Glob(prefix, j)
          [] driver = "table" -> Like(prefix, j)
          [] driver \in {"dynamo", "orchid"} -> StartsWith(prefix, j)}
  BY <1>1 DEF ClearedL2
<1> QED  BY <1>2, <1>3 DEF Matches, prefix

(* What a clear is to remove, every driver's clear matches.                *)
LEMMA CoveredMatches ==
  ASSUME driver \in Backends, NEW s \in StoreNames, NEW target \in Targets \cup Wholes,
         NEW k \in Covered(s, target, "clear")
  PROVE  k \in L2All /\ Matches(L2Prefix[s][target.path], k)
<1>1. k \in L2All /\ StartsWith(L2Prefix[s][target.path], k)
  BY DEF Covered
<1>2. target.path \in Paths
  BY TargetTypes
<1> DEFINE prefix == L2Prefix[s][target.path]
<1>3. prefix \in Seq(Chars) /\ k \in Seq(Chars) /\ ":" \in Chars /\ StartsWith(prefix, k)
  BY <1>1, <1>2, PrefixTypes, L2KeysAreStrings, NamesAssumption
<1> HIDE DEF prefix
<1>4. Lower \in [Chars -> Chars]
  BY NamesAssumption
<1>5. Like(prefix, k) /\ Glob(prefix, k)
  <2>1. PICK x : x = ":"
    OBVIOUS
  <2> QED  BY <1>3, <1>4, <2>1, StartsLike
<1>6. driver \in {"redis", "dynamo", "table", "orchid"}
  BY StoresAssumption
<1>7. Matches(prefix, k)
  BY <1>1, <1>2, <1>3, <1>5, <1>6, MatchesKey DEF prefix
<1> QED  BY <1>1, <1>7 DEF prefix

----------------------------------------------------------------------------
(* Types.                                                                 *)

(* The contents an L1 of store s may have.                                 *)
Held(items) == {k \in DOMAIN items : items[k] # None}
Tables(s) == {items \in [L1All[s] -> Entries \cup {None}] :
                IsFiniteSet(Held(items)) /\ Cardinality(Held(items)) <= MaxItems}

Carried == {[bytes |-> Encode(m), of |-> m] : m \in Messages}

(* Which calls stand where.                                                *)
OneKey(f) == f.target \in Targets /\ Len(f.target.keys) = 1
PlacedCall(f) ==
  /\ f.pc \in {"read", "fill"} => f.method = "get" /\ OneKey(f)
  /\ f.pc = "fill" => f.item \in Calls
  /\ f.pc = "write" => f.method = "set" /\ OneKey(f)
  /\ f.pc = "remove" => f.method = "delete" /\ f.target \in Targets
  /\ f.pc \in {"scan", "unlink"} => f.method = "clear"
  /\ f.pc = "publish" => f.method \in {"set", "delete"} /\ (f.method = "set" => OneKey(f))

Stages == Frames \cup Overs \cup {Idle}

TypeInv ==
  /\ driver \in Backends
  /\ opened \in [Procs -> [StoreNames -> SUBSET Paths]]
  /\ subscribed \in [Procs -> SUBSET StoreNames]
  /\ l1 \in [Procs -> [StoreNames -> UNION {Tables(s) : s \in StoreNames}]]
  /\ \A p \in Procs, s \in StoreNames : l1[p][s] \in Tables(s)
  /\ wire \in [Procs -> [StoreNames -> Seq(Carried)]]
  /\ l2 \in [L2All -> Calls \cup {None}]
  /\ call \in [Calls -> Stages]
  /\ \A c \in Running : call[c] \in Frames /\ PlacedCall(call[c])
  /\ dead \in SUBSET Calls
  /\ excused \in SUBSET L1Places

LEMMA NoneDiffers == None \notin Calls /\ None \notin Procs /\ None \notin Entries
BY StoresAssumption, EntriesAssumption

(* A change that adds nothing.                                             *)
LEMMA Narrowed ==
  ASSUME NEW s \in StoreNames, NEW items \in Tables(s),
         NEW new \in [L1All[s] -> Entries \cup {None}],
         \A k \in L1All[s] : items[k] = None => new[k] = None
  PROVE  new \in Tables(s)
<1>1. Held(new) \subseteq Held(items)
  BY DEF Held, Tables
<1>2. IsFiniteSet(Held(items)) /\ Cardinality(Held(items)) <= MaxItems
  BY DEF Tables
<1>3. /\ IsFiniteSet(Held(new)) /\ Cardinality(Held(new)) <= Cardinality(Held(items))
      /\ Cardinality(Held(new)) \in Nat /\ Cardinality(Held(items)) \in Nat
  BY <1>1, <1>2, FS_Subset, FS_CardinalityType
<1>4. Cardinality(Held(new)) <= MaxItems
  BY <1>2, <1>3, StoresAssumption
<1> QED  BY <1>3, <1>4 DEF Tables

(* A full L1 drops an item for a new one.                                  *)
LEMMA PutType ==
  ASSUME NEW s \in StoreNames, NEW items \in Tables(s), NEW key \in L1All[s],
         NEW entry \in Entries, NEW new \in Put(items, key, entry)
  PROVE  /\ new \in Tables(s) /\ new[key] = entry
         /\ \A k \in L1All[s] : k # key => new[k] \in {items[k], None}
<1> DEFINE held == Held(items)
<1>0. /\ items \in [L1All[s] -> Entries \cup {None}] /\ entry # None
      /\ IsFiniteSet(held) /\ Cardinality(held) <= MaxItems /\ Cardinality(held) \in Nat
      /\ MaxItems \in Nat \ {0} /\ held = {k \in L1All[s] : items[k] # None}
  BY NoneDiffers, StoresAssumption, FS_CardinalityType DEF Tables, Held
<1>1. \/ (items[key] # None \/ Cardinality(held) < MaxItems) /\ new = [items EXCEPT ![key] = entry]
      \/ /\ items[key] = None /\ ~(Cardinality(held) < MaxItems)
         /\ \E k \in held : new = [items EXCEPT ![key] = entry, ![k] = None]
  BY DEF Put, Held
<1> HIDE DEF held
<1>2. CASE items[key] # None /\ new = [items EXCEPT ![key] = entry]
  <2>1. new \in [L1All[s] -> Entries \cup {None}] /\ Held(new) = held
    BY <1>0, <1>2 DEF Held
  <2> QED  BY <1>0, <1>2, <2>1 DEF Tables
<1>3. CASE items[key] = None /\ Cardinality(held) < MaxItems /\ new = [items EXCEPT ![key] = entry]
  <2>1. new \in [L1All[s] -> Entries \cup {None}] /\ Held(new) = held \cup {key} /\ key \notin held
    BY <1>0, <1>3 DEF Held
  <2>2. IsFiniteSet(held \cup {key}) /\ Cardinality(held \cup {key}) = Cardinality(held) + 1
    BY <1>0, <2>1, FS_AddElement
  <2>3. Cardinality(held) + 1 <= MaxItems
    BY <1>0, <1>3
  <2> QED  BY <1>0, <1>3, <2>1, <2>2, <2>3 DEF Tables
<1>4. CASE /\ items[key] = None
           /\ \E k \in held : new = [items EXCEPT ![key] = entry, ![k] = None]
  <2>1. PICK gone \in held : new = [items EXCEPT ![key] = entry, ![gone] = None]
    BY <1>4
  <2>2. gone # key /\ gone \in L1All[s]
    BY <1>0, <1>4
  <2>3. /\ new \in [L1All[s] -> Entries \cup {None}] /\ new[key] = entry /\ new[gone] = None
        /\ \A k \in L1All[s] \ {key, gone} : new[k] = items[k]
    BY <1>0, <2>1, <2>2
  <2>4. Held(new) = (held \ {gone}) \cup {key}
    BY <1>0, <2>2, <2>3 DEF Held
  <2>5. key \notin held \ {gone}
    BY <1>0, <1>4
  <2>6. IsFiniteSet(held \ {gone}) /\ Cardinality(held \ {gone}) = Cardinality(held) - 1
    BY <1>0, <2>1, FS_RemoveElement
  <2>7. IsFiniteSet(Held(new)) /\ Cardinality(Held(new)) = Cardinality(held) - 1 + 1
    BY <2>4, <2>5, <2>6, FS_AddElement
  <2>8. Cardinality(Held(new)) <= MaxItems
    BY <1>0, <2>7
  <2>9. \A k \in L1All[s] : k # key => new[k] \in {items[k], None}
    BY <2>3
  <2> QED  BY <2>3, <2>7, <2>8, <2>9 DEF Tables
<1> QED  BY <1>1, <1>2, <1>3, <1>4

(* One L1 is written.                                                      *)
LEMMA WriteType ==
  ASSUME TypeInv, NEW p \in Procs, NEW s \in StoreNames, NEW items \in Tables(s),
         WriteL1(p, s, items)
  PROVE  /\ l1' \in [Procs -> [StoreNames -> UNION {Tables(t) : t \in StoreNames}]]
         /\ \A q \in Procs, t \in StoreNames : l1'[q][t] \in Tables(t)
         /\ l1'[p][s] = items
         /\ \A q \in Procs, t \in StoreNames : q # p \/ t # s => l1'[q][t] = l1[q][t]
<1> DEFINE U == UNION {Tables(t) : t \in StoreNames}
<1>1. items \in U
  OBVIOUS
<1>2. l1 \in [Procs -> [StoreNames -> U]] /\ \A q \in Procs, t \in StoreNames : l1[q][t] \in Tables(t)
  BY DEF TypeInv
<1> HIDE DEF U
<1>3. /\ l1' \in [Procs -> [StoreNames -> U]] /\ l1'[p][s] = items
      /\ \A q \in Procs, t \in StoreNames : q # p \/ t # s => l1'[q][t] = l1[q][t]
  BY <1>1, <1>2 DEF WriteL1
<1> QED  BY <1>2, <1>3 DEF U

LEMMA PlacesType ==
  ASSUME NEW p \in Procs, NEW s \in StoreNames, NEW k \in L1All[s]
  PROVE  <<p, s, k>> \in L1Places
BY DEF L1Places

LEMMA ChangedType ==
  ASSUME NEW p \in Procs, NEW stores \in SUBSET StoreNames
  PROVE  Changed(p, stores) \subseteq L1Places
BY PlacesType DEF Changed

LEMMA MissedType ==
  ASSUME NEW p \in Procs, NEW stores \in SUBSET StoreNames, NEW type, NEW target
  PROVE  Missed(p, stores, type, target) \in SUBSET L1Places
BY PlacesType DEF Missed

----------------------------------------------------------------------------
(* Calls, messages and frames.                                            *)

(* Where a call may stand.                                                 *)
Fine(f) == f \in Stages /\ (f.pc \notin {"idle", "done"} => f \in Frames /\ PlacedCall(f))

LEMMA CallTypes ==
  ASSUME TypeInv
  PROVE  \A c \in Calls : Fine(call[c])
BY DEF TypeInv, Running, Fine

LEMMA CallType ==
  ASSUME TypeInv, NEW c \in Calls, NEW f, Fine(f), call' = [call EXCEPT ![c] = f]
  PROVE  /\ call' \in [Calls -> Stages] /\ \A d \in Running' : call'[d] \in Frames /\ PlacedCall(call'[d])
         /\ call'[c] = f /\ \A d \in Calls \ {c} : call'[d] = call[d]
<1>1. call \in [Calls -> Stages] /\ \A d \in Calls : Fine(call[d])
  BY CallTypes DEF TypeInv
<1>2. f \in Stages
  BY DEF Fine
<1>3. call' \in [Calls -> Stages] /\ call'[c] = f /\ \A d \in Calls \ {c} : call'[d] = call[d]
  BY <1>1, <1>2
<1>4. \A d \in Calls : Fine(call'[d])
  BY <1>1, <1>3
<1> QED  BY <1>3, <1>4 DEF Fine, Running

LEMMA DoneFine == \A keys \in SUBSET L2All : Fine([pc |-> "done", keys |-> keys])
BY DEF Fine, Stages, Overs

(* The id of a process fills its bytes.                                    *)
LEMMA IdBytes ==
  ASSUME NEW p \in Procs
  PROVE  <<p>> \in Seq(Chars) /\ Len(ToBytes(<<p>>)) = BusIdLength
<1> DEFINE str == <<p>>  s == Spelled(str)
<1>1. p \in Chars /\ Len(Utf8[p]) = BusIdLength
  BY NamesAssumption
<1>2. str \in Seq(Chars) /\ Len(str) = 1 /\ str[1] = p
  BY <1>1
<1>3. s \in Seq(Seq(Bytes)) /\ Len(s) = 1 /\ s[1] = Utf8[p]
  <2> HIDE DEF str
  <2> QED  BY <1>2, SpelledType
<1> DEFINE n == Len(s)
<1>4. PICK g : Joins(Bytes, n, s, g) /\ FlattenSeq(s) = g[n]
  <2> HIDE DEF s
  <2> QED  BY <1>3, FlattenJoins
<1> DEFINE i == 1  j == 0
<1>5. n = i /\ i \in 1..n /\ j = i - 1
  BY <1>3
<1> HIDE DEF n, i, j, s
<1>6. g[i] = g[j] \o s[i]
  <2>1. Extends(g, s, i)
    BY <1>4, <1>5 DEF Joins
  <2> QED  BY <1>5, <2>1 DEF Extends
<1>7. g[j] = <<>> /\ s[i] \in Seq(Bytes)
  BY <1>4, <1>5 DEF Joins, j
<1>8. g[i] = s[i]
  BY <1>6, <1>7
<1>9. ToBytes(str) = FlattenSeq(s)
  BY DEF ToBytes, Spelled, s
<1> QED  BY <1>1, <1>2, <1>3, <1>4, <1>5, <1>8, <1>9 DEF i

LEMMA MessageType ==
  ASSUME NEW p \in Procs, NEW s \in StoreNames, NEW target \in Targets \cup Wholes,
         NEW type \in MessageTypes
  PROVE  [busId |-> <<p>>, type |-> type, keys |-> target.keys,
          namespace |-> L1Prefix[s][target.path]] \in Messages
<1>1. <<p>> \in {id \in Seq(Chars) : Len(ToBytes(id)) = BusIdLength}
  BY IdBytes
<1>2. target.keys \in Seq(Seq(Chars)) /\ target.path \in Paths
  BY TargetTypes DEF StrSet
<1>3. L1Prefix[s][target.path] \in Seq(Chars)
  BY <1>2, PrefixTypes
<1> QED  BY <1>1, <1>2, <1>3 DEF Messages

LEMMA PublishType ==
  ASSUME TypeInv, NEW p \in Procs, NEW stores \in SUBSET StoreNames,
         NEW type \in MessageTypes, NEW target \in Targets \cup Wholes,
         Publish(p, stores, type, target)
  PROVE  wire' \in [Procs -> [StoreNames -> Seq(Carried)]]
<1> DEFINE Msg(s) == [busId |-> <<p>>, type |-> type, keys |-> target.keys,
                      namespace |-> L1Prefix[s][target.path]]
           Sent(s) == [bytes |-> Encode(Msg(s)), of |-> Msg(s)]
           Q == Seq(Carried)
<1>1. \A s \in StoreNames : Sent(s) \in Carried
  <2>1. \A s \in StoreNames : Msg(s) \in Messages
    BY MessageType
  <2> HIDE DEF Msg
  <2> QED  BY <2>1 DEF Carried
<1>2. wire' = [q \in Procs |-> [s \in StoreNames |->
        IF s \notin stores \/ q = p \/ s \notin subscribed[q] THEN wire[q][s]
        ELSE Append(wire[q][s], Sent(s))]]
  BY DEF Publish
<1>3. \A q \in Procs, s \in StoreNames : wire[q][s] \in Q
  BY DEF TypeInv
<1> HIDE DEF Sent
<1>4. \A q \in Procs, s \in StoreNames : Append(wire[q][s], Sent(s)) \in Q
  BY <1>1, <1>3
<1> HIDE DEF Q
<1>5. wire' \in [Procs -> [StoreNames -> Q]]
  BY <1>2, <1>3, <1>4
<1> QED  BY <1>5 DEF Q

LEMMA ItemsType ==
  ASSUME TypeInv, NEW prefix
  PROVE  /\ Items(prefix) \subseteq L2All \X Calls
         /\ \A k, v : <<k, v>> \in Items(prefix) <=>
              k \in L2All /\ v = l2[k] /\ l2[k] # None /\ Matches(prefix, k)
<1>1. \A k \in L2All : l2[k] \in Calls \cup {None}
  BY DEF TypeInv
<1> QED  BY <1>1 DEF Items

(* What a call that begins has before it.                                  *)
Begun(f, p, s, target, method, stage) ==
  /\ f \in Frames
  /\ f.pc = stage /\ f.proc = p /\ f.store = s /\ f.target = target
  /\ f.method = method /\ f.item = None
  /\ f.left = (IF method = "delete" THEN L2Keys[s][target] ELSE {})
  /\ f.seen = (IF method = "clear" /\ driver \in {"redis", "dynamo"}
                 THEN Items(L2Prefix[s][target.path]) ELSE {})
  /\ f.olds = (IF method = "get" THEN {}
               ELSE {d \in Calls : /\ call[d].pc = "done"
                                   /\ call[d].keys \cap Covered(s, target, method) # {}})

LEMMA FrameType ==
  ASSUME TypeInv, NEW p \in Procs, NEW s \in StoreNames, NEW target \in Targets \cup Wholes,
         NEW method \in MessageTypes \cup {"get"},
         NEW stage \in {"read", "write", "remove", "scan", "done"}
  PROVE  /\ Frame(p, s, target, method, stage) \in Stages
         /\ stage = "done" => Frame(p, s, target, method, stage) = [pc |-> "done", keys |-> {}]
         /\ stage # "done" =>
              Begun(Frame(p, s, target, method, stage), p, s, target, method, stage)
<1>1. Items(L2Prefix[s][target.path]) \subseteq L2All \X Calls
  BY ItemsType
<1>2. L2Keys[s][target] \subseteq L2All
  BY KeyTypes
<1>3. CASE stage = "done"
  BY <1>3 DEF Frame, Stages, Overs
<1>4. CASE stage # "done"
  BY <1>1, <1>2, <1>4 DEF Frame, Stages, Frames, Begun
<1> QED  BY <1>3, <1>4

----------------------------------------------------------------------------
(* What actions share.                                                    *)

(* The calls after a step are where calls may stand.                       *)
CallsFine == call \in [Calls -> Stages] /\ \A d \in Running : call[d] \in Frames /\ PlacedCall(call[d])

LEMMA OpenType ==
  ASSUME TypeInv, NEW p \in Procs, NEW stores \in SUBSET StoreNames, NEW path \in Paths,
         Open(p, stores, path)
  PROVE  /\ opened' \in [Procs -> [StoreNames -> SUBSET Paths]]
         /\ subscribed' = subscribed /\ subscribed \in [Procs -> SUBSET StoreNames]
         /\ driver' = driver /\ driver \in Backends
<1>1. Ancestors(path) \subseteq Paths
  BY PathTypes
<1>2. opened \in [Procs -> [StoreNames -> SUBSET Paths]]
  BY DEF TypeInv
<1>3. opened' = [opened EXCEPT ![p] =
        [s \in StoreNames |-> IF s \in stores THEN opened[p][s] \cup Ancestors(path) ELSE opened[p][s]]]
  BY DEF Open
<1>4. [s \in StoreNames |-> IF s \in stores THEN opened[p][s] \cup Ancestors(path) ELSE opened[p][s]]
        \in [StoreNames -> SUBSET Paths]
  BY <1>1, <1>2
<1>5. opened' \in [Procs -> [StoreNames -> SUBSET Paths]]
  BY <1>2, <1>3, <1>4
<1> QED  BY <1>5 DEF Open, TypeInv

LEMMA ExcuseType ==
  ASSUME TypeInv, NEW added \in SUBSET L1Places, NEW removed, Excuse(added, removed)
  PROVE  excused' \in SUBSET L1Places
BY DEF TypeInv, Excuse

LEMMA EndsType ==
  ASSUME TypeInv, NEW c \in Running, Ends(c)
  PROVE  /\ CallsFine' /\ dead' \in SUBSET Calls
         /\ call'[c] = [pc |-> "done", keys |-> IF call[c].method = "set"
                          THEN L2Keys[call[c].store][call[c].target] ELSE {}]
         /\ call[c].method = "get" => dead' = dead
         /\ call[c].method # "get" => dead' = dead \cup call[c].olds
         /\ \A d \in Calls \ {c} : call'[d] = call[d]
<1> DEFINE keys == IF call[c].method = "set" THEN L2Keys[call[c].store][call[c].target] ELSE {}
           f == [pc |-> "done", keys |-> keys]
<1>1. c \in Calls /\ call[c] \in Frames
  BY DEF TypeInv, Running
<1>2. call[c].store \in StoreNames /\ call[c].target \in Targets \cup Wholes /\ call[c].olds \in SUBSET Calls
  BY <1>1 DEF Frames
<1>3. L2Keys[call[c].store][call[c].target] \subseteq L2All
  BY <1>2, KeyTypes
<1>4. Fine(f)
  BY <1>3, DoneFine
<1>5. call' = [call EXCEPT ![c] = f]
  BY DEF Ends
<1> HIDE DEF f
<1>6. CallsFine' /\ call'[c] = f /\ \A d \in Calls \ {c} : call'[d] = call[d]
  BY <1>1, <1>4, <1>5, CallType DEF CallsFine
<1>7. dead' = IF call[c].method = "get" THEN dead ELSE dead \cup call[c].olds
  BY DEF Ends
<1>8. dead \in SUBSET Calls
  BY DEF TypeInv
<1> QED  BY <1>2, <1>6, <1>7, <1>8 DEF f

LEMMA TypeInit == Init => TypeInv
<1> SUFFICES ASSUME Init  PROVE TypeInv
  OBVIOUS
<1>1. ASSUME NEW s \in StoreNames  PROVE [k \in L1All[s] |-> None] \in Tables(s)
  <2> DEFINE items == [k \in L1All[s] |-> None]
  <2>1. Held(items) = {}
    BY DEF Held
  <2>2. IsFiniteSet(Held(items)) /\ Cardinality(Held(items)) = 0
    BY <2>1, FS_EmptySet
  <2>3. 0 <= MaxItems
    BY StoresAssumption
  <2> QED  BY <2>2, <2>3 DEF Tables
<1>2. \A p \in Procs, s \in StoreNames : l1[p][s] \in Tables(s)
  BY <1>1 DEF Init
<1>3. l1 \in [Procs -> [StoreNames -> UNION {Tables(s) : s \in StoreNames}]]
  <2> DEFINE U == UNION {Tables(s) : s \in StoreNames}
  <2>1. \A s \in StoreNames : [k \in L1All[s] |-> None] \in U
    BY <1>1
  <2> HIDE DEF U
  <2>2. l1 \in [Procs -> [StoreNames -> U]]
    BY <2>1 DEF Init
  <2> QED  BY <2>2 DEF U
<1>4. wire \in [Procs -> [StoreNames -> Seq(Carried)]]
  <2> DEFINE Q == Seq(Carried)
  <2>1. <<>> \in Q
    OBVIOUS
  <2> HIDE DEF Q
  <2>2. wire \in [Procs -> [StoreNames -> Q]]
    BY <2>1 DEF Init
  <2> QED  BY <2>2 DEF Q
<1>5. call \in [Calls -> Stages] /\ Running = {}
  BY DEF Init, Stages, Idle, Running
<1>6. opened \in [Procs -> [StoreNames -> SUBSET Paths]]
  BY DEF Init
<1>6a. subscribed \in [Procs -> SUBSET StoreNames]
  BY DEF Init
<1>7. driver \in Backends /\ l2 \in [L2All -> Calls \cup {None}] /\ dead = {} /\ excused = {}
  BY DEF Init
<1> QED  BY <1>2, <1>3, <1>4, <1>5, <1>6, <1>6a, <1>7 DEF TypeInv

L1Fine ==
  /\ l1 \in [Procs -> [StoreNames -> UNION {Tables(s) : s \in StoreNames}]]
  /\ \A p \in Procs, s \in StoreNames : l1[p][s] \in Tables(s)

(* What a call that begins does to the calls and to the stacks.            *)
LEMMA BeginType ==
  ASSUME TypeInv, NEW c \in Calls, NEW p \in Procs, NEW s \in StoreNames,
         NEW target \in Targets, NEW method \in MessageTypes \cup {"get"},
         NEW stage \in {"read", "write", "remove", "done"},
         stage = "read" => method = "get" /\ Len(target.keys) = 1,
         stage = "write" => method = "set" /\ Len(target.keys) = 1,
         stage = "remove" => method = "delete",
         Begin(c, p, s, target, method, stage)
  PROVE  /\ CallsFine' /\ driver' \in Backends /\ driver' = driver
         /\ opened' \in [Procs -> [StoreNames -> SUBSET Paths]]
         /\ subscribed' = subscribed /\ subscribed' \in [Procs -> SUBSET StoreNames]
         /\ call[c].pc = "idle" /\ call'[c] = Frame(p, s, target, method, stage)
         /\ \A d \in Calls \ {c} : call'[d] = call[d]
<1> DEFINE f == Frame(p, s, target, method, stage)
<1>1. target.path \in Paths /\ target \in Targets \cup Wholes
  BY TargetTypes
<1>2. Open(p, {s}, target.path) /\ call[c].pc = "idle" /\ call' = [call EXCEPT ![c] = f]
  BY DEF Begin
<1>3. /\ opened' \in [Procs -> [StoreNames -> SUBSET Paths]]
      /\ subscribed' = subscribed /\ subscribed \in [Procs -> SUBSET StoreNames]
      /\ driver' = driver /\ driver \in Backends
  <2>1. {s} \in SUBSET StoreNames
    OBVIOUS
  <2> QED  BY <1>1, <1>2, <2>1, OpenType
<1>4. Fine(f)
  <2>1. stage \in {"read", "write", "remove", "scan", "done"}
    OBVIOUS
  <2>2. /\ f \in Stages /\ (stage = "done" => f = [pc |-> "done", keys |-> {}])
        /\ stage # "done" => Begun(f, p, s, target, method, stage)
    BY <1>1, <2>1, FrameType
  <2> HIDE DEF f
  <2>3. /\ f \in Stages /\ (stage = "done" => f.pc = "done")
        /\ stage # "done" => f \in Frames /\ f.pc = stage /\ f.method = method /\ f.target = target
    BY <2>2 DEF Begun
  <2>4. CASE stage = "done"
    BY <2>3, <2>4 DEF Fine
  <2>5. CASE stage # "done"
    <3>1. PlacedCall(f)
      BY <2>3, <2>5 DEF PlacedCall, OneKey
    <3> QED  BY <2>3, <2>5, <3>1 DEF Fine
  <2> QED  BY <2>4, <2>5
<1> HIDE DEF f
<1>5. CallsFine' /\ call'[c] = f /\ \A d \in Calls \ {c} : call'[d] = call[d]
  BY <1>2, <1>4, CallType DEF CallsFine
<1> QED  BY <1>2, <1>3, <1>5 DEF f, TypeInv

----------------------------------------------------------------------------
(* The types after each action: the calls up to their first await.        *)

Rest == /\ driver \in Backends /\ opened \in [Procs -> [StoreNames -> SUBSET Paths]]
        /\ subscribed \in [Procs -> SUBSET StoreNames]
WireFine == wire \in [Procs -> [StoreNames -> Seq(Carried)]]
L2Fine == l2 \in [L2All -> Calls \cup {None}]
HistoryFine == dead \in SUBSET Calls /\ excused \in SUBSET L1Places

LEMMA Assembled ==
  TypeInv <=> Rest /\ L1Fine /\ WireFine /\ L2Fine /\ CallsFine /\ HistoryFine
BY DEF TypeInv, Rest, L1Fine, WireFine, L2Fine, CallsFine, HistoryFine

LEMMA NextAssembled ==
  Rest' /\ L1Fine' /\ WireFine' /\ L2Fine' /\ CallsFine' /\ HistoryFine' => TypeInv'
BY DEF TypeInv, Rest, L1Fine, WireFine, L2Fine, CallsFine, HistoryFine

LEMMA Changes ==
  ASSUME TypeInv
  PROVE  /\ UNCHANGED siteVars => Rest'
         /\ UNCHANGED l1 => L1Fine'
         /\ UNCHANGED wire => WireFine'
         /\ UNCHANGED l2 => L2Fine'
         /\ UNCHANGED call => CallsFine'
         /\ UNCHANGED dead => dead' \in SUBSET Calls
         /\ UNCHANGED excused => excused' \in SUBSET L1Places
<1>1. Rest /\ L1Fine /\ WireFine /\ L2Fine /\ CallsFine /\ HistoryFine
  BY Assembled
<1>2. UNCHANGED siteVars => Rest'
  BY <1>1 DEF siteVars, Rest
<1>3. UNCHANGED l1 => L1Fine'
  BY <1>1 DEF L1Fine
<1>4. UNCHANGED wire => WireFine'
  BY <1>1 DEF WireFine
<1>5. UNCHANGED l2 => L2Fine'
  BY <1>1 DEF L2Fine
<1>6. UNCHANGED call => CallsFine'
  BY <1>1 DEF CallsFine, Running
<1> QED  BY <1>1, <1>2, <1>3, <1>4, <1>5, <1>6 DEF HistoryFine

LEMMA NothingExcused ==
  ASSUME TypeInv, NEW removed, Excuse({}, removed)
  PROVE  excused' \in SUBSET L1Places
BY ExcuseType

LEMMA WriteFine ==
  ASSUME TypeInv, NEW p \in Procs, NEW s \in StoreNames, NEW items \in Tables(s),
         WriteL1(p, s, items)
  PROVE  L1Fine'
BY WriteType DEF L1Fine

(* A key of an L1.                                                         *)
LEMMA OneL1Key ==
  ASSUME NEW s \in StoreNames, NEW target \in Targets, Len(target.keys) = 1
  PROVE  L1Key(s, target) \in L1All[s] /\ L2Key(s, target) \in L2All
         /\ L2Keys[s][target] = {L2Key(s, target)} /\ L1Keys[s][target] = {L1Key(s, target)}
BY KeyTypes

LEMMA GetType ==
  ASSUME TypeInv, NEW c \in Calls, NEW p \in Procs, NEW s \in StoreNames,
         NEW target \in Targets, Get(c, p, s, target)
  PROVE  TypeInv'
<1> DEFINE e == l1[p][s][L1Key(s, target)]
           stage == IF e # None /\ e.valid THEN "done" ELSE "read"
<1>1. Len(target.keys) = 1 /\ Begin(c, p, s, target, "get", stage) /\ UNCHANGED <<l1, l2, wire, dead, excused>>
  BY DEF Get
<1>2. stage \in {"read", "write", "remove", "done"} /\ stage \in {"read", "done"}
  OBVIOUS
<1> HIDE DEF stage
<1>3. CallsFine' /\ Rest'
  BY <1>1, <1>2, BeginType DEF Rest
<1>4. L1Fine' /\ WireFine' /\ L2Fine' /\ HistoryFine'
  BY <1>1, Changes DEF HistoryFine
<1> QED  BY <1>3, <1>4, NextAssembled

LEMMA SetType ==
  ASSUME TypeInv, NEW c \in Calls, NEW p \in Procs, NEW s \in StoreNames,
         NEW target \in Targets, Set(c, p, s, target)
  PROVE  TypeInv'
<1> DEFINE key == L1Key(s, target)  entry == [val |-> c, valid |-> TRUE]
<1>1. /\ Len(target.keys) = 1 /\ Begin(c, p, s, target, "set", "write")
      /\ \E items \in Put(l1[p][s], key, entry) : WriteL1(p, s, items)
      /\ Excuse({}, Changed(p, {s})) /\ UNCHANGED <<l2, wire, dead>>
  BY DEF Set
<1>2. key \in L1All[s]
  BY <1>1, OneL1Key
<1>3. entry \in Entries /\ l1[p][s] \in Tables(s)
  BY DEF Entries, TypeInv
<1>4. CallsFine' /\ Rest'
  BY <1>1, BeginType DEF MessageTypes, Rest
<1> HIDE DEF key, entry
<1>5. PICK items \in Put(l1[p][s], key, entry) : WriteL1(p, s, items)
  BY <1>1
<1>6. items \in Tables(s)
  BY <1>2, <1>3, PutType
<1>7. L1Fine'
  BY <1>5, <1>6, WriteFine
<1>8. WireFine' /\ L2Fine' /\ HistoryFine'
  BY <1>1, Changes, NothingExcused DEF HistoryFine
<1> QED  BY <1>4, <1>7, <1>8, NextAssembled

LEMMA RemovedType ==
  ASSUME NEW s \in StoreNames, NEW items \in Tables(s), NEW keys
  PROVE  Removed(items, keys) \in Tables(s)
<1>1. items \in [L1All[s] -> Entries \cup {None}]
  BY DEF Tables
<1>2. Removed(items, keys) = [k \in L1All[s] |-> IF k \in keys THEN None ELSE items[k]]
  BY <1>1 DEF Removed
<1> QED  BY <1>1, <1>2, Narrowed

LEMMA ClearedType ==
  ASSUME NEW s \in StoreNames, NEW items \in Tables(s), NEW prefix
  PROVE  ClearedL1(items, prefix) \in Tables(s)
<1>1. items \in [L1All[s] -> Entries \cup {None}]
  BY DEF Tables
<1>2. ClearedL1(items, prefix) = [k \in L1All[s] |-> IF StartsWith(prefix, k) THEN None ELSE items[k]]
  BY <1>1 DEF ClearedL1
<1> QED  BY <1>1, <1>2, Narrowed

LEMMA DeleteType ==
  ASSUME TypeInv, NEW c \in Calls, NEW p \in Procs, NEW s \in StoreNames,
         NEW target \in Targets, Delete(c, p, s, target)
  PROVE  TypeInv'
<1>1. /\ Begin(c, p, s, target, "delete", "remove")
      /\ WriteL1(p, s, Removed(l1[p][s], L1Keys[s][target]))
      /\ Excuse({}, Changed(p, {s})) /\ UNCHANGED <<l2, wire, dead>>
  BY DEF Delete
<1>2. l1[p][s] \in Tables(s)
  BY DEF TypeInv
<1>3. CallsFine' /\ Rest'
  BY <1>1, BeginType DEF MessageTypes, Rest
<1> DEFINE items == Removed(l1[p][s], L1Keys[s][target])
<1>4. items \in Tables(s)
  BY <1>2, RemovedType
<1> HIDE DEF items
<1>5. L1Fine'
  BY <1>1, <1>4, WriteFine DEF items
<1>6. WireFine' /\ L2Fine' /\ HistoryFine'
  BY <1>1, Changes, NothingExcused DEF HistoryFine
<1> QED  BY <1>3, <1>5, <1>6, NextAssembled

(* A clear of several stores at once.                                      *)
LEMMA ClearCalls ==
  ASSUME TypeInv, NEW p \in Procs, NEW target \in Wholes, NEW calls,
         DOMAIN calls \subseteq StoreNames, Clear(p, target, calls)
  PROVE  /\ CallsFine'
         /\ \A c \in Calls :
              \/ /\ call[c].pc = "idle"
                 /\ \E s \in DOMAIN calls : /\ calls[s] = c
                                            /\ Begun(call'[c], p, s, target, "clear", "scan")
              \/ call'[c] = call[c]
<1> DEFINE stores == DOMAIN calls  pick(c) == CHOOSE s \in stores : calls[s] = c
<1>1. /\ \A s \in stores : call[calls[s]].pc = "idle"
      /\ call' = [c \in Calls |-> IF \E s \in stores : calls[s] = c
                                    THEN Frame(p, pick(c), target, "clear", "scan") ELSE call[c]]
  BY DEF Clear
<1>2. ASSUME NEW s \in StoreNames
      PROVE  /\ Frame(p, s, target, "clear", "scan") \in Stages
             /\ Begun(Frame(p, s, target, "clear", "scan"), p, s, target, "clear", "scan")
  BY FrameType DEF MessageTypes
<1>3. ASSUME NEW c \in Calls
      PROVE  \/ /\ call[c].pc = "idle" /\ Fine(call'[c])
                /\ \E s \in stores : /\ calls[s] = c
                                     /\ Begun(call'[c], p, s, target, "clear", "scan")
             \/ call'[c] = call[c]
  <2>1. CASE \E s \in stores : calls[s] = c
    <3> DEFINE s == pick(c)
    <3>1. s \in stores /\ calls[s] = c
      BY <2>1
    <3>2. call'[c] = Frame(p, s, target, "clear", "scan")
      BY <1>1, <2>1
    <3> HIDE DEF s
    <3>3. call'[c] \in Stages /\ Begun(call'[c], p, s, target, "clear", "scan")
      BY <1>2, <3>1, <3>2
    <3> DEFINE f == call'[c]
    <3>4. f \in Stages /\ f \in Frames /\ f.pc = "scan" /\ f.method = "clear"
      BY <3>3 DEF Begun
    <3> HIDE DEF f
    <3>5. Fine(f)
      BY <3>4 DEF Fine, PlacedCall
    <3> QED  BY <1>1, <3>1, <3>3, <3>5 DEF f
  <2>2. CASE ~\E s \in stores : calls[s] = c
    BY <1>1, <2>2
  <2> QED  BY <2>1, <2>2
<1>4. \A c \in Calls : Fine(call'[c])
  BY <1>3, CallTypes
<1>5. call' \in [Calls -> Stages]
  <2>1. \A c \in Calls : call'[c] \in Stages
    BY <1>4 DEF Fine
  <2>2. call' = [c \in Calls |-> call'[c]]
    BY <1>1
  <2> QED  BY <2>1, <2>2
<1>6. CallsFine'
  BY <1>4, <1>5 DEF CallsFine, Fine, Running
<1> QED  BY <1>3, <1>6

LEMMA ClearType ==
  ASSUME TypeInv, NEW p \in Procs, NEW target \in Wholes, NEW calls,
         DOMAIN calls \subseteq StoreNames, Clear(p, target, calls)
  PROVE  TypeInv'
<1> DEFINE stores == DOMAIN calls  prefix(s) == L1Prefix[s][target.path]
           row == [s \in StoreNames |-> IF s \in stores THEN ClearedL1(l1[p][s], prefix(s)) ELSE l1[p][s]]
           U == UNION {Tables(s) : s \in StoreNames}
<1>1. /\ Open(p, stores, target.path) /\ UNCHANGED <<l2, dead>>
      /\ l1' = [l1 EXCEPT ![p] = row]
      /\ Publish(p, stores, "clear", target) /\ Excuse(Missed(p, stores, "clear", target), Changed(p, stores))
  BY DEF Clear
<1>2. target.path \in Paths /\ target \in Targets \cup Wholes /\ "clear" \in MessageTypes
  BY TargetTypes DEF MessageTypes
<1>3. Rest'
  BY <1>1, <1>2, OpenType DEF Rest
<1>4. CallsFine'
  BY ClearCalls
<1>5. L1Fine'
  <2>1. l1 \in [Procs -> [StoreNames -> U]] /\ \A q \in Procs, s \in StoreNames : l1[q][s] \in Tables(s)
    BY DEF TypeInv
  <2>2. \A s \in StoreNames : row[s] \in Tables(s)
    BY <2>1, ClearedType
  <2>3. row = [s \in StoreNames |-> row[s]] /\ \A s \in StoreNames : row[s] \in U
    BY <2>2
  <2> HIDE DEF row, U
  <2>4. row \in [StoreNames -> U]
    BY <2>3
  <2>5. l1' \in [Procs -> [StoreNames -> U]] /\ l1'[p] = row /\ \A q \in Procs \ {p} : l1'[q] = l1[q]
    BY <1>1, <2>1, <2>4
  <2>6. \A q \in Procs, s \in StoreNames : l1'[q][s] \in Tables(s)
    BY <2>1, <2>2, <2>5
  <2> QED  BY <2>5, <2>6 DEF L1Fine, U
<1>6. WireFine'
  BY <1>1, <1>2, PublishType DEF WireFine
<1>7. excused' \in SUBSET L1Places
  BY <1>1, MissedType, ExcuseType
<1>8. L2Fine' /\ HistoryFine'
  BY <1>1, <1>7, Changes DEF HistoryFine
<1> QED  BY <1>3, <1>4, <1>5, <1>6, <1>8, NextAssembled

LEMMA ClearsType ==
  ASSUME TypeInv, NEW p \in Procs
  PROVE  /\ \A s \in StoreNames, target \in Wholes : ClearOne(p, s, target) => TypeInv'
         /\ ClearAll(p) => TypeInv'
<1>1. ASSUME NEW s \in StoreNames, NEW target \in Wholes, ClearOne(p, s, target)  PROVE TypeInv'
  <2>1. PICK c \in Calls : Clear(p, target, [t \in {s} |-> c])
    BY <1>1 DEF ClearOne, Ready
  <2> DEFINE calls == [t \in {s} |-> c]
  <2>2. DOMAIN calls \subseteq StoreNames
    OBVIOUS
  <2> HIDE DEF calls
  <2> QED  BY <2>1, <2>2, ClearType DEF calls
<1>2. ASSUME ClearAll(p)  PROVE TypeInv'
  <2> DEFINE whole == [path |-> <<>>, keys |-> <<>>]
  <2>1. PICK calls \in [StoreNames -> Calls] : Clear(p, whole, calls)
    BY <1>2 DEF ClearAll, Ready
  <2>2. whole \in Wholes
    BY PathOf DEF Wholes
  <2> HIDE DEF whole
  <2> QED  BY <2>1, <2>2, ClearType
<1> QED  BY <1>1, <1>2

(* The bus.                                                                *)
(* A bus reads what was published.                                         *)
LEMMA HeadDecoded ==
  ASSUME TypeInv, NEW p \in Procs, NEW s \in StoreNames, wire[p][s] # <<>>
  PROVE  /\ Head(wire[p][s]).of \in Messages
         /\ Decode(Head(wire[p][s]).bytes) = Head(wire[p][s]).of
<1>1. wire[p][s] \in Seq(Carried)
  BY DEF TypeInv
<1> DEFINE w == wire[p][s]  h == Head(w)
<1>2. h \in Carried
  <2> HIDE DEF w
  <2> QED  BY <1>1 DEF w
<1> HIDE DEF h
<1>3. PICK m \in Messages : h = [bytes |-> Encode(m), of |-> m]
  BY <1>2 DEF Carried
<1>4. h.bytes = Encode(m) /\ h.of = m
  BY <1>3
<1>5. Decode(Encode(m)) = m
  BY MessageRoundTrip
<1> QED  BY <1>4, <1>5 DEF h

LEMMA OnMessageType ==
  ASSUME TypeInv, NEW p \in Procs, NEW s \in StoreNames, OnMessage(p, s)
  PROVE  TypeInv'
<1> DEFINE message == Decode(Head(wire[p][s]).bytes)  about == About(message, s)
           received(e) == IF e = None \/ message.type \in {"delete", "clear"} THEN None
                          ELSE [e EXCEPT !.valid = FALSE]
           items == [k \in L1All[s] |-> IF k \in about THEN received(l1[p][s][k]) ELSE l1[p][s][k]]
           spared == {<<p, s, k>> : k \in {k \in L1All[s] \cap about : l1[p][s][k] # None}}
<1>1. /\ wire[p][s] # <<>> /\ wire' = [wire EXCEPT ![p][s] = Tail(@)]
      /\ \/ WriteL1(p, s, items) /\ Excuse({}, Changed(p, {s}))
         \/ UNCHANGED l1 /\ Excuse(spared, {})
      /\ UNCHANGED <<siteVars, l2, call, dead>>
  BY DEF OnMessage
<1>2. items \in Tables(s)
  <2>1. l1[p][s] \in Tables(s)
    BY DEF TypeInv
  <2>2. l1[p][s] \in [L1All[s] -> Entries \cup {None}]
    BY <2>1 DEF Tables
  <2>3. ASSUME NEW e \in Entries \cup {None}  PROVE received(e) \in Entries \cup {None}
    <3> HIDE DEF message
    <3> QED  BY DEF Entries
  <2>4. received(None) = None
    OBVIOUS
  <2> HIDE DEF received, about
  <2>5. items \in [L1All[s] -> Entries \cup {None}]
    BY <2>2, <2>3
  <2>6. \A k \in L1All[s] : l1[p][s][k] = None => items[k] = None
    BY <2>4
  <2> HIDE DEF items
  <2> QED  BY <2>1, <2>5, <2>6, Narrowed
<1>3. spared \in SUBSET L1Places
  <2> HIDE DEF about
  <2> QED  BY PlacesType
<1> HIDE DEF items, spared
<1>4. L1Fine'
  BY <1>1, <1>2, WriteFine, Changes
<1>5. excused' \in SUBSET L1Places
  BY <1>1, <1>3, ExcuseType, NothingExcused
<1>6. WireFine'
  <2> DEFINE Q == Seq(Carried)
  <2>1. wire \in [Procs -> [StoreNames -> Q]]
    BY DEF TypeInv
  <2>2. Tail(wire[p][s]) \in Q
    <3>1. wire[p][s] \in Seq(Carried)
      BY <2>1
    <3> QED  BY <1>1, <3>1
  <2> HIDE DEF Q
  <2>3. wire' \in [Procs -> [StoreNames -> Q]]
    BY <1>1, <2>1, <2>2
  <2> QED  BY <2>3 DEF Q, WireFine
<1>7. Rest' /\ L2Fine' /\ CallsFine' /\ dead' \in SUBSET Calls
  BY <1>1, Changes
<1> QED  BY <1>4, <1>5, <1>6, <1>7, NextAssembled DEF HistoryFine

----------------------------------------------------------------------------
(* The types after each answer of L2.                                     *)

(* What is known of a call under way.                                      *)
LEMMA RunningCall ==
  ASSUME TypeInv, NEW c \in Running
  PROVE  /\ c \in Calls /\ call[c] \in Frames /\ PlacedCall(call[c])
         /\ call[c].proc \in Procs /\ call[c].store \in StoreNames
         /\ call[c].target \in Targets \cup Wholes /\ call[c].left \in SUBSET L2All
         /\ call[c].seen \in SUBSET (L2All \X Calls) /\ call[c].olds \in SUBSET Calls
         /\ call[c].method \in MessageTypes \cup {"get"}
<1>1. c \in Calls /\ call[c] \in Frames /\ PlacedCall(call[c])
  BY DEF TypeInv, Running
<1> QED  BY <1>1 DEF Frames

LEMMA Under ==
  ASSUME NEW c \in Calls, NEW pc \in {"read", "fill", "write", "remove", "scan", "unlink", "publish"},
         call[c].pc = pc
  PROVE  c \in Running
BY DEF Running

LEMMA ReadL2Type ==
  ASSUME TypeInv, NEW c \in Calls, ReadL2(c)
  PROVE  TypeInv'
<1> DEFINE f == call[c]  value == l2[L2Key(f.store, f.target)]
           g == [f EXCEPT !.pc = "fill", !.item = value]
<1>1. /\ f.pc = "read"
      /\ \/ value = None /\ Ends(c)
         \/ value # None /\ call' = [call EXCEPT ![c].pc = "fill", ![c].item = value] /\ UNCHANGED dead
      /\ UNCHANGED <<siteVars, l1, l2, wire, excused>>
  BY DEF ReadL2
<1>2. c \in Running
  BY <1>1, Under
<1>3. /\ f \in Frames /\ PlacedCall(f) /\ f.store \in StoreNames /\ f.target \in Targets /\ Len(f.target.keys) = 1
  BY <1>1, <1>2, RunningCall DEF PlacedCall, OneKey
<1>4. value \in Calls \cup {None}
  BY <1>3, OneL1Key DEF TypeInv
<1> HIDE DEF value
<1>5. CASE value = None /\ Ends(c)
  <2>1. CallsFine' /\ dead' \in SUBSET Calls
    BY <1>2, <1>5, EndsType
  <2>2. Rest' /\ L1Fine' /\ WireFine' /\ L2Fine' /\ excused' \in SUBSET L1Places
    BY <1>1, Changes
  <2> QED  BY <2>1, <2>2, NextAssembled DEF HistoryFine
<1>6. CASE value # None /\ call' = [call EXCEPT ![c].pc = "fill", ![c].item = value] /\ UNCHANGED dead
  <2>1. call' = [call EXCEPT ![c] = g]
    BY <1>6
  <2>2. g \in Frames /\ g.pc = "fill" /\ g.item = value /\ g.method = f.method /\ g.target = f.target
    <3> HIDE DEF f
    <3> QED  BY <1>3, <1>4, <1>6 DEF Frames
  <2> HIDE DEF g
  <2>3. f.method = "get"
    BY <1>1, <1>3 DEF PlacedCall
  <2>4. Fine(g)
    <3> HIDE DEF f
    <3> QED  BY <1>3, <1>4, <1>6, <2>2, <2>3 DEF Fine, PlacedCall, OneKey, Stages
  <2>5. CallsFine'
    BY <2>1, <2>4, CallType DEF CallsFine
  <2>6. Rest' /\ L1Fine' /\ WireFine' /\ L2Fine' /\ HistoryFine'
    BY <1>1, <1>6, Changes DEF HistoryFine
  <2> QED  BY <2>5, <2>6, NextAssembled
<1> QED  BY <1>1, <1>5, <1>6

LEMMA FillType ==
  ASSUME TypeInv, NEW c \in Calls, Fill(c)
  PROVE  TypeInv'
<1> DEFINE f == call[c]  p == f.proc  s == f.store  key == L1Key(s, f.target)
           entry == [val |-> f.item, valid |-> TRUE]
<1>1. /\ f.pc = "fill"
      /\ \E items \in Put(l1[p][s], key, entry) : WriteL1(p, s, items)
      /\ Ends(c) /\ UNCHANGED <<siteVars, l2, wire>>
      /\ \E added \in SUBSET {<<p, s, key>>} : \E removed : Excuse(added, removed)
  BY DEF Fill
<1>2. c \in Running
  BY <1>1, Under
<1>3. /\ p \in Procs /\ s \in StoreNames /\ f.target \in Targets /\ Len(f.target.keys) = 1 /\ f.item \in Calls
  BY <1>1, <1>2, RunningCall DEF PlacedCall, OneKey
<1>4. key \in L1All[s] /\ entry \in Entries /\ l1[p][s] \in Tables(s)
  BY <1>3, OneL1Key DEF Entries, TypeInv
<1> HIDE DEF key, entry, p, s
<1>5. PICK items \in Put(l1[p][s], key, entry) : WriteL1(p, s, items)
  BY <1>1
<1>6. L1Fine'
  BY <1>3, <1>4, <1>5, PutType, WriteFine
<1>7. CallsFine' /\ dead' \in SUBSET Calls
  BY <1>1, <1>2, EndsType
<1>8. excused' \in SUBSET L1Places
  <2>1. {<<p, s, key>>} \subseteq L1Places
    BY <1>3, <1>4, PlacesType
  <2> QED  BY <1>1, <2>1, ExcuseType
<1>9. Rest' /\ WireFine' /\ L2Fine'
  BY <1>1, Changes
<1> QED  BY <1>6, <1>7, <1>8, <1>9, NextAssembled DEF HistoryFine

LEMMA WriteL2Type ==
  ASSUME TypeInv, NEW c \in Calls, WriteL2(c)
  PROVE  TypeInv'
<1> DEFINE f == call[c]  g == [f EXCEPT !.pc = "publish"]  key == L2Key(f.store, f.target)
<1>1. /\ f.pc = "write" /\ l2' = [l2 EXCEPT ![key] = c] /\ call' = [call EXCEPT ![c] = g]
      /\ UNCHANGED dead /\ UNCHANGED <<siteVars, l1, wire, excused>>
  BY DEF WriteL2, Goto
<1>2. c \in Running
  BY <1>1, Under
<1>3. f \in Frames /\ PlacedCall(f) /\ f.method = "set" /\ f.store \in StoreNames /\ OneKey(f)
  BY <1>1, <1>2, RunningCall DEF PlacedCall
<1>4. key \in L2All
  BY <1>3, OneL1Key DEF OneKey
<1>5. L2Fine'
  <2> HIDE DEF key
  <2> QED  BY <1>1, <1>4 DEF L2Fine, TypeInv
<1>6. CallsFine'
  <2>1. g \in Frames /\ g.pc = "publish" /\ g.method = "set" /\ OneKey(g)
    <3> HIDE DEF f
    <3> QED  BY <1>3 DEF Frames, OneKey
  <2> HIDE DEF g
  <2>2. Fine(g)
    BY <2>1 DEF Fine, PlacedCall, Stages
  <2> QED  BY <1>1, <2>2, CallType DEF CallsFine
<1>7. Rest' /\ L1Fine' /\ WireFine' /\ HistoryFine'
  BY <1>1, Changes DEF HistoryFine
<1> QED  BY <1>5, <1>6, <1>7, NextAssembled

LEMMA RemoveL2Type ==
  ASSUME TypeInv, NEW c \in Calls, RemoveL2(c)
  PROVE  TypeInv'
<1> DEFINE f == call[c]
<1>1. f.pc = "remove" /\ UNCHANGED <<siteVars, l1, wire, dead, excused>>
  BY DEF RemoveL2
<1>2. PICK keys \in SUBSET f.left :
        /\ l2' = [k \in L2All |-> IF k \in keys THEN None ELSE l2[k]]
        /\ call' = [call EXCEPT ![c].left = @ \ keys,
                                ![c].pc = IF keys = call[c].left THEN "publish" ELSE "remove"]
  BY DEF RemoveL2
<1> DEFINE stage == IF keys = f.left THEN "publish" ELSE "remove"
           g == [f EXCEPT !.left = f.left \ keys, !.pc = stage]
<1>3. c \in Running
  BY <1>1, Under
<1>4. /\ f \in Frames /\ PlacedCall(f) /\ f.method = "delete" /\ f.target \in Targets /\ f.left \in SUBSET L2All
  BY <1>1, <1>3, RunningCall DEF PlacedCall
<1>5. call' = [call EXCEPT ![c] = g]
  BY <1>2
<1>6. L2Fine'
  BY <1>2 DEF L2Fine, TypeInv
<1>7. CallsFine'
  <2>1. stage \in {"publish", "remove"}
    OBVIOUS
  <2> HIDE DEF stage
  <2>2. g \in Frames /\ g.pc = stage /\ g.method = "delete" /\ g.target = f.target
    <3> HIDE DEF f
    <3> QED  BY <1>4, <2>1 DEF Frames
  <2> HIDE DEF g
  <2>3. Fine(g)
    BY <1>4, <2>1, <2>2 DEF Fine, PlacedCall, Stages
  <2> QED  BY <1>5, <2>3, CallType DEF CallsFine
<1>8. Rest' /\ L1Fine' /\ WireFine' /\ HistoryFine'
  BY <1>1, Changes DEF HistoryFine
<1> QED  BY <1>6, <1>7, <1>8, NextAssembled

LEMMA ClearRowsType ==
  ASSUME TypeInv, NEW c \in Calls, ClearRows(c)
  PROVE  TypeInv'
<1>1. /\ call[c].pc = "scan" /\ Ends(c) /\ UNCHANGED <<siteVars, l1, wire, excused>>
      /\ l2' = [k \in L2All |-> IF Matches(L2Prefix[call[c].store][call[c].target.path], k)
                                  THEN None ELSE l2[k]]
  BY DEF ClearRows
<1>2. L2Fine'
  BY <1>1 DEF L2Fine, TypeInv
<1>3. CallsFine' /\ dead' \in SUBSET Calls
  BY <1>1, Under, EndsType
<1>4. Rest' /\ L1Fine' /\ WireFine' /\ excused' \in SUBSET L1Places
  BY <1>1, Changes
<1> QED  BY <1>2, <1>3, <1>4, NextAssembled DEF HistoryFine

(* What a scan takes from a page.                                          *)
LEMMA Scanned ==
  ASSUME TypeInv, NEW c \in Calls, ScanL2(c)
  PROVE  /\ c \in Running /\ call[c].pc = "scan" /\ driver \in {"redis", "dynamo"}
         /\ UNCHANGED <<siteVars, l1, l2, wire, excused>>
         /\ \/ /\ UNCHANGED dead
               /\ \E page \in SUBSET Items(L2Prefix[call[c].store][call[c].target.path]) :
                    call' = [call EXCEPT ![c] = [call[c] EXCEPT !.pc = "unlink",
                      !.seen = (call[c].seen \cap Items(L2Prefix[call[c].store][call[c].target.path])) \ page,
                      !.left = {item[1] : item \in page}]]
            \/ /\ call[c].seen \cap Items(L2Prefix[call[c].store][call[c].target.path]) = {}
               /\ Ends(c)
<1> DEFINE stored == Items(L2Prefix[call[c].store][call[c].target.path])
<1>1. /\ call[c].pc = "scan" /\ driver \in {"redis", "dynamo"}
      /\ UNCHANGED <<siteVars, l1, l2, wire, excused>>
      /\ \/ \E page \in SUBSET stored \ {{}} :
              /\ call' = [call EXCEPT ![c].pc = "unlink", ![c].seen = (@ \cap stored) \ page,
                                      ![c].left = {item[1] : item \in page}]
              /\ UNCHANGED dead
         \/ call[c].seen \cap stored = {} /\ Ends(c)
  BY DEF ScanL2
<1>2. c \in Running
  BY <1>1, Under
<1>3. ASSUME NEW page,
             call' = [call EXCEPT ![c].pc = "unlink", ![c].seen = (@ \cap stored) \ page,
                                  ![c].left = {item[1] : item \in page}]
      PROVE  call' = [call EXCEPT ![c] = [call[c] EXCEPT !.pc = "unlink",
               !.seen = (call[c].seen \cap stored) \ page, !.left = {item[1] : item \in page}]]
  <2> DEFINE left == {item[1] : item \in page}
  <2> HIDE DEF stored, left
  <2> QED  BY <1>3 DEF left
<1> HIDE DEF stored
<1>4. \/ /\ UNCHANGED dead
         /\ \E page \in SUBSET stored :
              call' = [call EXCEPT ![c] = [call[c] EXCEPT !.pc = "unlink",
                !.seen = (call[c].seen \cap stored) \ page, !.left = {item[1] : item \in page}]]
      \/ call[c].seen \cap stored = {} /\ Ends(c)
  BY <1>1, <1>3
<1> QED  BY <1>1, <1>2, <1>4 DEF stored

LEMMA ScanL2Type ==
  ASSUME TypeInv, NEW c \in Calls, ScanL2(c)
  PROVE  TypeInv'
<1> DEFINE f == call[c]  stored == Items(L2Prefix[f.store][f.target.path])
<1>1. /\ f.pc = "scan" /\ c \in Running /\ UNCHANGED <<siteVars, l1, l2, wire, excused>>
  BY Scanned
<1>2. /\ f \in Frames /\ PlacedCall(f) /\ f.method = "clear" /\ f.seen \in SUBSET (L2All \X Calls)
  BY <1>1, RunningCall DEF PlacedCall
<1>3. stored \subseteq L2All \X Calls
  BY ItemsType
<1>4. CallsFine' /\ dead' \in SUBSET Calls
  <2>1. CASE Ends(c)
    BY <1>1, <2>1, EndsType
  <2>2. CASE UNCHANGED dead /\ \E page \in SUBSET stored :
               call' = [call EXCEPT ![c] = [f EXCEPT !.pc = "unlink",
                 !.seen = (f.seen \cap stored) \ page, !.left = {item[1] : item \in page}]]
    <3>1. PICK page \in SUBSET stored :
            call' = [call EXCEPT ![c] = [f EXCEPT !.pc = "unlink",
              !.seen = (f.seen \cap stored) \ page, !.left = {item[1] : item \in page}]]
      BY <2>2
    <3> DEFINE left == {item[1] : item \in page}  seen == (f.seen \cap stored) \ page
               g == [f EXCEPT !.pc = "unlink", !.seen = seen, !.left = left]
    <3>2. left \in SUBSET L2All /\ seen \in SUBSET (L2All \X Calls)
      <4> HIDE DEF stored
      <4> QED  BY <1>2, <1>3
    <3> HIDE DEF left, seen
    <3>3. g \in Frames /\ g.pc = "unlink" /\ g.method = "clear"
      <4> HIDE DEF f
      <4> QED  BY <1>2, <3>2 DEF Frames
    <3>4. call' = [call EXCEPT ![c] = g]
      BY <3>1 DEF left, seen
    <3> HIDE DEF g
    <3>5. Fine(g)
      BY <3>3 DEF Fine, PlacedCall, Stages
    <3>6. CallsFine'
      BY <3>4, <3>5, CallType DEF CallsFine
    <3> QED  BY <2>2, <3>6, Changes
  <2> HIDE DEF stored
  <2> QED  BY <2>1, <2>2, Scanned DEF stored
<1>5. Rest' /\ L1Fine' /\ WireFine' /\ L2Fine' /\ excused' \in SUBSET L1Places
  BY <1>1, Changes
<1> QED  BY <1>4, <1>5, NextAssembled DEF HistoryFine

(* What an unlink removes, and what is left of it to do.                   *)
LEMMA Unlinked ==
  ASSUME TypeInv, NEW c \in Calls, Unlink(c)
  PROVE  /\ c \in Running /\ call[c].pc = "unlink" /\ UNCHANGED <<siteVars, l1, wire, dead, excused>>
         /\ \E k \in call[c].left :
              /\ k \in L2All /\ l2' = [l2 EXCEPT ![k] = None]
              /\ call' = [call EXCEPT ![c] = [call[c] EXCEPT !.left = call[c].left \ {k},
                            !.pc = IF call[c].left = {k} THEN "scan" ELSE "unlink"]]
<1>1. /\ call[c].pc = "unlink" /\ UNCHANGED <<siteVars, l1, wire, dead, excused>>
      /\ \E k \in call[c].left :
           /\ l2' = [l2 EXCEPT ![k] = None]
           /\ call' = [call EXCEPT ![c].left = @ \ {k},
                ![c].pc = IF call[c].left = {k} THEN "scan" ELSE "unlink"]
  BY DEF Unlink
<1>2. c \in Running
  BY <1>1, Under
<1>3. call[c].left \subseteq L2All
  BY <1>2, RunningCall
<1> QED  BY <1>1, <1>2, <1>3

LEMMA UnlinkType ==
  ASSUME TypeInv, NEW c \in Calls, Unlink(c)
  PROVE  TypeInv'
<1> DEFINE f == call[c]
<1>1. c \in Running /\ f.pc = "unlink" /\ UNCHANGED <<siteVars, l1, wire, dead, excused>>
  BY Unlinked
<1>2. PICK k \in f.left :
        /\ k \in L2All /\ l2' = [l2 EXCEPT ![k] = None]
        /\ call' = [call EXCEPT ![c] = [f EXCEPT !.left = f.left \ {k},
                      !.pc = IF f.left = {k} THEN "scan" ELSE "unlink"]]
  BY Unlinked
<1> DEFINE stage == IF f.left = {k} THEN "scan" ELSE "unlink"
           g == [f EXCEPT !.left = f.left \ {k}, !.pc = stage]
<1>3. f \in Frames /\ PlacedCall(f) /\ f.method = "clear" /\ f.left \in SUBSET L2All
  BY <1>1, RunningCall DEF PlacedCall
<1>4. stage \in {"scan", "unlink"} /\ call' = [call EXCEPT ![c] = g]
  BY <1>2
<1> HIDE DEF stage
<1>5. g \in Frames /\ g.pc = stage /\ g.method = "clear"
  <2> HIDE DEF f
  <2> QED  BY <1>3, <1>4 DEF Frames
<1> HIDE DEF g
<1>6. Fine(g)
  BY <1>4, <1>5 DEF Fine, PlacedCall, Stages
<1>7. CallsFine'
  BY <1>4, <1>6, CallType DEF CallsFine
<1>8. L2Fine'
  BY <1>2 DEF L2Fine, TypeInv
<1>9. Rest' /\ L1Fine' /\ WireFine' /\ HistoryFine'
  BY <1>1, Changes DEF HistoryFine
<1> QED  BY <1>7, <1>8, <1>9, NextAssembled

LEMMA NotifyType ==
  ASSUME TypeInv, NEW c \in Calls, Notify(c)
  PROVE  TypeInv'
<1> DEFINE f == call[c]
<1>1. /\ f.pc = "publish" /\ Publish(f.proc, {f.store}, f.method, f.target)
      /\ Excuse(Missed(f.proc, {f.store}, f.method, f.target), {})
      /\ Ends(c) /\ UNCHANGED <<siteVars, l1, l2>>
  BY DEF Notify
<1>2. c \in Running
  BY <1>1, Under
<1>3. /\ f.proc \in Procs /\ {f.store} \in SUBSET StoreNames /\ f.method \in MessageTypes
      /\ f.target \in Targets \cup Wholes
  BY <1>1, <1>2, RunningCall DEF PlacedCall, MessageTypes
<1> HIDE DEF f
<1>4. WireFine'
  BY <1>1, <1>3, PublishType DEF WireFine
<1>5. CallsFine' /\ dead' \in SUBSET Calls
  BY <1>1, <1>2, EndsType
<1>6. Rest' /\ L1Fine' /\ L2Fine'
  BY <1>1, Changes
<1>7. excused' \in SUBSET L1Places
  BY <1>1, <1>3, MissedType, ExcuseType
<1> QED  BY <1>4, <1>5, <1>6, <1>7, NextAssembled DEF HistoryFine

LEMMA SubscribeType ==
  ASSUME TypeInv, NEW p \in Procs, NEW s \in StoreNames, Subscribe(p, s)
  PROVE  TypeInv'
<1>1. /\ subscribed' = [subscribed EXCEPT ![p] = @ \cup {s}]
      /\ UNCHANGED <<driver, opened, l1, l2, wire, call, dead, excused>>
  BY DEF Subscribe
<1>2. Rest'
  BY <1>1 DEF Rest, TypeInv
<1> QED  BY <1>1, <1>2, Changes, NextAssembled DEF HistoryFine

LEMMA TypeNext == TypeInv /\ [Next]_vars => TypeInv'
<1> SUFFICES ASSUME TypeInv, [Next]_vars  PROVE TypeInv'
  OBVIOUS
<1>1. CASE UNCHANGED vars
  <2>1. UNCHANGED <<siteVars, l1, l2, wire, call, dead, excused>>
    BY <1>1 DEF vars
  <2> QED  BY <2>1, Changes, NextAssembled DEF HistoryFine
<1>2. ASSUME NEW p \in Procs, NEW name \in StoreNames \cup {None}, NEW s, s = Used(name),
             \/ \E c \in Calls, target \in Targets :
                  Get(c, p, s, target) \/ Set(c, p, s, target) \/ Delete(c, p, s, target)
             \/ \E target \in Wholes : ClearOne(p, s, target)
      PROVE  TypeInv'
  <2>1. s \in StoreNames
    BY <1>2, StoresAssumption DEF Used
  <2> QED  BY <1>2, <2>1, GetType, SetType, DeleteType, ClearsType
<1>3. ASSUME NEW p \in Procs, ClearAll(p)  PROVE TypeInv'
  BY <1>3, ClearsType
<1>4. ASSUME NEW c \in Calls,
             \/ ReadL2(c) \/ Fill(c) \/ WriteL2(c) \/ RemoveL2(c)
             \/ ClearRows(c) \/ ScanL2(c) \/ Unlink(c) \/ Notify(c)
      PROVE  TypeInv'
  BY <1>4, ReadL2Type, FillType, WriteL2Type, RemoveL2Type, ClearRowsType, ScanL2Type,
     UnlinkType, NotifyType
<1>5. ASSUME NEW p \in Procs, NEW s \in StoreNames, Subscribe(p, s) \/ OnMessage(p, s)
      PROVE  TypeInv'
  BY <1>5, SubscribeType, OnMessageType
<1> QED  BY <1>1, <1>2, <1>3, <1>4, <1>5 DEF Next, Ready, Running

LEMMA TypeInvariance == Spec => []TypeInv
<1> QED  BY TypeInit, TypeNext, PTL DEF Spec

(* The parts of TypeInv are what TypeOK and DecodeInvertsEncode say.       *)
LEMMA TypeInvTyped == TypeInv => TypeOK
<1> SUFFICES ASSUME TypeInv  PROVE TypeOK
  OBVIOUS
<1>1. ASSUME NEW p \in Procs, NEW s \in StoreNames
      PROVE  /\ l1[p][s] \in [L1All[s] -> Entries \cup {None}]
             /\ Cardinality({k \in L1All[s] : l1[p][s][k] # None}) <= MaxItems
  <2> DEFINE items == l1[p][s]
  <2>1. items \in Tables(s)
    BY DEF TypeInv
  <2> HIDE DEF items
  <2>2. items \in [L1All[s] -> Entries \cup {None}] /\ Cardinality(Held(items)) <= MaxItems
    BY <2>1 DEF Tables
  <2>3. Held(items) = {k \in L1All[s] : items[k] # None}
    BY <2>2 DEF Held
  <2> QED  BY <2>2, <2>3 DEF items
<1>2. ASSUME NEW p \in Procs, NEW s \in StoreNames, NEW i \in DOMAIN wire[p][s]
      PROVE  wire[p][s][i].of.type \in MessageTypes
  <2> DEFINE m == wire[p][s][i]
  <2>1. m \in Carried
    BY DEF TypeInv
  <2> HIDE DEF m
  <2> QED  BY <2>1 DEF Carried, Messages, m
<1>3. \A c \in Calls : call[c] \in Frames \cup Overs \cup {Idle}
  BY DEF TypeInv, Stages
<1> QED  BY <1>1, <1>2, <1>3 DEF TypeInv, TypeOK

LEMMA TypeInvDecodes == TypeInv => DecodeInvertsEncode
<1> SUFFICES ASSUME TypeInv, NEW p \in Procs, NEW s \in StoreNames, NEW i \in DOMAIN wire[p][s]
             PROVE  Decode(wire[p][s][i].bytes) = wire[p][s][i].of
  BY DEF DecodeInvertsEncode
<1> DEFINE h == wire[p][s][i]
<1>1. h \in Carried
  BY DEF TypeInv
<1> HIDE DEF h
<1>2. PICK m \in Messages : h = [bytes |-> Encode(m), of |-> m]
  BY <1>1 DEF Carried
<1> QED  BY <1>2, MessageRoundTrip DEF h

(* Whatever stores, paths and keys there are, an L1 never holds more items *)
(* than it may, and every call stands where its method has a step.         *)
THEOREM StoresTypeCorrect == Spec => []TypeOK
<1> QED  BY TypeInvariance, TypeInvTyped, PTL

(* The bytes of every message under way decode to what was published.      *)
THEOREM StoresDecodeInvertsEncode == Spec => []DecodeInvertsEncode
<1> QED  BY TypeInvariance, TypeInvDecodes, PTL

----------------------------------------------------------------------------
(* What is left to sweep.                                                 *)

(* The call that put a value under a key.                                  *)
Owns(d, k) ==
  LET f == call[d] IN
  \/ f.pc = "publish" /\ f.method = "set" /\ k \in L2Keys[f.store][f.target]
  \/ f.pc = "done" /\ k \in f.keys

(* A call has still to remove or replace what d put under k.               *)
LeftTo(f, k, d) ==
  \/ f.pc = "write" /\ k \in L2Keys[f.store][f.target]
  \/ f.pc = "remove" /\ k \in f.left
  \/ /\ f.pc = "scan" /\ Matches(L2Prefix[f.store][f.target.path], k)
     /\ driver \in {"redis", "dynamo"} => <<k, d>> \in f.seen
  \/ /\ f.pc = "unlink" /\ Matches(L2Prefix[f.store][f.target.path], k)
     /\ <<k, d>> \in f.seen \/ k \in f.left

Single(keys) == \A k, j \in keys : k = j
IsOld(f, d) == call[d].pc = "done" /\ call[d].keys \cap Covered(f.store, f.target, f.method) # {}
Swept(f, d) == \A k \in L2All : l2[k] = d => LeftTo(f, k, d)
Sweeping(f) == f.method # "get" => \A d \in f.olds : d \in Calls /\ IsOld(f, d) /\ Swept(f, d)

L2Inv ==
  /\ \A k \in L2All : l2[k] # None => Owns(l2[k], k)
  /\ \A d \in Calls : call[d].pc = "done" => Single(call[d].keys)
  /\ \A c \in Running : Sweeping(call[c])
  /\ \A d \in dead : call[d].pc = "done"
  /\ DeadLeftL2

----------------------------------------------------------------------------
(* A step that leaves what ended as it is.                                 *)

DoneStays == \A d \in Calls : call[d].pc = "done" => call'[d] = call[d]
NothingBack == \A k \in L2All, d \in Calls : call[d].pc = "done" /\ l2'[k] = d => l2[k] = d
Gone(d) == call[d].pc = "done" /\ \A k \in L2All : l2[k] # d

LEMMA KeptSwept ==
  ASSUME TypeInv, L2Inv, driver' = driver, DoneStays, NothingBack,
         NEW c \in Running, call'[c] = call[c]
  PROVE  Sweeping(call[c])'
<1> DEFINE f == call[c]
<1>1. SUFFICES ASSUME f.method # "get", NEW d \in f.olds
               PROVE  d \in Calls /\ IsOld(f, d)' /\ Swept(f, d)'
  BY DEF Sweeping
<1>2. d \in Calls /\ IsOld(f, d) /\ Swept(f, d) /\ call'[c] = f
  BY <1>1 DEF L2Inv, Sweeping
<1> HIDE DEF f
<1>3. f' = f
  BY <1>2 DEF f
<1>4. call[d].pc = "done" /\ call'[d] = call[d]
  BY <1>2 DEF IsOld, DoneStays
<1>5. IsOld(f, d)'
  BY <1>2, <1>3, <1>4 DEF IsOld
<1>6. Swept(f, d)'
  <2> SUFFICES ASSUME NEW k \in L2All, l2'[k] = d  PROVE LeftTo(f, k, d)'
    BY DEF Swept
  <2>1. LeftTo(f, k, d)
    BY <1>2, <1>4 DEF Swept, NothingBack
  <2> QED  BY <1>3, <2>1 DEF LeftTo, Matches
<1> QED  BY <1>2, <1>5, <1>6

(* A step that has one call c go on, or begin.                             *)
LEMMA L2Step ==
  ASSUME TypeInv, TypeInv', L2Inv, driver' = driver, DoneStays, NothingBack,
         \A k \in L2All : l2'[k] # None => Owns(l2[k], k)',
         \A d \in Calls : call'[d].pc = "done" => Single(call'[d].keys) \/ call'[d] = call[d],
         \A c \in Running' : call'[c] = call[c] \/ Sweeping(call[c])',
         \A d \in dead' : d \in Calls /\ (d \in dead \/ Gone(d)')
  PROVE  L2Inv'
<1>1. ASSUME NEW d \in Calls, call'[d].pc = "done"  PROVE Single(call'[d].keys)
  BY <1>1 DEF L2Inv
<1>2. ASSUME NEW c \in Running'  PROVE Sweeping(call[c])'
  <2>1. CASE call'[c] = call[c]
    <3>1. c \in Running
      BY <2>1 DEF Running
    <3> QED  BY <2>1, <3>1, KeptSwept
  <2> QED  BY <2>1
<1>3. \A d \in dead' : call'[d].pc = "done"
  BY DEF L2Inv, DoneStays, Gone
<1>4. ASSUME NEW k \in L2All, l2'[k] \in dead'  PROVE FALSE
  <2> DEFINE d == l2'[k]
  <2>1. d \in Calls /\ d \in dead' /\ l2'[k] = d
    BY <1>4
  <2> HIDE DEF d
  <2>2. d \in dead
    BY <2>1 DEF Gone
  <2>3. call[d].pc = "done"
    BY <2>2 DEF L2Inv
  <2>4. l2[k] = d
    BY <2>1, <2>3 DEF NothingBack
  <2> QED  BY <2>2, <2>4 DEF L2Inv, DeadLeftL2
<1>5. DeadLeftL2'
  BY <1>4 DEF DeadLeftL2
<1> QED  BY <1>1, <1>2, <1>3, <1>5 DEF L2Inv

(* L2 as it was.                                                           *)
LEMMA L2Unchanged ==
  ASSUME L2Inv, UNCHANGED l2
  PROVE  /\ NothingBack
         /\ \A k \in L2All : l2'[k] # None => Owns(l2'[k], k)
BY DEF NothingBack, L2Inv

(* A call that begins sweeps what it covers.                               *)
LEMMA BegunSweeps ==
  ASSUME TypeInv, L2Inv, driver' = driver, DoneStays, UNCHANGED l2,
         NEW p \in Procs, NEW s \in StoreNames, NEW target \in Targets \cup Wholes,
         NEW method, NEW stage, NEW c \in Calls,
         Begun(call'[c], p, s, target, method, stage),
         \/ method = "get"
         \/ method = "set" /\ stage = "write"
         \/ method = "delete" /\ stage = "remove"
         \/ method = "clear" /\ stage = "scan"
  PROVE  Sweeping(call[c])'
<1> DEFINE f == call[c]'
<1>1. SUFFICES ASSUME f.method # "get", NEW d \in f.olds
               PROVE  d \in Calls /\ IsOld(call[c], d)' /\ Swept(call[c], d)'
  BY DEF Sweeping
<1>2. /\ f.pc = stage /\ f.store = s /\ f.target = target /\ f.method = method
      /\ f.left = (IF method = "delete" THEN L2Keys[s][target] ELSE {})
      /\ f.seen = (IF method = "clear" /\ driver \in {"redis", "dynamo"}
                     THEN Items(L2Prefix[s][target.path]) ELSE {})
      /\ f.olds = (IF method = "get" THEN {}
                   ELSE {e \in Calls : /\ call[e].pc = "done"
                                       /\ call[e].keys \cap Covered(s, target, method) # {}})
  BY DEF Begun
<1> HIDE DEF f
<1>3. d \in Calls /\ call[d].pc = "done" /\ call[d].keys \cap Covered(s, target, method) # {}
  BY <1>1, <1>2
<1>4. IsOld(call[c], d)'
  BY <1>2, <1>3 DEF IsOld, DoneStays, f
<1>5. ASSUME NEW k \in L2All, l2'[k] = d  PROVE LeftTo(call[c], k, d)'
  <2>1. l2[k] = d /\ d # None
    BY <1>3, <1>5, NoneDiffers
  <2>2. k \in call[d].keys /\ Single(call[d].keys)
    BY <1>3, <2>1 DEF L2Inv, Owns
  <2>3. k \in Covered(s, target, method)
    BY <1>3, <2>2 DEF Single
  <2>4. CASE method = "set" /\ stage = "write"
    BY <1>2, <2>3, <2>4 DEF LeftTo, Covered, f
  <2>5. CASE method = "delete" /\ stage = "remove"
    BY <1>2, <2>3, <2>5 DEF LeftTo, Covered, f
  <2>6. CASE method = "clear" /\ stage = "scan"
    <3>1. Matches(L2Prefix[s][target.path], k)
      BY <2>3, <2>6, CoveredMatches DEF TypeInv
    <3>2. Matches(L2Prefix[call[c].store][call[c].target.path], k)'
      <4>1. call'[c].store = s /\ call'[c].target = target
        BY <1>2 DEF f
      <4> QED  BY <3>1, <4>1 DEF Matches
    <3>3. driver \in {"redis", "dynamo"} => <<k, d>> \in f.seen
      <4>1. <<k, d>> \in Items(L2Prefix[s][target.path])
        BY <2>1, <3>1, ItemsType
      <4> QED  BY <1>2, <2>6, <4>1
    <3>4. f.pc = "scan" /\ driver' = driver
      BY <1>2, <2>6
    <3> QED  BY <3>2, <3>3, <3>4 DEF LeftTo, f
  <2> QED  BY <1>1, <1>2, <2>4, <2>5, <2>6
<1> QED  BY <1>3, <1>4, <1>5 DEF Swept

----------------------------------------------------------------------------
(* Calls that begin, or leave L2 alone.                                   *)

LEMMA OwnerKept ==
  ASSUME TypeInv, L2Inv, NEW k \in L2All, l2[k] # None, l2'[k] = l2[k],
         call'[l2[k]] = call[l2[k]]
  PROVE  Owns(l2[k], k)'
<1>1. Owns(l2[k], k)
  BY DEF L2Inv
<1> QED  BY <1>1 DEF Owns

(* A step that only begins calls.                                          *)
LEMMA OnlyBegins ==
  ASSUME TypeInv, TypeInv', L2Inv, driver' = driver, UNCHANGED l2, UNCHANGED dead,
         \A d \in Calls : \/ call'[d] = call[d]
                          \/ /\ call[d].pc = "idle"
                             /\ \/ call'[d] = [pc |-> "done", keys |-> {}]
                                \/ call'[d].pc # "done" /\ Sweeping(call[d])'
  PROVE  L2Inv'
<1>1. DoneStays
  BY DEF DoneStays
<1>2. NothingBack
  BY DEF NothingBack
<1>3. ASSUME NEW k \in L2All, l2'[k] # None  PROVE Owns(l2[k], k)'
  <2> DEFINE d == l2[k]
  <2>1. d \in Calls /\ Owns(d, k) /\ l2'[k] = d /\ l2[k] # None
    BY <1>3 DEF TypeInv, L2Inv
  <2>2. call[d].pc # "idle"
    <3> HIDE DEF d
    <3> QED  BY <2>1 DEF Owns
  <2>3. call'[d] = call[d]
    <3> HIDE DEF d
    <3> QED  BY <2>1, <2>2
  <2> QED  BY <2>1, <2>3, OwnerKept
<1>4. \A d \in Calls : call'[d].pc = "done" => Single(call'[d].keys) \/ call'[d] = call[d]
  BY DEF Single
<1>5. \A c \in Running' : call'[c] = call[c] \/ Sweeping(call[c])'
  BY DEF Running
<1>6. \A d \in dead' : d \in Calls /\ (d \in dead \/ Gone(d)')
  BY DEF TypeInv
<1> QED  BY <1>1, <1>2, <1>3, <1>4, <1>5, <1>6, L2Step

LEMMA GetL2 ==
  ASSUME TypeInv, TypeInv', L2Inv, NEW c \in Calls, NEW p \in Procs, NEW s \in StoreNames,
         NEW target \in Targets, Get(c, p, s, target)
  PROVE  L2Inv'
<1> DEFINE e == l1[p][s][L1Key(s, target)]
           stage == IF e # None /\ e.valid THEN "done" ELSE "read"
<1>1. Len(target.keys) = 1 /\ Begin(c, p, s, target, "get", stage) /\ UNCHANGED <<l1, l2, wire, dead, excused>>
  BY DEF Get
<1>2. stage \in {"read", "write", "remove", "done"} /\ stage \in {"read", "done"}
  OBVIOUS
<1> HIDE DEF stage
<1>3. /\ driver' = driver /\ call[c].pc = "idle" /\ call'[c] = Frame(p, s, target, "get", stage)
      /\ \A d \in Calls \ {c} : call'[d] = call[d]
  BY <1>1, <1>2, BeginType
<1>4. \/ call'[c] = [pc |-> "done", keys |-> {}]
      \/ call'[c].pc # "done" /\ Sweeping(call[c])'
  <2>1. stage \in {"read", "write", "remove", "scan", "done"} /\ target \in Targets \cup Wholes
    BY <1>2
  <2>2. CASE stage = "done"
    BY <1>3, <2>1, <2>2, FrameType
  <2>3. CASE stage = "read"
    <3>1. Begun(call'[c], p, s, target, "get", stage)
      BY <1>3, <2>1, <2>3, FrameType
    <3>2. call'[c].pc # "done" /\ call'[c].method = "get"
      BY <2>3, <3>1 DEF Begun
    <3> QED  BY <3>2 DEF Sweeping
  <2> QED  BY <1>2, <2>2, <2>3
<1> QED  BY <1>1, <1>3, <1>4, OnlyBegins

LEMMA ChangeL2 ==
  ASSUME TypeInv, TypeInv', L2Inv, NEW c \in Calls, NEW p \in Procs, NEW s \in StoreNames,
         NEW target \in Targets, Set(c, p, s, target) \/ Delete(c, p, s, target)
  PROVE  L2Inv'
<1>1. PICK method \in {"set", "delete"}, stage \in {"write", "remove"} :
        /\ Begin(c, p, s, target, method, stage) /\ (method = "set" <=> stage = "write")
        /\ method = "set" => Len(target.keys) = 1
        /\ UNCHANGED <<l2, wire, dead>>
  BY DEF Set, Delete
<1>2. /\ driver' = driver /\ call[c].pc = "idle" /\ call'[c] = Frame(p, s, target, method, stage)
      /\ \A d \in Calls \ {c} : call'[d] = call[d]
  BY <1>1, BeginType DEF MessageTypes
<1>3. Begun(call'[c], p, s, target, method, stage)
  BY <1>1, <1>2, FrameType DEF MessageTypes
<1>4. DoneStays
  BY <1>2 DEF DoneStays
<1>5. Sweeping(call[c])'
  <2>1. /\ (method = "set" /\ stage = "write") \/ (method = "delete" /\ stage = "remove")
        /\ target \in Targets \cup Wholes /\ driver' = driver /\ UNCHANGED l2
    BY <1>1, <1>2
  <2> QED  BY <1>3, <1>4, <2>1, BegunSweeps
<1>6. call'[c].pc # "done"
  BY <1>3 DEF Begun
<1> QED  BY <1>1, <1>2, <1>5, <1>6, OnlyBegins

LEMMA ClearL2 ==
  ASSUME TypeInv, TypeInv', L2Inv, NEW p \in Procs, NEW target \in Wholes, NEW calls,
         DOMAIN calls \subseteq StoreNames, Clear(p, target, calls)
  PROVE  L2Inv'
<1>1. UNCHANGED <<driver, l2, dead>>
  BY DEF Clear, Open
<1>2. \A c \in Calls :
        \/ /\ call[c].pc = "idle"
           /\ \E s \in DOMAIN calls : Begun(call'[c], p, s, target, "clear", "scan")
        \/ call'[c] = call[c]
  BY ClearCalls
<1>3. DoneStays
  BY <1>2 DEF DoneStays
<1>4. ASSUME NEW c \in Calls, NEW s \in DOMAIN calls, Begun(call'[c], p, s, target, "clear", "scan")
      PROVE  call'[c].pc # "done" /\ Sweeping(call[c])'
  <2>1. call'[c].pc # "done"
    BY <1>4 DEF Begun
  <2> QED  BY <1>1, <1>3, <1>4, <2>1, BegunSweeps
<1> QED  BY <1>1, <1>2, <1>4, OnlyBegins

LEMMA ClearsL2 ==
  ASSUME TypeInv, TypeInv', L2Inv, NEW p \in Procs
  PROVE  /\ \A s \in StoreNames, target \in Wholes : ClearOne(p, s, target) => L2Inv'
         /\ ClearAll(p) => L2Inv'
<1>1. ASSUME NEW s \in StoreNames, NEW target \in Wholes, ClearOne(p, s, target)  PROVE L2Inv'
  <2>1. PICK c \in Calls : Clear(p, target, [t \in {s} |-> c])
    BY <1>1 DEF ClearOne, Ready
  <2> DEFINE calls == [t \in {s} |-> c]
  <2>2. DOMAIN calls \subseteq StoreNames
    OBVIOUS
  <2> HIDE DEF calls
  <2> QED  BY <2>1, <2>2, ClearL2 DEF calls
<1>2. ASSUME ClearAll(p)  PROVE L2Inv'
  <2> DEFINE whole == [path |-> <<>>, keys |-> <<>>]
  <2>1. PICK calls \in [StoreNames -> Calls] : Clear(p, whole, calls)
    BY <1>2 DEF ClearAll, Ready
  <2>2. whole \in Wholes
    BY PathOf DEF Wholes
  <2> HIDE DEF whole
  <2> QED  BY <2>1, <2>2, ClearL2
<1> QED  BY <1>1, <1>2

LEMMA CallsUnchangedL2 ==
  ASSUME TypeInv, TypeInv', L2Inv, UNCHANGED <<driver, l2, call, dead>>
  PROVE  L2Inv'
BY OnlyBegins

----------------------------------------------------------------------------
(* Calls that go on.                                                      *)

(* A step of one call that keeps L2 or takes from it.                      *)
LEMMA StepOf ==
  ASSUME TypeInv, TypeInv', L2Inv, driver' = driver, NEW c \in Running,
         \A d \in Calls \ {c} : call'[d] = call[d],
         \A k \in L2All : l2'[k] \in {l2[k], None},
         call'[c].pc = "done" => Single(call'[c].keys),
         (call[c].pc = "publish" /\ call[c].method = "set") =>
           call'[c].pc = "done" /\ call'[c].keys = L2Keys[call[c].store][call[c].target],
         call'[c].pc # "done" => Sweeping(call[c])',
         \A d \in dead' : d \in Calls /\ (d \in dead \/ Gone(d)')
  PROVE  L2Inv'
<1>0. c \in Calls /\ call[c].pc # "done" /\ call[c].pc # "idle"
  BY DEF Running
<1>1. DoneStays
  BY <1>0 DEF DoneStays
<1>2. NothingBack
  BY NoneDiffers DEF NothingBack
<1>3. ASSUME NEW k \in L2All, l2'[k] # None  PROVE Owns(l2[k], k)'
  <2>1. l2'[k] = l2[k] /\ l2[k] # None /\ l2[k] \in Calls
    BY <1>3 DEF TypeInv
  <2>2. CASE l2[k] # c
    BY <2>1, <2>2, OwnerKept
  <2>3. CASE l2[k] = c
    <3>1. Owns(c, k)
      BY <2>1, <2>3 DEF L2Inv
    <3>2. call'[c].pc = "done" /\ k \in call'[c].keys
      BY <1>0, <3>1 DEF Owns
    <3> QED  BY <2>1, <2>3, <3>2 DEF Owns
  <2> QED  BY <2>2, <2>3
<1>4. \A d \in Calls : call'[d].pc = "done" => Single(call'[d].keys) \/ call'[d] = call[d]
  OBVIOUS
<1>5. \A d \in Running' : call'[d] = call[d] \/ Sweeping(call[d])'
  BY DEF Running
<1> QED  BY <1>1, <1>2, <1>3, <1>4, <1>5, L2Step

(* A call may end when L2 holds nothing more of what it was to sweep.      *)
LEMMA EndStep ==
  ASSUME TypeInv, TypeInv', L2Inv, driver' = driver, NEW c \in Running, Ends(c),
         \A k \in L2All : l2'[k] \in {l2[k], None},
         call[c].method # "get" => \A d \in call[c].olds : \A k \in L2All : l2'[k] # d
  PROVE  L2Inv'
<1> DEFINE f == call[c]  keys == L2Keys[f.store][f.target]
<1>1. /\ call'[c] = [pc |-> "done", keys |-> IF f.method = "set" THEN keys ELSE {}]
      /\ f.method = "get" => dead' = dead
      /\ f.method # "get" => dead' = dead \cup f.olds
      /\ \A d \in Calls \ {c} : call'[d] = call[d]
  BY EndsType
<1>2. f.method = "set" => Single(keys)
  <2>1. ASSUME f.method = "set"  PROVE OneKey(f) /\ f.store \in StoreNames
    <3>1. PlacedCall(f) /\ f \in Frames
      BY RunningCall
    <3>2. f.pc \in {"write", "publish"} /\ f.store \in StoreNames
      BY <2>1, <3>1 DEF PlacedCall, Frames
    <3> QED  BY <2>1, <3>1, <3>2 DEF PlacedCall
  <2>2. ASSUME f.method = "set"  PROVE keys = {L2Key(f.store, f.target)}
    BY <2>1, <2>2, OneL1Key DEF OneKey
  <2> QED  BY <2>2 DEF Single
<1> HIDE DEF keys
<1>3. /\ call'[c].pc = "done" /\ Single(call'[c].keys)
      /\ f.method = "set" => call'[c].keys = keys
  BY <1>1, <1>2 DEF Single
<1>4. ASSUME NEW d \in dead'  PROVE d \in Calls /\ (d \in dead \/ Gone(d)')
  <2>1. CASE d \in dead
    BY <2>1 DEF TypeInv
  <2>2. CASE d \notin dead
    <3>1. f.method # "get" /\ d \in f.olds
      BY <1>1, <1>4, <2>2
    <3>2. d \in Calls /\ call[d].pc = "done"
      BY <3>1 DEF L2Inv, Sweeping, IsOld
    <3>3. call'[d].pc = "done"
      BY <1>1, <1>3, <3>2
    <3> QED  BY <3>1, <3>2, <3>3 DEF Gone
  <2> QED  BY <2>1, <2>2
<1>5. \A d \in Calls \ {c} : call'[d] = call[d]
  BY <1>1
<1>6. (call[c].pc = "publish" /\ call[c].method = "set") =>
           call'[c].pc = "done" /\ call'[c].keys = L2Keys[call[c].store][call[c].target]
  BY <1>3 DEF keys
<1> QED  BY <1>3, <1>4, <1>5, <1>6, StepOf

(* What a running call has to sweep.                                       *)
LEMMA ToSweep ==
  ASSUME TypeInv, L2Inv, NEW c \in Running, call[c].method # "get", NEW d \in call[c].olds
  PROVE  /\ d \in Calls /\ call[d].pc = "done" /\ d # None /\ d # c
         /\ \A k \in L2All : l2[k] = d => LeftTo(call[c], k, d)
<1>1. d \in Calls /\ IsOld(call[c], d) /\ Swept(call[c], d)
  BY DEF L2Inv, Sweeping
<1>2. call[d].pc = "done" /\ call[c].pc # "done"
  BY <1>1 DEF IsOld, Running
<1> QED  BY <1>1, <1>2, NoneDiffers DEF Swept

(* One lemma for each action of a call.                                    *)
LEMMA NotifyL2 ==
  ASSUME TypeInv, TypeInv', L2Inv, NEW c \in Calls, Notify(c)
  PROVE  L2Inv'
<1>1. call[c].pc = "publish" /\ Ends(c) /\ UNCHANGED <<siteVars, l1, l2>>
  BY DEF Notify
<1>2. c \in Running /\ driver' = driver
  BY <1>1, Under DEF siteVars
<1>3. ASSUME call[c].method # "get", NEW d \in call[c].olds, NEW k \in L2All, l2'[k] = d  PROVE FALSE
  <2>1. LeftTo(call[c], k, d)
    BY <1>1, <1>2, <1>3, ToSweep
  <2> QED  BY <1>1, <2>1 DEF LeftTo
<1> QED  BY <1>1, <1>2, <1>3, EndStep

LEMMA ClearRowsL2 ==
  ASSUME TypeInv, TypeInv', L2Inv, NEW c \in Calls, ClearRows(c)
  PROVE  L2Inv'
<1> DEFINE prefix == L2Prefix[call[c].store][call[c].target.path]
<1>1. /\ call[c].pc = "scan" /\ Ends(c) /\ UNCHANGED <<siteVars, l1, wire, excused>>
      /\ l2' = [k \in L2All |-> IF Matches(prefix, k) THEN None ELSE l2[k]]
  BY DEF ClearRows
<1>2. c \in Running /\ driver' = driver
  BY <1>1, Under DEF siteVars
<1>3. ASSUME call[c].method # "get", NEW d \in call[c].olds, NEW k \in L2All, l2'[k] = d  PROVE FALSE
  <2>1. d # None
    BY <1>2, <1>3, ToSweep
  <2>2. l2[k] = d /\ ~Matches(prefix, k)
    BY <1>1, <1>3, <2>1
  <2>3. LeftTo(call[c], k, d)
    BY <1>2, <1>3, <2>2, ToSweep
  <2> QED  BY <1>1, <2>2, <2>3 DEF LeftTo
<1>4. \A k \in L2All : l2'[k] \in {l2[k], None}
  BY <1>1
<1> QED  BY <1>1, <1>2, <1>3, <1>4, EndStep

LEMMA GetStepL2 ==
  ASSUME TypeInv, TypeInv', L2Inv, NEW c \in Calls, ReadL2(c) \/ Fill(c)
  PROVE  L2Inv'
<1>1. call[c].pc \in {"read", "fill"} /\ UNCHANGED <<siteVars, l2>>
  BY DEF ReadL2, Fill
<1>2. c \in Running /\ driver' = driver
  BY <1>1 DEF siteVars, Running
<1>3. call[c].method = "get"
  BY <1>1, <1>2, RunningCall DEF PlacedCall
<1>4. CASE Ends(c)
  BY <1>1, <1>2, <1>3, <1>4, EndStep
<1>5. CASE ~Ends(c)
  <2> DEFINE value == l2[L2Key(call[c].store, call[c].target)]
             g == [call[c] EXCEPT !.pc = "fill", !.item = value]
  <2>1. call' = [call EXCEPT ![c].pc = "fill", ![c].item = value] /\ UNCHANGED dead
    BY <1>5 DEF ReadL2, Fill
  <2>2. call' = [call EXCEPT ![c] = g]
    BY <2>1
  <2>3. call \in [Calls -> Stages] /\ call[c] \in Frames
    BY <1>2, RunningCall DEF TypeInv
  <2>4. call'[c] = g /\ \A d \in Calls \ {c} : call'[d] = call[d]
    BY <2>2, <2>3
  <2>5. g.pc = "fill" /\ g.method = "get"
    <3> DEFINE f == call[c]
    <3>1. f \in Frames /\ f.method = "get"
      BY <1>3, <2>3
    <3> HIDE DEF f, value
    <3> QED  BY <3>1 DEF Frames, f
  <2> HIDE DEF g
  <2>6. call'[c].pc # "done" /\ Sweeping(call[c])'
    BY <2>4, <2>5 DEF Sweeping
  <2>7. \A d \in dead' : d \in Calls /\ (d \in dead \/ Gone(d)')
    BY <2>1 DEF TypeInv
  <2> QED  BY <1>1, <1>2, <1>3, <2>4, <2>6, <2>7, StepOf
<1> QED  BY <1>4, <1>5

LEMMA WriteL2L2 ==
  ASSUME TypeInv, TypeInv', L2Inv, NEW c \in Calls, WriteL2(c)
  PROVE  L2Inv'
<1> DEFINE f == call[c]  key == L2Key(f.store, f.target)  g == [f EXCEPT !.pc = "publish"]
<1>1. /\ f.pc = "write" /\ l2' = [l2 EXCEPT ![key] = c] /\ call' = [call EXCEPT ![c] = g]
      /\ UNCHANGED dead /\ driver' = driver
  BY DEF WriteL2, Goto, siteVars
<1>2. c \in Running
  BY <1>1, Under
<1>3. f \in Frames /\ f.method = "set" /\ f.store \in StoreNames /\ OneKey(f)
  BY <1>1, <1>2, RunningCall DEF PlacedCall
<1>4. key \in L2All /\ L2Keys[f.store][f.target] = {key}
  BY <1>3, OneL1Key DEF OneKey
<1>5. /\ g.pc = "publish" /\ g.method = f.method /\ g.store = f.store /\ g.target = f.target
      /\ g.olds = f.olds
  <2> HIDE DEF f
  <2> QED  BY <1>3 DEF Frames
<1>6. call'[c] = g /\ \A d \in Calls \ {c} : call'[d] = call[d]
  <2> HIDE DEF g
  <2> QED  BY <1>1 DEF TypeInv
<1> HIDE DEF g, key
<1>7. l2'[key] = c /\ \A k \in L2All \ {key} : l2'[k] = l2[k]
  BY <1>1, <1>4 DEF TypeInv
<1>8. DoneStays
  BY <1>1, <1>6 DEF DoneStays
<1>9. NothingBack
  BY <1>1, <1>7 DEF NothingBack
<1>10. ASSUME NEW k \in L2All, l2'[k] # None  PROVE Owns(l2[k], k)'
  <2>1. CASE k = key
    BY <1>3, <1>4, <1>5, <1>6, <1>7, <2>1 DEF Owns
  <2>2. CASE k # key
    <3>1. l2'[k] = l2[k] /\ l2[k] # None /\ l2[k] \in Calls /\ Owns(l2[k], k)
      BY <1>7, <1>10, <2>2 DEF TypeInv, L2Inv
    <3>2. l2[k] # c
      BY <1>1, <3>1 DEF Owns
    <3> QED  BY <1>6, <3>1, <3>2, OwnerKept
  <2> QED  BY <2>1, <2>2
<1>11. Sweeping(call[c])'
  <2> SUFFICES ASSUME NEW d \in f.olds  PROVE d \in Calls /\ IsOld(call[c], d)' /\ Swept(call[c], d)'
    BY <1>5, <1>6 DEF Sweeping
  <2>1. d \in Calls /\ IsOld(f, d) /\ call[d].pc = "done" /\ d # c
    BY <1>2, <1>3, ToSweep DEF L2Inv, Sweeping
  <2>2. IsOld(call[c], d)'
    BY <1>5, <1>6, <2>1 DEF IsOld
  <2>3. ASSUME NEW k \in L2All, l2'[k] = d  PROVE FALSE
    <3>1. k # key /\ l2[k] = d
      BY <1>7, <2>1, <2>3
    <3>2. LeftTo(f, k, d)
      BY <1>2, <1>3, <3>1, ToSweep
    <3> QED  BY <1>1, <1>4, <3>1, <3>2 DEF LeftTo
  <2> QED  BY <2>1, <2>2, <2>3 DEF Swept
<1>12. \A d \in Calls : call'[d].pc = "done" => Single(call'[d].keys) \/ call'[d] = call[d]
  BY <1>5, <1>6
<1>13. \A d \in Running' : call'[d] = call[d] \/ Sweeping(call[d])'
  BY <1>6, <1>11 DEF Running
<1>14. \A d \in dead' : d \in Calls /\ (d \in dead \/ Gone(d)')
  BY <1>1 DEF TypeInv
<1> QED  BY <1>1, <1>8, <1>9, <1>10, <1>12, <1>13, <1>14, L2Step

(* A call that stays under way keeps its account of what is left.          *)
LEMMA StaysSweeping ==
  ASSUME TypeInv, L2Inv, driver' = driver, NEW c \in Running, NEW g, call'[c] = g,
         \A d \in Calls \ {c} : call'[d] = call[d],
         \A k \in L2All : l2'[k] \in {l2[k], None},
         g.method = call[c].method, g.store = call[c].store, g.target = call[c].target,
         g.olds = call[c].olds,
         call[c].method # "get" =>
           \A d \in call[c].olds : \A k \in L2All :
             (l2[k] = d /\ l2'[k] = d /\ LeftTo(call[c], k, d)) => LeftTo(g, k, d)
  PROVE  Sweeping(call[c])'
<1> SUFFICES ASSUME g.method # "get", NEW d \in g.olds
             PROVE  d \in Calls /\ IsOld(call[c], d)' /\ Swept(call[c], d)'
  BY DEF Sweeping
<1>1. d \in Calls /\ IsOld(call[c], d) /\ call[d].pc = "done" /\ d # c /\ d # None
  BY ToSweep DEF L2Inv, Sweeping
<1>2. IsOld(call[c], d)'
  BY <1>1 DEF IsOld
<1>3. ASSUME NEW k \in L2All, l2'[k] = d  PROVE LeftTo(call[c], k, d)'
  <2>1. l2[k] = d
    BY <1>1, <1>3
  <2>2. LeftTo(call[c], k, d)
    BY <2>1, ToSweep
  <2>3. LeftTo(g, k, d)
    BY <1>3, <2>1, <2>2
  <2> QED  BY <2>3 DEF LeftTo, Matches
<1> QED  BY <1>1, <1>2, <1>3 DEF Swept

LEMMA RemoveL2L2 ==
  ASSUME TypeInv, TypeInv', L2Inv, NEW c \in Calls, RemoveL2(c)
  PROVE  L2Inv'
<1> DEFINE f == call[c]
<1>1. f.pc = "remove" /\ UNCHANGED <<siteVars, l1, wire, dead, excused>>
  BY DEF RemoveL2
<1>2. PICK keys \in SUBSET f.left :
        /\ l2' = [k \in L2All |-> IF k \in keys THEN None ELSE l2[k]]
        /\ call' = [call EXCEPT ![c].left = @ \ keys,
                                ![c].pc = IF keys = call[c].left THEN "publish" ELSE "remove"]
  BY DEF RemoveL2
<1> DEFINE stage == IF keys = f.left THEN "publish" ELSE "remove"  left == f.left \ keys
           g == [f EXCEPT !.left = left, !.pc = stage]
<1>3. c \in Running /\ driver' = driver
  BY <1>1, Under DEF siteVars
<1>4. f \in Frames /\ f.method = "delete"
  BY <1>1, <1>3, RunningCall DEF PlacedCall
<1>5. call' = [call EXCEPT ![c] = g]
  BY <1>2
<1>6. /\ g.pc = stage /\ g.left = left /\ g.olds = f.olds
      /\ g.method = f.method /\ g.store = f.store /\ g.target = f.target
  <2> HIDE DEF f, left, stage
  <2> QED  BY <1>4 DEF Frames
<1>7. call'[c] = g /\ \A d \in Calls \ {c} : call'[d] = call[d]
  <2> HIDE DEF g
  <2> QED  BY <1>5 DEF TypeInv
<1>8. \A k \in L2All : l2'[k] \in {l2[k], None} /\ (k \in keys => l2'[k] = None)
  BY <1>2
<1> HIDE DEF g
<1>9. ASSUME NEW d \in f.olds, NEW k \in L2All, l2'[k] = d, LeftTo(f, k, d)
      PROVE  LeftTo(g, k, d)
  <2>1. d # None /\ k \in f.left
    BY <1>1, <1>3, <1>4, <1>9, ToSweep DEF LeftTo
  <2>2. k \notin keys
    BY <1>8, <1>9, <2>1
  <2>3. k \in left /\ stage = "remove"
    BY <2>1, <2>2
  <2> QED  BY <1>6, <2>3 DEF LeftTo
<1>10. Sweeping(call[c])'
  <2> HIDE DEF f, left, stage
  <2> QED  BY <1>3, <1>6, <1>7, <1>8, <1>9, StaysSweeping DEF f
<1>11. call'[c].pc # "done"
  BY <1>6, <1>7
<1>12. \A d \in dead' : d \in Calls /\ (d \in dead \/ Gone(d)')
  BY <1>1 DEF TypeInv
<1> QED  BY <1>1, <1>3, <1>7, <1>8, <1>10, <1>11, <1>12, StepOf

LEMMA UnlinkL2 ==
  ASSUME TypeInv, TypeInv', L2Inv, NEW c \in Calls, Unlink(c)
  PROVE  L2Inv'
<1> DEFINE f == call[c]
<1>1. c \in Running /\ f.pc = "unlink" /\ UNCHANGED <<siteVars, l1, wire, dead, excused>>
  BY Unlinked
<1>2. PICK gone \in f.left :
        /\ gone \in L2All /\ l2' = [l2 EXCEPT ![gone] = None]
        /\ call' = [call EXCEPT ![c] = [f EXCEPT !.left = f.left \ {gone},
                      !.pc = IF f.left = {gone} THEN "scan" ELSE "unlink"]]
  BY Unlinked
<1> DEFINE stage == IF f.left = {gone} THEN "scan" ELSE "unlink"  left == f.left \ {gone}
           g == [f EXCEPT !.left = left, !.pc = stage]
<1>3. driver' = driver
  BY <1>1 DEF siteVars
<1>4. f \in Frames /\ f.method = "clear"
  BY <1>1, RunningCall DEF PlacedCall
<1>5. call' = [call EXCEPT ![c] = g]
  BY <1>2
<1>6. /\ g.pc = stage /\ g.left = left /\ g.olds = f.olds /\ g.seen = f.seen
      /\ g.method = f.method /\ g.store = f.store /\ g.target = f.target
  <2> HIDE DEF f, left, stage
  <2> QED  BY <1>4 DEF Frames
<1>7. call'[c] = g /\ \A d \in Calls \ {c} : call'[d] = call[d]
  <2> HIDE DEF g
  <2> QED  BY <1>5 DEF TypeInv
<1>8. \A k \in L2All : l2'[k] \in {l2[k], None} /\ (k = gone => l2'[k] = None)
  BY <1>2 DEF TypeInv
<1> HIDE DEF g
<1>9. ASSUME NEW d \in f.olds, NEW k \in L2All, l2'[k] = d, LeftTo(f, k, d)
      PROVE  LeftTo(g, k, d)
  <2>1. /\ d # None /\ Matches(L2Prefix[f.store][f.target.path], k)
        /\ <<k, d>> \in f.seen \/ k \in f.left
    BY <1>1, <1>4, <1>9, ToSweep DEF LeftTo
  <2>2. k # gone
    BY <1>8, <1>9, <2>1
  <2>3. stage \in {"scan", "unlink"} /\ (stage = "scan" => k \notin f.left)
    BY <2>2
  <2>4. k \in f.left => k \in left
    BY <2>2
  <2> QED  BY <1>6, <2>1, <2>3, <2>4 DEF LeftTo
<1>10. Sweeping(call[c])'
  <2> HIDE DEF f, left, stage
  <2> QED  BY <1>1, <1>3, <1>6, <1>7, <1>8, <1>9, StaysSweeping DEF f
<1>11. call'[c].pc # "done" /\ call[c].pc # "publish"
  BY <1>1, <1>6, <1>7
<1>12. \A d \in dead' : d \in Calls /\ (d \in dead \/ Gone(d)')
  BY <1>1 DEF TypeInv
<1> QED  BY <1>1, <1>3, <1>7, <1>8, <1>10, <1>11, <1>12, StepOf

LEMMA ScanL2L2 ==
  ASSUME TypeInv, TypeInv', L2Inv, NEW c \in Calls, ScanL2(c)
  PROVE  L2Inv'
<1> DEFINE f == call[c]  prefix == L2Prefix[f.store][f.target.path]  stored == Items(prefix)
<1>1. /\ c \in Running /\ f.pc = "scan" /\ driver \in {"redis", "dynamo"}
      /\ UNCHANGED <<siteVars, l1, l2, wire, excused>> /\ driver' = driver
  BY Scanned DEF siteVars
<1>2. f \in Frames /\ f.method = "clear"
  BY <1>1, RunningCall DEF PlacedCall
<1>3. \A k \in L2All : l2'[k] \in {l2[k], None}
  BY <1>1
<1>4. ASSUME NEW d \in f.olds, NEW k \in L2All, l2[k] = d
      PROVE  Matches(prefix, k) /\ <<k, d>> \in f.seen \cap stored
  <2>1. d # None /\ LeftTo(f, k, d)
    BY <1>1, <1>2, <1>4, ToSweep
  <2>2. Matches(prefix, k) /\ <<k, d>> \in f.seen
    BY <1>1, <2>1 DEF LeftTo
  <2>3. <<k, d>> \in stored
    BY <1>4, <2>1, <2>2, ItemsType
  <2> QED  BY <2>2, <2>3
<1>5. CASE f.seen \cap stored = {} /\ Ends(c)
  <2>1. ASSUME NEW d \in f.olds, NEW k \in L2All, l2'[k] = d  PROVE FALSE
    <3> HIDE DEF stored, f
    <3> QED  BY <1>1, <1>4, <1>5, <2>1
  <2> QED  BY <1>1, <1>3, <1>5, <2>1, EndStep
<1>6. ASSUME UNCHANGED dead, NEW page \in SUBSET stored,
             call' = [call EXCEPT ![c] = [f EXCEPT !.pc = "unlink",
               !.seen = (f.seen \cap stored) \ page, !.left = {item[1] : item \in page}]]
      PROVE  L2Inv'
  <2> DEFINE left == {item[1] : item \in page}  seen == (f.seen \cap stored) \ page
             g == [f EXCEPT !.pc = "unlink", !.seen = seen, !.left = left]
  <2>1. call' = [call EXCEPT ![c] = g]
    BY <1>6
  <2>2. /\ g.pc = "unlink" /\ g.left = left /\ g.olds = f.olds /\ g.seen = seen
        /\ g.method = f.method /\ g.store = f.store /\ g.target = f.target
    <3> HIDE DEF f, left, seen
    <3> QED  BY <1>2 DEF Frames
  <2>3. call'[c] = g /\ \A d \in Calls \ {c} : call'[d] = call[d]
    <3> HIDE DEF g
    <3> QED  BY <2>1 DEF TypeInv
  <2> HIDE DEF g
  <2>4. ASSUME NEW d \in f.olds, NEW k \in L2All, l2[k] = d  PROVE LeftTo(g, k, d)
    <3> HIDE DEF stored
    <3>1. Matches(prefix, k) /\ <<k, d>> \in f.seen \cap stored
      BY <1>4, <2>4
    <3>2. CASE <<k, d>> \in page
      <4> DEFINE item == <<k, d>>
      <4>1. item \in page /\ item[1] = k
        BY <3>2
      <4>2. k \in left
        <5> HIDE DEF item
        <5> QED  BY <4>1
      <4> QED  BY <2>2, <3>1, <4>2 DEF LeftTo
    <3>3. CASE <<k, d>> \notin page
      BY <2>2, <3>1, <3>3 DEF LeftTo
    <3> QED  BY <3>2, <3>3
  <2>5. Sweeping(call[c])'
    <3> HIDE DEF f, left, seen, stored
    <3> QED  BY <1>1, <1>3, <2>2, <2>3, <2>4, StaysSweeping DEF f
  <2>6. call'[c].pc # "done" /\ call[c].pc # "publish"
    BY <1>1, <2>2, <2>3
  <2>7. \A d \in dead' : d \in Calls /\ (d \in dead \/ Gone(d)')
    BY <1>6 DEF TypeInv
  <2> QED  BY <1>1, <1>3, <2>3, <2>5, <2>6, <2>7, StepOf
<1> HIDE DEF stored
<1> QED  BY <1>5, <1>6, Scanned DEF stored

LEMMA L2Init == Init => L2Inv
<1> SUFFICES ASSUME Init  PROVE L2Inv
  OBVIOUS
<1>1. \A d \in Calls : call[d].pc = "idle"
  BY DEF Init, Idle
<1>2. Running = {} /\ dead = {} /\ \A k \in L2All : l2[k] = None
  BY <1>1 DEF Init, Running
<1> QED  BY <1>1, <1>2 DEF L2Inv, DeadLeftL2

LEMMA L2Next == TypeInv /\ TypeInv' /\ L2Inv /\ [Next]_vars => L2Inv'
<1> SUFFICES ASSUME TypeInv, TypeInv', L2Inv, [Next]_vars  PROVE L2Inv'
  OBVIOUS
<1>1. CASE UNCHANGED vars
  BY <1>1, CallsUnchangedL2 DEF vars, siteVars
<1>2. ASSUME NEW p \in Procs, NEW name \in StoreNames \cup {None}, NEW s, s = Used(name),
             \/ \E c \in Calls, target \in Targets :
                  Get(c, p, s, target) \/ Set(c, p, s, target) \/ Delete(c, p, s, target)
             \/ \E target \in Wholes : ClearOne(p, s, target)
      PROVE  L2Inv'
  <2>1. s \in StoreNames
    BY <1>2, StoresAssumption DEF Used
  <2> QED  BY <1>2, <2>1, GetL2, ChangeL2, ClearsL2
<1>3. ASSUME NEW p \in Procs, ClearAll(p)  PROVE L2Inv'
  BY <1>3, ClearsL2
<1>4. ASSUME NEW c \in Calls,
             \/ ReadL2(c) \/ Fill(c) \/ WriteL2(c) \/ RemoveL2(c)
             \/ ClearRows(c) \/ ScanL2(c) \/ Unlink(c) \/ Notify(c)
      PROVE  L2Inv'
  BY <1>4, GetStepL2, WriteL2L2, RemoveL2L2, ClearRowsL2, ScanL2L2, UnlinkL2, NotifyL2
<1>5. ASSUME NEW p \in Procs, NEW s \in StoreNames, Subscribe(p, s) \/ OnMessage(p, s)
      PROVE  L2Inv'
  <2>1. UNCHANGED <<driver, l2, call, dead>>
    BY <1>5 DEF Subscribe, OnMessage, siteVars
  <2> QED  BY <2>1, CallsUnchangedL2
<1> QED  BY <1>1, <1>2, <1>3, <1>4, <1>5 DEF Next, Ready, Running

(* What a set, delete or clear that ended replaced or removed does not     *)
(* come back to L2, whichever the driver and whatever ran beside it: a     *)
(* clear by pages misses nothing it was to remove (redis.ts:124-147,       *)
(* dynamodb.ts:200-234).                                                   *)
THEOREM StoresDeadLeftL2 == Spec => []DeadLeftL2
<1>1. L2Inv => DeadLeftL2
  BY DEF L2Inv
<1> QED  BY <1>1, TypeInvariance, L2Init, L2Next, PTL DEF Spec

----------------------------------------------------------------------------
(* What an L1 may hold, and who is told.                                  *)

(* d sets r, or did.                                                       *)
SetOf(d, r) ==
  LET f == call[d] IN
  \/ f.pc \in {"write", "publish"} /\ f.method = "set" /\ r \in L2Keys[f.store][f.target]
  \/ f.pc = "done" /\ r \in f.keys

(* k of store s goes with a key in L2 that d set.                          *)
Goes(s, k, d, own) == Len(own.keys) = 1 /\ k = L1Key(s, own) /\ SetOf(d, L2Key(s, own))
Lives(s, k, d) == d \in Calls /\ \E own \in Targets : Goes(s, k, d, own)

(* A message about k is under way to p.                                    *)
Told(p, s, k) ==
  \E i \in DOMAIN wire[p][s] : wire[p][s][i].of.busId # <<p>> /\ k \in About(wire[p][s][i].of, s)

(* f, which is to end d, is of another process than p and has told it or   *)
(* will.                                                                   *)
Due(p, s, k, f, d) ==
  (f.method # "get" /\ d \in f.olds) => f.proc # p /\ (f.method = "clear" => Told(p, s, k))

(* What p may serve.                                                       *)
Sound(p, s, k, d) ==
  /\ d \in dead => Told(p, s, k)
  /\ \A c \in Running : Due(p, s, k, call[c], d)

Placed(p, s, k) ==
  l1[p][s][k] # None =>
    /\ Lives(s, k, l1[p][s][k].val)
    /\ (l1[p][s][k].valid /\ <<p, s, k>> \notin excused) => Sound(p, s, k, l1[p][s][k].val)

Prepared(f) == f.pc = "fill" => SetOf(f.item, L2Key(f.store, f.target))

L1Inv ==
  /\ \A p \in Procs, s \in StoreNames : \A k \in L1All[s] : Placed(p, s, k)
  /\ \A c \in Running : Prepared(call[c])

----------------------------------------------------------------------------

(* What a call is to end: it covers the key and its notice is about it.    *)
LEMMA OldKey ==
  ASSUME KeysAligned, TypeInv, L2Inv,
         NEW t \in StoreNames, NEW target \in Targets \cup Wholes,
         NEW method \in {"set", "delete", "clear"},
         NEW d \in Calls, call[d].pc = "done", call[d].keys \cap Covered(t, target, method) # {},
         NEW s \in StoreNames, NEW k, Lives(s, k, d)
  PROVE  s = t /\ k \in About(Notice(t, target, method), t)
<1>1. PICK own \in Targets : Goes(s, k, d, own)
  BY DEF Lives
<1> DEFINE r == L2Key(s, own)
<1>2. Len(own.keys) = 1 /\ k = L1Key(s, own) /\ SetOf(d, r)
  BY <1>1 DEF Goes
<1>3. r \in Covered(t, target, method)
  <2> HIDE DEF r
  <2>1. r \in call[d].keys /\ Single(call[d].keys)
    BY <1>2 DEF SetOf, L2Inv
  <2> QED  BY <2>1 DEF Single
<1> QED  BY <1>2, <1>3 DEF KeysAligned

LEMMA RunningOld ==
  ASSUME KeysAligned, TypeInv, L2Inv, NEW c \in Running, call[c].method # "get",
         NEW d \in call[c].olds, NEW s \in StoreNames, NEW k, Lives(s, k, d)
  PROVE  s = call[c].store /\ k \in About(Notice(s, call[c].target, call[c].method), s)
<1> DEFINE f == call[c]
<1>1. /\ d \in Calls /\ call[d].pc = "done"
      /\ call[d].keys \cap Covered(f.store, f.target, f.method) # {}
  BY DEF L2Inv, Sweeping, IsOld
<1>2. f.store \in StoreNames /\ f.target \in Targets \cup Wholes /\ f.method \in {"set", "delete", "clear"}
  <2>1. f \in Frames /\ PlacedCall(f)
    BY RunningCall
  <2>2. f.pc \in {"read", "fill", "write", "remove", "scan", "unlink", "publish"}
    BY <2>1 DEF Frames
  <2> QED  BY <2>1, <2>2 DEF PlacedCall, Frames
<1> HIDE DEF f
<1>3. s = f.store /\ k \in About(Notice(f.store, f.target, f.method), f.store)
  BY <1>1, <1>2, OldKey
<1> QED  BY <1>3 DEF f

LEMMA OwnsSet == \A d, r : Owns(d, r) => SetOf(d, r)
BY DEF Owns, SetOf

(* A call that set a key goes on having set it.                            *)
SetsStay == \A d \in Calls : \A r : SetOf(d, r) => SetOf(d, r)'

LEMMA LivesOn ==
  ASSUME SetsStay, NEW s, NEW k, NEW d, Lives(s, k, d)
  PROVE  Lives(s, k, d)'
<1>1. PICK own \in Targets : Goes(s, k, d, own)
  BY DEF Lives
<1>2. Goes(s, k, d, own)'
  BY <1>1 DEF Goes, SetsStay, Lives
<1> QED  BY <1>2 DEF Lives

(* Messages to p only come.                                                *)
LEMMA ToldOn ==
  ASSUME TypeInv, NEW p \in Procs, NEW s \in StoreNames, NEW k, Told(p, s, k),
         wire'[p][s] = wire[p][s] \/ \E m : wire'[p][s] = Append(wire[p][s], m)
  PROVE  Told(p, s, k)'
<1> DEFINE w == wire[p][s]
<1>1. PICK i \in DOMAIN w : w[i].of.busId # <<p>> /\ k \in About(w[i].of, s)
  BY DEF Told
<1>2. w \in Seq(Carried)
  BY DEF TypeInv
<1>3. i \in DOMAIN wire'[p][s] /\ wire'[p][s][i] = w[i]
  <2>1. CASE wire'[p][s] = w
    BY <2>1
  <2>2. ASSUME NEW m, wire'[p][s] = Append(w, m)
        PROVE  i \in DOMAIN wire'[p][s] /\ wire'[p][s][i] = w[i]
    <3> HIDE DEF w
    <3> QED  BY <1>1, <1>2, <2>2
  <2> QED  BY <2>1, <2>2
<1> QED  BY <1>1, <1>3 DEF Told

----------------------------------------------------------------------------
(* Steps that leave the L1s.                                              *)

(* The value of an L1 is as it was, and announced if it has to be.         *)
Stays(p, s, k, d) ==
  /\ l1[p][s][k] # None /\ l1[p][s][k].val = d /\ l1'[p][s][k].val = d
  /\ (l1'[p][s][k].valid /\ <<p, s, k>> \notin excused') => Sound(p, s, k, d)'

LEMMA L1Step ==
  ASSUME TypeInv, L1Inv, SetsStay,
         \A p \in Procs, s \in StoreNames : \A k \in L1All[s] :
           l1'[p][s][k] = None \/ (\E d : Stays(p, s, k, d)) \/ Placed(p, s, k)',
         \A c \in Running' : Prepared(call[c])' \/ call'[c] = call[c]
  PROVE  L1Inv'
<1>1. ASSUME NEW p \in Procs, NEW s \in StoreNames, NEW k \in L1All[s]  PROVE Placed(p, s, k)'
  <2>1. CASE l1'[p][s][k] = None
    BY <2>1 DEF Placed
  <2>2. ASSUME NEW d, Stays(p, s, k, d)  PROVE Placed(p, s, k)'
    <3>1. Lives(s, k, d)
      BY <2>2 DEF L1Inv, Placed, Stays
    <3>2. Lives(s, k, d)'
      BY <3>1, LivesOn
    <3> QED  BY <2>2, <3>2 DEF Placed, Stays
  <2> QED  BY <2>1, <2>2
<1>2. ASSUME NEW c \in Running'  PROVE Prepared(call[c])'
  <2>1. CASE call'[c] = call[c]
    <3> DEFINE f == call[c]
    <3>1. c \in Running
      BY <2>1 DEF Running
    <3>2. Prepared(f) /\ (f.pc = "fill" => f.item \in Calls)
      BY <3>1, RunningCall DEF L1Inv, PlacedCall
    <3> QED  BY <2>1, <3>2 DEF Prepared, SetsStay
  <2> QED  BY <2>1
<1> QED  BY <1>1, <1>2 DEF L1Inv

(* Other messages stay under way, or come.                                 *)
ToldStays(p, s, k) == Told(p, s, k) => Told(p, s, k)'
SameAccount(c) ==
  /\ c \in Running /\ call'[c].method = call[c].method
  /\ call'[c].olds = call[c].olds /\ call'[c].proc = call[c].proc

LEMMA SoundStays ==
  ASSUME NEW p, NEW s, NEW k, NEW d, Sound(p, s, k, d), ToldStays(p, s, k),
         d \in dead' => d \in dead \/ Told(p, s, k)',
         \A c \in Running' : SameAccount(c) \/ Due(p, s, k, call[c], d)'
  PROVE  Sound(p, s, k, d)'
<1>1. d \in dead' => Told(p, s, k)'
  BY DEF Sound, ToldStays
<1>2. ASSUME NEW c \in Running', SameAccount(c)  PROVE Due(p, s, k, call[c], d)'
  <2>1. Due(p, s, k, call[c], d)
    BY <1>2 DEF Sound, SameAccount
  <2> QED  BY <1>2, <2>1 DEF Due, SameAccount, ToldStays
<1> QED  BY <1>1, <1>2 DEF Sound

(* One call goes on and the L1s are as they were; who is excused stays so. *)
LEMMA AwayStep ==
  ASSUME TypeInv, L1Inv, UNCHANGED l1, excused \subseteq excused', NEW c \in Running,
         \A d \in Calls \ {c} : call'[d] = call[d],
         \A r : SetOf(c, r) => SetOf(c, r)',
         call'[c].pc = "done" \/ (SameAccount(c) /\ Prepared(call[c])'),
         \A p \in Procs, s \in StoreNames : \A k \in L1All[s] : ToldStays(p, s, k),
         \A p \in Procs, s \in StoreNames : \A k \in L1All[s] : \A d \in Calls :
           (l1[p][s][k] # None /\ l1[p][s][k].val = d /\ Lives(s, k, d)
            /\ Sound(p, s, k, d) /\ d \in dead' /\ <<p, s, k>> \notin excused')
             => d \in dead \/ Told(p, s, k)'
  PROVE  L1Inv'
<1>1. SetsStay
  <2> SUFFICES ASSUME NEW d \in Calls, NEW r, SetOf(d, r)  PROVE SetOf(d, r)'
    BY DEF SetsStay
  <2>1. CASE d = c
    BY <2>1
  <2>2. CASE d # c
    BY <2>2 DEF SetOf
  <2> QED  BY <2>1, <2>2
<1>3. ASSUME NEW p \in Procs, NEW s \in StoreNames, NEW k \in L1All[s]
      PROVE  l1'[p][s][k] = None \/ (\E d : Stays(p, s, k, d)) \/ Placed(p, s, k)'
  <2>1. CASE l1[p][s][k] # None
    <3>1. PICK d : d = l1[p][s][k].val
      OBVIOUS
    <3>2. Lives(s, k, d) /\ d \in Calls
      BY <2>1, <3>1 DEF L1Inv, Placed, Lives
    <3>3. ASSUME l1'[p][s][k].valid, <<p, s, k>> \notin excused'  PROVE Sound(p, s, k, d)'
      <4>1. Sound(p, s, k, d)
        BY <2>1, <3>1, <3>3 DEF L1Inv, Placed
      <4>2. d \in dead' => d \in dead \/ Told(p, s, k)'
        BY <2>1, <3>1, <3>2, <3>3, <4>1
      <4>3. ASSUME NEW e \in Running'
            PROVE  SameAccount(e) \/ Due(p, s, k, call[e], d)'
        <5>1. CASE e = c
          BY <5>1 DEF Running
        <5>2. CASE e # c
          BY <5>2 DEF Running, SameAccount
        <5> QED  BY <5>1, <5>2
      <4>4. ToldStays(p, s, k)
        OBVIOUS
      <4> QED  BY <4>1, <4>2, <4>3, <4>4, SoundStays
    <3>4. Stays(p, s, k, d)
      BY <2>1, <3>1, <3>3 DEF Stays
    <3> QED  BY <3>4
  <2>2. CASE l1[p][s][k] = None
    BY <2>2
  <2> QED  BY <2>1, <2>2
<1>4. \A e \in Running' : Prepared(call[e])' \/ call'[e] = call[e]
  BY DEF Running
<1> QED  BY <1>1, <1>3, <1>4, L1Step

----------------------------------------------------------------------------
(* Messages that are sent.                                                *)

LEMMA PublishStays ==
  ASSUME TypeInv, NEW p, NEW stores, NEW type, NEW target, Publish(p, stores, type, target),
         NEW q \in Procs, NEW s \in StoreNames, NEW k
  PROVE  ToldStays(q, s, k)
<1> DEFINE message == [busId |-> <<p>>, type |-> type, keys |-> target.keys,
                       namespace |-> L1Prefix[s][target.path]]
           m == [bytes |-> Encode(message), of |-> message]
<1>1. wire'[q][s] = IF s \notin stores \/ q = p \/ s \notin subscribed[q] THEN wire[q][s]
                    ELSE Append(wire[q][s], m)
  BY DEF Publish
<1> HIDE DEF m
<1>2. wire'[q][s] = wire[q][s] \/ \E x : wire'[q][s] = Append(wire[q][s], x)
  BY <1>1
<1> QED  BY <1>2, ToldOn DEF ToldStays

(* Whoever is subscribed is told, but for the sender.                      *)
LEMMA PublishTold ==
  ASSUME TypeInv, NEW p \in Procs, NEW stores, NEW type, NEW target, Publish(p, stores, type, target),
         NEW q \in Procs \ {p}, NEW s \in StoreNames, s \in stores, s \in subscribed[q],
         NEW k \in About(Notice(s, target, type), s)
  PROVE  Told(q, s, k)'
<1> DEFINE message == [busId |-> <<p>>, type |-> type, keys |-> target.keys,
                       namespace |-> L1Prefix[s][target.path]]
           m == [bytes |-> Encode(message), of |-> message]
           w == wire[q][s]
<1>1. wire'[q][s] = Append(w, m)
  BY DEF Publish
<1>2. k \in About(message, s) /\ message.busId # <<q>>
  BY DEF About, Notice
<1>3. m.of = message
  OBVIOUS
<1> HIDE DEF m, message
<1>4. w \in Seq(Carried)
  BY DEF TypeInv
<1> HIDE DEF w
<1> DEFINE i == Len(w) + 1
<1>5. i \in DOMAIN wire'[q][s] /\ wire'[q][s][i] = m
  BY <1>1, <1>4
<1> HIDE DEF i
<1> QED  BY <1>2, <1>3, <1>5 DEF Told

(* So is whoever holds an item the message is about, or is excused.        *)
LEMMA HolderTold ==
  ASSUME TypeInv, NEW p \in Procs, NEW stores, NEW type, NEW target, NEW removed,
         Publish(p, stores, type, target), Excuse(Missed(p, stores, type, target), removed),
         NEW q \in Procs \ {p}, NEW s \in StoreNames, s \in stores,
         NEW k \in L1All[s], k \in About(Notice(s, target, type), s),
         l1[q][s][k] # None, <<q, s, k>> \notin excused'
  PROVE  Told(q, s, k)'
<1>1. s \notin subscribed[q] => <<q, s, k>> \in Missed(p, stores, type, target)
  <2> DEFINE places(x, t) ==
        {<<x, t, j>> : j \in {j \in L1All[t] \cap About(Notice(t, target, type), t) :
                              t \notin subscribed[x] /\ l1[x][t][j] # None}}
  <2>1. s \notin subscribed[q] => <<q, s, k>> \in places(q, s)
    OBVIOUS
  <2>2. Missed(p, stores, type, target) = UNION {places(x, t) : x \in Procs \ {p}, t \in stores}
    BY DEF Missed
  <2> HIDE DEF places
  <2> QED  BY <2>1, <2>2
<1>2. s \in subscribed[q]
  BY <1>1 DEF Excuse
<1> QED  BY <1>2, PublishTold

LEMMA WireStays ==
  ASSUME TypeInv, UNCHANGED wire, NEW p \in Procs, NEW s \in StoreNames, NEW k
  PROVE  ToldStays(p, s, k)
BY ToldOn DEF ToldStays

(* What the end of a call changes.                                         *)
LEMMA EndsFacts ==
  ASSUME TypeInv, NEW c \in Running, Ends(c)
  PROVE  /\ call'[c].pc = "done" /\ \A d \in Calls \ {c} : call'[d] = call[d]
         /\ call[c].method = "set" => call'[c].keys = L2Keys[call[c].store][call[c].target]
         /\ call[c].method # "set" => call'[c].keys = {}
         /\ call[c].method = "get" => dead' = dead
         /\ call[c].method # "get" => dead' = dead \cup call[c].olds
<1> DEFINE keys == IF call[c].method = "set"
                     THEN L2Keys[call[c].store][call[c].target] ELSE {}
<1>1. call'[c] = [pc |-> "done", keys |-> keys]
  BY EndsType
<1>2. call'[c].pc = "done" /\ call'[c].keys = keys
  <2> HIDE DEF keys
  <2> QED  BY <1>1
<1> QED  BY <1>2, EndsType

LEMMA EndsSets ==
  ASSUME TypeInv, NEW c \in Running, Ends(c), NEW r, SetOf(c, r)
  PROVE  SetOf(c, r)'
<1>1. call[c].method = "set" /\ r \in L2Keys[call[c].store][call[c].target]
  BY DEF SetOf, Running
<1>2. call'[c].pc = "done" /\ r \in call'[c].keys
  BY <1>1, EndsFacts
<1> QED  BY <1>2 DEF SetOf

(* A clear that ends has told of what it ended.                            *)
LEMMA ClearEndsL1 ==
  ASSUME TypeInv, L1Inv, NEW c \in Calls, ClearRows(c) \/ (ScanL2(c) /\ Ends(c))
  PROVE  L1Inv'
<1>1. call[c].pc = "scan" /\ Ends(c) /\ UNCHANGED <<siteVars, l1, wire, excused>>
  BY DEF ClearRows, ScanL2
<1>2. c \in Running /\ call[c].method = "clear"
  <2>1. c \in Running
    BY <1>1, Under
  <2> QED  BY <1>1, <2>1, RunningCall DEF PlacedCall
<1>3. /\ \A d \in Calls \ {c} : call'[d] = call[d]
      /\ call'[c].pc = "done" /\ dead' = dead \cup call[c].olds
  BY <1>1, <1>2, EndsFacts
<1>4. ASSUME NEW p \in Procs, NEW s \in StoreNames, NEW k, NEW d,
             Sound(p, s, k, d), d \in dead', d \notin dead
      PROVE  Told(p, s, k)'
  <2>1. Told(p, s, k)
    BY <1>2, <1>3, <1>4 DEF Sound, Due
  <2> QED  BY <1>1, <2>1, WireStays DEF ToldStays
<1>5. \A p \in Procs, s \in StoreNames : \A k \in L1All[s] : ToldStays(p, s, k)
  BY <1>1, WireStays
<1>6. \A r : SetOf(c, r) => SetOf(c, r)'
  BY <1>1, <1>2, EndsSets
<1>7. UNCHANGED l1 /\ excused \subseteq excused'
  BY <1>1
<1> QED  BY <1>2, <1>3, <1>4, <1>5, <1>6, <1>7, AwayStep

LEMMA NotifyL1 ==
  ASSUME KeysAligned, TypeInv, L2Inv, L1Inv, NEW c \in Calls, Notify(c)
  PROVE  L1Inv'
<1> DEFINE f == call[c]
<1>1. /\ f.pc = "publish" /\ Publish(f.proc, {f.store}, f.method, f.target)
      /\ Excuse(Missed(f.proc, {f.store}, f.method, f.target), {})
      /\ Ends(c) /\ UNCHANGED l1
  BY DEF Notify
<1>2. c \in Running /\ f.method # "get" /\ f.proc \in Procs
  <2>1. c \in Running
    BY <1>1, Under
  <2> QED  BY <1>1, <2>1, RunningCall DEF PlacedCall
<1>3. /\ \A d \in Calls \ {c} : call'[d] = call[d]
      /\ call'[c].pc = "done" /\ dead' = dead \cup f.olds
  BY <1>1, <1>2, EndsFacts
<1>4. ASSUME NEW p \in Procs, NEW s \in StoreNames, NEW k \in L1All[s], NEW d \in Calls,
             l1[p][s][k] # None, <<p, s, k>> \notin excused',
             Lives(s, k, d), Sound(p, s, k, d), d \in dead', d \notin dead
      PROVE  Told(p, s, k)'
  <2>1. d \in f.olds /\ f.proc # p
    BY <1>2, <1>3, <1>4 DEF Sound, Due
  <2>2. s = f.store /\ k \in About(Notice(s, f.target, f.method), s)
    BY <1>2, <1>4, <2>1, RunningOld
  <2> DEFINE q == f.proc  target == f.target  method == f.method  stores == {f.store}
  <2>3. /\ q \in Procs /\ Publish(q, stores, method, target) /\ p \in Procs \ {q} /\ s \in stores
        /\ k \in About(Notice(s, target, method), s)
        /\ Excuse(Missed(q, stores, method, target), {})
    BY <1>1, <1>2, <2>1, <2>2
  <2> HIDE DEF f, q, target, method, stores
  <2> QED  BY <1>4, <2>3, HolderTold
<1>5. \A p \in Procs, s \in StoreNames : \A k \in L1All[s] : ToldStays(p, s, k)
  <2> DEFINE q == f.proc  target == f.target  method == f.method  stores == {f.store}
  <2>1. Publish(q, stores, method, target)
    BY <1>1
  <2> HIDE DEF f, q, target, method, stores
  <2> QED  BY <2>1, PublishStays
<1>6. \A r : SetOf(c, r) => SetOf(c, r)'
  BY <1>1, <1>2, EndsSets
<1>7. UNCHANGED l1 /\ excused \subseteq excused'
  BY <1>1 DEF Excuse
<1> HIDE DEF f
<1> QED  BY <1>2, <1>3, <1>4, <1>5, <1>6, <1>7, AwayStep

----------------------------------------------------------------------------
(* Answers of L2.                                                         *)

(* One call goes on, not to its end, and tells nobody.                     *)
LEMMA GoesOnL1 ==
  ASSUME TypeInv, L1Inv, UNCHANGED <<l1, wire, dead, excused>>,
         NEW c \in Running, NEW g, call' = [call EXCEPT ![c] = g],
         g.method = call[c].method, g.olds = call[c].olds, g.proc = call[c].proc,
         g.store = call[c].store, g.target = call[c].target,
         g.method = "set" => g.pc = "publish",
         g.pc = "fill" => g.item \in Calls /\ SetOf(g.item, L2Key(g.store, g.target))
  PROVE  L1Inv'
<1>1. call'[c] = g /\ \A d \in Calls \ {c} : call'[d] = call[d]
  BY DEF TypeInv, Running
<1>2. \A r : SetOf(c, r) => SetOf(c, r)'
  BY <1>1 DEF SetOf, Running
<1>3. SameAccount(c)
  BY <1>1 DEF SameAccount
<1>4. Prepared(call[c])'
  <2>2. g.pc = "fill" => SetOf(g.item, L2Key(g.store, g.target))'
    <3> SUFFICES ASSUME g.pc = "fill"  PROVE SetOf(g.item, L2Key(g.store, g.target))'
      OBVIOUS
    <3>1. PICK d \in Calls : d = g.item
      OBVIOUS
    <3>2. CASE d = c
      BY <1>2, <3>1, <3>2
    <3>3. CASE d # c
      BY <1>1, <3>1, <3>3 DEF SetOf
    <3> QED  BY <3>2, <3>3
  <2> QED  BY <1>1, <2>2 DEF Prepared
<1>5. \A p \in Procs, s \in StoreNames : \A k \in L1All[s] : ToldStays(p, s, k)
  BY WireStays
<1> QED  BY <1>1, <1>2, <1>3, <1>4, <1>5, AwayStep

LEMMA ReadL2L1 ==
  ASSUME TypeInv, L2Inv, L1Inv, NEW c \in Calls, ReadL2(c)
  PROVE  L1Inv'
<1> DEFINE f == call[c]  key == L2Key(f.store, f.target)  value == l2[key]
           g == [f EXCEPT !.pc = "fill", !.item = value]
<1>1. /\ f.pc = "read"
      /\ \/ value = None /\ Ends(c)
         \/ value # None /\ call' = [call EXCEPT ![c] = g] /\ UNCHANGED dead
      /\ UNCHANGED <<siteVars, l1, wire, excused>>
  BY DEF ReadL2
<1>2. c \in Running
  BY <1>1, Under
<1>3. /\ f \in Frames /\ f.method = "get" /\ f.store \in StoreNames /\ f.target \in Targets
      /\ Len(f.target.keys) = 1
  BY <1>1, <1>2, RunningCall DEF PlacedCall, OneKey
<1>4. key \in L2All
  BY <1>3, OneL1Key
<1>5. \A p \in Procs, s \in StoreNames : \A k \in L1All[s] : ToldStays(p, s, k)
  BY <1>1, WireStays
<1>6. CASE Ends(c)
  <2>1. call'[c].pc = "done" /\ dead' = dead /\ \A d \in Calls \ {c} : call'[d] = call[d]
    BY <1>2, <1>3, <1>6, EndsFacts
  <2>2. \A r : SetOf(c, r) => SetOf(c, r)'
    BY <1>2, <1>6, EndsSets
  <2> HIDE DEF f
  <2> QED  BY <1>1, <1>2, <1>5, <2>1, <2>2, AwayStep
<1>7. CASE value # None /\ call' = [call EXCEPT ![c] = g] /\ UNCHANGED dead
  <2>1. value \in Calls /\ SetOf(value, key)
    <3> HIDE DEF key
    <3>1. value \in Calls \cup {None}
      BY <1>4 DEF TypeInv
    <3>2. Owns(value, key)
      BY <1>4, <1>7 DEF L2Inv
    <3> QED  BY <1>7, <3>1, <3>2, OwnsSet
  <2> HIDE DEF value
  <2>2. /\ g.pc = "fill" /\ g.item = value /\ g.method = f.method /\ g.olds = f.olds
        /\ g.proc = f.proc /\ g.store = f.store /\ g.target = f.target
    <3> HIDE DEF f
    <3> QED  BY <1>3 DEF Frames
  <2> HIDE DEF g
  <2> QED  BY <1>1, <1>2, <1>3, <1>7, <2>1, <2>2, GoesOnL1
<1> QED  BY <1>1, <1>6, <1>7

LEMMA WriteL2L1 ==
  ASSUME TypeInv, L1Inv, NEW c \in Calls, WriteL2(c)
  PROVE  L1Inv'
<1> DEFINE f == call[c]  g == [f EXCEPT !.pc = "publish"]
<1>1. /\ f.pc = "write" /\ call' = [call EXCEPT ![c] = g]
      /\ UNCHANGED <<siteVars, l1, wire, dead, excused>>
  BY DEF WriteL2, Goto
<1>2. c \in Running
  BY <1>1, Under
<1>3. f \in Frames
  BY <1>2, RunningCall
<1>4. /\ g.pc = "publish" /\ g.method = f.method /\ g.olds = f.olds /\ g.proc = f.proc
      /\ g.store = f.store /\ g.target = f.target
  <2> HIDE DEF f
  <2> QED  BY <1>3 DEF Frames
<1> HIDE DEF g
<1> QED  BY <1>1, <1>2, <1>4, GoesOnL1

LEMMA RemoveL2L1 ==
  ASSUME TypeInv, L1Inv, NEW c \in Calls, RemoveL2(c)
  PROVE  L1Inv'
<1> DEFINE f == call[c]
<1>1. f.pc = "remove" /\ UNCHANGED <<siteVars, l1, wire, dead, excused>>
  BY DEF RemoveL2
<1>2. PICK keys \in SUBSET f.left :
        call' = [call EXCEPT ![c].left = @ \ keys,
                             ![c].pc = IF keys = call[c].left THEN "publish" ELSE "remove"]
  BY DEF RemoveL2
<1> DEFINE stage == IF keys = f.left THEN "publish" ELSE "remove"
           g == [f EXCEPT !.left = f.left \ keys, !.pc = stage]
<1>3. c \in Running
  BY <1>1, Under
<1>4. f \in Frames /\ f.method = "delete"
  BY <1>1, <1>3, RunningCall DEF PlacedCall
<1>5. call' = [call EXCEPT ![c] = g] /\ stage # "fill"
  BY <1>2
<1> HIDE DEF stage
<1>6. /\ g.pc = stage /\ g.method = f.method /\ g.olds = f.olds /\ g.proc = f.proc
      /\ g.store = f.store /\ g.target = f.target
  <2> HIDE DEF f
  <2> QED  BY <1>4 DEF Frames
<1> HIDE DEF g
<1> QED  BY <1>1, <1>3, <1>4, <1>5, <1>6, GoesOnL1

LEMMA UnlinkL1 ==
  ASSUME TypeInv, L1Inv, NEW c \in Calls, Unlink(c)
  PROVE  L1Inv'
<1> DEFINE f == call[c]
<1>1. c \in Running /\ f.pc = "unlink" /\ UNCHANGED <<siteVars, l1, wire, dead, excused>>
  BY Unlinked
<1>2. PICK k \in f.left :
        call' = [call EXCEPT ![c] = [f EXCEPT !.left = f.left \ {k},
                   !.pc = IF f.left = {k} THEN "scan" ELSE "unlink"]]
  BY Unlinked
<1> DEFINE stage == IF f.left = {k} THEN "scan" ELSE "unlink"
           g == [f EXCEPT !.left = f.left \ {k}, !.pc = stage]
<1>3. f \in Frames /\ f.method = "clear"
  BY <1>1, RunningCall DEF PlacedCall
<1>4. call' = [call EXCEPT ![c] = g] /\ stage # "fill"
  BY <1>2
<1> HIDE DEF stage
<1>5. /\ g.pc = stage /\ g.method = f.method /\ g.olds = f.olds /\ g.proc = f.proc
      /\ g.store = f.store /\ g.target = f.target
  <2> HIDE DEF f
  <2> QED  BY <1>3 DEF Frames
<1> HIDE DEF g
<1> QED  BY <1>1, <1>3, <1>4, <1>5, GoesOnL1

LEMMA ScanL2L1 ==
  ASSUME TypeInv, L1Inv, NEW c \in Calls, ScanL2(c)
  PROVE  L1Inv'
<1> DEFINE f == call[c]  stored == Items(L2Prefix[f.store][f.target.path])
<1>1. c \in Running /\ f.pc = "scan" /\ UNCHANGED <<siteVars, l1, wire, excused>>
  BY Scanned
<1>2. f \in Frames /\ f.method = "clear"
  BY <1>1, RunningCall DEF PlacedCall
<1>3. CASE Ends(c)
  BY <1>3, ClearEndsL1
<1>4. ASSUME UNCHANGED dead, NEW page \in SUBSET stored,
             call' = [call EXCEPT ![c] = [f EXCEPT !.pc = "unlink",
               !.seen = (f.seen \cap stored) \ page, !.left = {item[1] : item \in page}]]
      PROVE  L1Inv'
  <2> DEFINE seen == (f.seen \cap stored) \ page  left == {item[1] : item \in page}
             g == [f EXCEPT !.pc = "unlink", !.seen = seen, !.left = left]
  <2>1. call' = [call EXCEPT ![c] = g]
    BY <1>4
  <2> HIDE DEF seen, left
  <2>2. /\ g.pc = "unlink" /\ g.method = f.method /\ g.olds = f.olds /\ g.proc = f.proc
        /\ g.store = f.store /\ g.target = f.target
    <3> HIDE DEF f
    <3> QED  BY <1>2 DEF Frames
  <2> HIDE DEF g
  <2> QED  BY <1>1, <1>2, <1>4, <2>1, <2>2, GoesOnL1
<1> HIDE DEF stored
<1> QED  BY <1>3, <1>4, Scanned DEF stored

----------------------------------------------------------------------------
(* Calls that begin.                                                      *)

(* c has begun, or ended at once.                                          *)
Started(c) ==
  LET f == call'[c] IN
  \/ f.pc = "done"
  \/ /\ f.pc \in {"read", "write", "remove", "scan"}
     /\ f.store \in StoreNames /\ f.target \in Targets \cup Wholes
     /\ f.method \in {"get", "set", "delete", "clear"}
     /\ f.method # "get" =>
          f.olds = {d \in Calls : /\ call[d].pc = "done"
                                  /\ call[d].keys \cap Covered(f.store, f.target, f.method) # {}}

(* What c, which began, does about a place that keeps its item.            *)
Minds(c, q, t, k) ==
  LET f == call'[c] IN
  (f.method # "get" /\ t = f.store /\ k \in About(Notice(t, f.target, f.method), t))
    => f.proc # q /\ (f.method = "clear" => Told(q, t, k)')

Kept(q, t, k) ==
  /\ l1'[q][t][k] = l1[q][t][k] /\ ToldStays(q, t, k)
  /\ <<q, t, k>> \notin excused' =>
       /\ <<q, t, k>> \notin excused
       /\ \A c \in Calls : call'[c] = call[c] \/ call'[c].pc = "done" \/ Minds(c, q, t, k)

LEMMA BeginSets ==
  ASSUME \A c \in Calls : call'[c] = call[c] \/ call[c].pc = "idle"
  PROVE  SetsStay
<1> SUFFICES ASSUME NEW d \in Calls, NEW r, SetOf(d, r)  PROVE SetOf(d, r)'
  BY DEF SetsStay
<1>1. call[d].pc # "idle"
  BY DEF SetOf
<1>2. call'[d] = call[d]
  BY <1>1
<1> QED  BY <1>2 DEF SetOf

LEMMA BegunDue ==
  ASSUME KeysAligned, TypeInv, L2Inv, NEW c \in Calls, Started(c), call'[c].pc # "done",
         NEW q, NEW t \in StoreNames, NEW k, NEW d, Lives(t, k, d), Minds(c, q, t, k)
  PROVE  Due(q, t, k, call[c], d)'
<1>1. PICK f : f = call'[c]
  OBVIOUS
<1>2. ASSUME f.method # "get", d \in f.olds
      PROVE  f.proc # q /\ (f.method = "clear" => Told(q, t, k)')
  <2>1. /\ f.store \in StoreNames /\ f.target \in Targets \cup Wholes
        /\ f.method \in {"set", "delete", "clear"} /\ d \in Calls /\ call[d].pc = "done"
        /\ call[d].keys \cap Covered(f.store, f.target, f.method) # {}
    BY <1>1, <1>2 DEF Started
  <2>2. t = f.store /\ k \in About(Notice(f.store, f.target, f.method), f.store)
    BY <2>1, OldKey
  <2> QED  BY <1>1, <1>2, <2>2 DEF Minds
<1> QED  BY <1>1, <1>2 DEF Due

LEMMA BeginsL1 ==
  ASSUME KeysAligned, TypeInv, L2Inv, L1Inv, UNCHANGED dead,
         \A c \in Calls : call'[c] = call[c] \/ (call[c].pc = "idle" /\ Started(c)),
         \A q \in Procs, t \in StoreNames : \A k \in L1All[t] :
           l1'[q][t][k] = None \/ Kept(q, t, k) \/ Placed(q, t, k)'
  PROVE  L1Inv'
<1>1. SetsStay
  BY BeginSets
<1>2. ASSUME NEW q \in Procs, NEW t \in StoreNames, NEW k \in L1All[t],
             Kept(q, t, k), l1'[q][t][k] # None
      PROVE  \E d : Stays(q, t, k, d)
  <2>1. PICK d : d = l1[q][t][k].val
    OBVIOUS
  <2>2. l1'[q][t][k] = l1[q][t][k] /\ Lives(t, k, d) /\ ToldStays(q, t, k)
    BY <1>2, <2>1 DEF Kept, L1Inv, Placed
  <2>3. ASSUME l1'[q][t][k].valid, <<q, t, k>> \notin excused'  PROVE Sound(q, t, k, d)'
    <3>1. Sound(q, t, k, d)
      BY <1>2, <2>1, <2>2, <2>3 DEF Kept, L1Inv, Placed
    <3>2. ASSUME NEW e \in Running'  PROVE SameAccount(e) \/ Due(q, t, k, call[e], d)'
      <4>1. CASE call'[e] = call[e]
        BY <4>1 DEF Running, SameAccount
      <4>2. CASE call'[e] # call[e]
        <5>1. e \in Calls /\ call'[e].pc # "done" /\ Started(e) /\ Minds(e, q, t, k)
          BY <1>2, <2>3, <4>2 DEF Running, Kept
        <5> QED  BY <2>2, <5>1, BegunDue
      <4> QED  BY <4>1, <4>2
    <3>3. d \in dead' => d \in dead
      OBVIOUS
    <3> QED  BY <2>2, <3>1, <3>2, <3>3, SoundStays
  <2>4. Stays(q, t, k, d)
    BY <1>2, <2>1, <2>2, <2>3 DEF Stays
  <2> QED  BY <2>4
<1>3. \A c \in Running' : Prepared(call[c])' \/ call'[c] = call[c]
  <2> SUFFICES ASSUME NEW c \in Running', call'[c] # call[c]  PROVE Prepared(call[c])'
    OBVIOUS
  <2>1. c \in Calls /\ call'[c].pc # "done" /\ Started(c)
    BY DEF Running
  <2>2. call'[c].pc # "fill"
    BY <2>1 DEF Started
  <2> QED  BY <2>2 DEF Prepared
<1>4. \A q \in Procs, t \in StoreNames : \A k \in L1All[t] :
        l1'[q][t][k] = None \/ (\E d : Stays(q, t, k, d)) \/ Placed(q, t, k)'
  BY <1>2
<1> QED  BY <1>1, <1>3, <1>4, L1Step

(* What the first step of a get, set or delete leaves.                     *)
LEMMA BeginStarted ==
  ASSUME TypeInv, NEW c \in Calls, NEW p \in Procs, NEW s \in StoreNames,
         NEW target \in Targets, NEW method \in {"get", "set", "delete"},
         NEW stage \in {"read", "write", "remove", "done"},
         stage = "read" => method = "get" /\ Len(target.keys) = 1,
         stage = "write" => method = "set" /\ Len(target.keys) = 1,
         stage = "remove" => method = "delete",
         Begin(c, p, s, target, method, stage)
  PROVE  /\ call[c].pc = "idle" /\ \A d \in Calls \ {c} : call'[d] = call[d]
         /\ Started(c)
         /\ \/ stage = "done" /\ call'[c].pc = "done"
            \/ /\ call'[c].pc = stage /\ call'[c].method = method /\ call'[c].proc = p
               /\ call'[c].store = s /\ call'[c].target = target
<1> DEFINE f == Frame(p, s, target, method, stage)
<1>1. method \in MessageTypes \cup {"get"}
  BY DEF MessageTypes
<1>2. call[c].pc = "idle" /\ call'[c] = f /\ \A d \in Calls \ {c} : call'[d] = call[d]
  BY <1>1, BeginType
<1>3. target \in Targets \cup Wholes
  OBVIOUS
<1>5. /\ stage = "done" => f = [pc |-> "done", keys |-> {}]
      /\ stage # "done" => Begun(f, p, s, target, method, stage)
  BY <1>1, <1>3, FrameType
<1> HIDE DEF f
<1>6. CASE stage = "done"
  <2>1. call'[c].pc = "done"
    BY <1>2, <1>5, <1>6
  <2> QED  BY <1>2, <1>6, <2>1 DEF Started
<1>7. CASE stage # "done"
  BY <1>2, <1>3, <1>5, <1>7 DEF Started, Begun
<1> QED  BY <1>6, <1>7

LEMMA GetL1 ==
  ASSUME KeysAligned, TypeInv, L2Inv, L1Inv, NEW c \in Calls, NEW p \in Procs,
         NEW s \in StoreNames, NEW target \in Targets, Get(c, p, s, target)
  PROVE  L1Inv'
<1> DEFINE e == l1[p][s][L1Key(s, target)]
           stage == IF e # None /\ e.valid THEN "done" ELSE "read"
<1>1. /\ Len(target.keys) = 1 /\ Begin(c, p, s, target, "get", stage)
      /\ UNCHANGED <<l1, l2, wire, dead, excused>>
  BY DEF Get
<1>2. stage \in {"read", "done"}
  OBVIOUS
<1> HIDE DEF stage
<1>3. /\ call[c].pc = "idle" /\ \A d \in Calls \ {c} : call'[d] = call[d]
      /\ Started(c)
      /\ call'[c].pc = "done" \/ call'[c].method = "get"
  BY <1>1, <1>2, BeginStarted
<1>4. ASSUME NEW q \in Procs, NEW t \in StoreNames, NEW k \in L1All[t]  PROVE Kept(q, t, k)
  <2>1. ToldStays(q, t, k)
    BY <1>1, WireStays
  <2>2. call'[c].pc = "done" \/ Minds(c, q, t, k)
    BY <1>3 DEF Minds
  <2> QED  BY <1>1, <1>3, <2>1, <2>2 DEF Kept
<1> QED  BY <1>1, <1>3, <1>4, BeginsL1

(* An item that is as it was is excused as it was.                         *)
LEMMA StillExcused ==
  ASSUME NEW p, NEW stores, NEW added, Excuse(added, Changed(p, stores)), NEW q, NEW t, NEW k,
         l1'[q][t][k] = l1[q][t][k], <<q, t, k>> \in excused
  PROVE  <<q, t, k>> \in excused'
<1>1. <<q, t, k>> \notin Changed(p, stores)
  BY DEF Changed
<1> QED  BY <1>1 DEF Excuse

LEMMA NewlyExcused ==
  ASSUME NEW p, NEW s, Excuse({}, Changed(p, {s})), NEW k \in L1All[s],
         l1'[p][s][k] # l1[p][s][k]
  PROVE  <<p, s, k>> \notin excused'
<1>1. <<p, s, k>> \in Changed(p, {s})
  BY DEF Changed
<1> QED  BY <1>1 DEF Excuse

(* A value nobody is to end may be served.                                 *)
LEMMA NobodysOld ==
  ASSUME TypeInv, L2Inv, NEW d \in Calls, call[d].pc # "done", UNCHANGED dead,
         \A c \in Running' :
           call'[c] = call[c] \/ call'[c].method = "get" \/ d \notin call'[c].olds,
         NEW p, NEW s, NEW k
  PROVE  Sound(p, s, k, d)'
<1>1. d \notin dead'
  BY DEF L2Inv
<1>2. ASSUME NEW c \in Running'  PROVE Due(p, s, k, call[c], d)'
  <2>1. CASE call'[c] = call[c]
    <3>1. c \in Running /\ (call[c].method # "get" => d \notin call[c].olds)
      BY <2>1 DEF Running, L2Inv, Sweeping, IsOld
    <3> QED  BY <2>1, <3>1 DEF Due
  <2>2. CASE call'[c].method = "get" \/ d \notin call'[c].olds
    BY <2>2 DEF Due
  <2> QED  BY <2>1, <2>2
<1> QED  BY <1>1, <1>2 DEF Sound

LEMMA NoticeAbout ==
  ASSUME NEW s \in StoreNames, NEW target \in Targets \cup Wholes, NEW method
  PROVE  /\ method # "clear" => About(Notice(s, target, method), s) = L1Keys[s][target]
         /\ method = "clear" => About(Notice(s, target, method), s) =
              {k \in L1All[s] : StartsWith(L1Prefix[s][target.path], k)}
<1> DEFINE m == Notice(s, target, method)
<1>1. m.type = method /\ m.keys = target.keys /\ m.namespace = L1Prefix[s][target.path]
  BY DEF Notice
<1> HIDE DEF m
<1>2. L1Keys[s][target] = {ItemKey(L1Prefix[s][target.path], target.keys[i]) : i \in DOMAIN target.keys}
  BY KeyTypes
<1> QED  BY <1>1, <1>2 DEF About, m

LEMMA SetL1 ==
  ASSUME KeysAligned, TypeInv, L2Inv, L1Inv, NEW c \in Calls, NEW p \in Procs,
         NEW s \in StoreNames, NEW target \in Targets, Set(c, p, s, target)
  PROVE  L1Inv'
<1> DEFINE key == L1Key(s, target)  entry == [val |-> c, valid |-> TRUE]
<1>1. /\ Len(target.keys) = 1 /\ Begin(c, p, s, target, "set", "write")
      /\ \E items \in Put(l1[p][s], key, entry) : WriteL1(p, s, items)
      /\ Excuse({}, Changed(p, {s})) /\ UNCHANGED <<l2, wire, dead>>
  BY DEF Set
<1>2. /\ key \in L1All[s] /\ L1Keys[s][target] = {key}
      /\ L2Keys[s][target] = {L2Key(s, target)} /\ L2Key(s, target) \in L2All
  BY <1>1, OneL1Key
<1>3. entry \in Entries /\ entry.val = c /\ entry.valid /\ l1[p][s] \in Tables(s)
  BY DEF Entries, TypeInv
<1>4. /\ call[c].pc = "idle" /\ \A d \in Calls \ {c} : call'[d] = call[d]
      /\ Started(c)
      /\ call'[c].pc = "write" /\ call'[c].method = "set" /\ call'[c].proc = p
      /\ call'[c].store = s /\ call'[c].target = target
  BY <1>1, BeginStarted
<1>5. key = L1Key(s, target)
  OBVIOUS
<1> HIDE DEF key, entry
<1>6. PICK items \in Put(l1[p][s], key, entry) : WriteL1(p, s, items)
  BY <1>1
<1>7. /\ items \in Tables(s) /\ items[key] = entry
      /\ \A k \in L1All[s] : k # key => items[k] \in {l1[p][s][k], None}
  BY <1>2, <1>3, PutType
<1>8. /\ l1'[p][s] = items
      /\ \A q \in Procs, t \in StoreNames : q # p \/ t # s => l1'[q][t] = l1[q][t]
  BY <1>6, <1>7, WriteType
<1>9. Placed(p, s, key)'
  <2>1. SetOf(c, L2Key(s, target))'
    BY <1>2, <1>4 DEF SetOf
  <2>2. Goes(s, key, c, target)'
    BY <1>1, <1>5, <2>1 DEF Goes
  <2>3. Lives(s, key, c)'
    BY <2>2 DEF Lives
  <2>4. Sound(p, s, key, c)'
    <3>1. c \notin call'[c].olds
      BY <1>4 DEF Started
    <3>2. \A d \in Running' :
            call'[d] = call[d] \/ call'[d].method = "get" \/ c \notin call'[d].olds
      BY <1>4, <3>1 DEF Running
    <3> QED  BY <1>1, <1>4, <3>2, NobodysOld
  <2> QED  BY <1>3, <1>4, <1>7, <1>8, <2>3, <2>4 DEF Placed
<1>10. ASSUME NEW q \in Procs, NEW t \in StoreNames, NEW k \in L1All[t],
              l1'[q][t][k] # None, ~ (q = p /\ t = s /\ k = key)
       PROVE  Kept(q, t, k)
  <2>1. l1'[q][t][k] = l1[q][t][k]
    <3>1. CASE q = p /\ t = s
      BY <1>7, <1>8, <1>10, <3>1
    <3>2. CASE ~ (q = p /\ t = s)
      BY <1>8, <3>2
    <3> QED  BY <3>1, <3>2
  <2>2. <<q, t, k>> \notin excused' => <<q, t, k>> \notin excused
    BY <1>1, <2>1, StillExcused
  <2>3. ToldStays(q, t, k)
    BY <1>1, WireStays
  <2>4. Minds(c, q, t, k)
    <3>1. About(Notice(s, target, "set"), s) = {key}
      <4>1. target \in Targets \cup Wholes
        OBVIOUS
      <4> QED  BY <1>2, <4>1, NoticeAbout
    <3> QED  BY <1>4, <1>10, <3>1 DEF Minds
  <2> QED  BY <1>4, <2>1, <2>2, <2>3, <2>4 DEF Kept
<1> QED  BY <1>1, <1>4, <1>9, <1>10, BeginsL1

LEMMA DeleteL1 ==
  ASSUME KeysAligned, TypeInv, L2Inv, L1Inv, NEW c \in Calls, NEW p \in Procs,
         NEW s \in StoreNames, NEW target \in Targets, Delete(c, p, s, target)
  PROVE  L1Inv'
<1> DEFINE items == Removed(l1[p][s], L1Keys[s][target])
<1>1. /\ Begin(c, p, s, target, "delete", "remove") /\ WriteL1(p, s, items)
      /\ Excuse({}, Changed(p, {s})) /\ UNCHANGED <<l2, wire, dead>>
  BY DEF Delete
<1>2. l1[p][s] \in Tables(s)
  BY DEF TypeInv
<1>3. items \in Tables(s)
  BY <1>2, RemovedType
<1>4. \A k \in L1All[s] : items[k] = IF k \in L1Keys[s][target] THEN None ELSE l1[p][s][k]
  BY <1>2 DEF Removed, Tables
<1> HIDE DEF items
<1>5. /\ l1'[p][s] = items
      /\ \A q \in Procs, t \in StoreNames : q # p \/ t # s => l1'[q][t] = l1[q][t]
  BY <1>1, <1>3, WriteType
<1>6. /\ call[c].pc = "idle" /\ \A d \in Calls \ {c} : call'[d] = call[d]
      /\ Started(c)
      /\ call'[c].pc = "remove" /\ call'[c].method = "delete" /\ call'[c].proc = p
      /\ call'[c].store = s /\ call'[c].target = target
  BY <1>1, BeginStarted
<1>7. ASSUME NEW q \in Procs, NEW t \in StoreNames, NEW k \in L1All[t], l1'[q][t][k] # None
      PROVE  Kept(q, t, k)
  <2>1. l1'[q][t][k] = l1[q][t][k] /\ (q = p /\ t = s => k \notin L1Keys[s][target])
    <3>1. CASE q = p /\ t = s
      BY <1>4, <1>5, <1>7, <3>1
    <3>2. CASE ~ (q = p /\ t = s)
      BY <1>5, <3>2
    <3> QED  BY <3>1, <3>2
  <2>2. <<q, t, k>> \notin excused' => <<q, t, k>> \notin excused
    BY <1>1, <2>1, StillExcused
  <2>3. ToldStays(q, t, k)
    BY <1>1, WireStays
  <2>4. Minds(c, q, t, k)
    <3>1. About(Notice(s, target, "delete"), s) = L1Keys[s][target]
      <4>1. target \in Targets \cup Wholes
        OBVIOUS
      <4> QED  BY <4>1, NoticeAbout
    <3> QED  BY <1>6, <2>1, <3>1 DEF Minds
  <2> QED  BY <1>6, <2>1, <2>2, <2>3, <2>4 DEF Kept
<1> QED  BY <1>1, <1>6, <1>7, BeginsL1

(* What a clear leaves in the L1s.                                         *)
LEMMA ClearedFacts ==
  ASSUME TypeInv, NEW p \in Procs, NEW target \in Wholes, NEW calls,
         DOMAIN calls \subseteq StoreNames, Clear(p, target, calls)
  PROVE  \A q \in Procs, t \in StoreNames : \A k \in L1All[t] :
           IF q = p /\ t \in DOMAIN calls /\ k \in About(Notice(t, target, "clear"), t)
             THEN l1'[q][t][k] = None ELSE l1'[q][t][k] = l1[q][t][k]
<1> DEFINE stores == DOMAIN calls  prefix(s) == L1Prefix[s][target.path]
           row == [s \in StoreNames |-> IF s \in stores THEN ClearedL1(l1[p][s], prefix(s)) ELSE l1[p][s]]
<1>1. l1' = [l1 EXCEPT ![p] = row]
  BY DEF Clear
<1>2. target \in Targets \cup Wholes
  OBVIOUS
<1>3. ASSUME NEW t \in StoreNames, NEW k \in L1All[t]
      PROVE  row[t][k] = IF t \in stores /\ k \in About(Notice(t, target, "clear"), t)
                           THEN None ELSE l1[p][t][k]
  <2>1. l1[p][t] \in [L1All[t] -> Entries \cup {None}]
    BY DEF TypeInv, Tables
  <2>2. About(Notice(t, target, "clear"), t) = {j \in L1All[t] : StartsWith(prefix(t), j)}
    BY <1>2, NoticeAbout
  <2>3. CASE t \in stores
    <3> DEFINE items == l1[p][t]
    <3>1. row[t] = ClearedL1(items, prefix(t))
      BY <2>3
    <3> HIDE DEF row, items, prefix
    <3> QED  BY <2>1, <2>2, <2>3, <3>1 DEF ClearedL1, items
  <2>4. CASE t \notin stores
    BY <2>4
  <2> QED  BY <2>3, <2>4
<1> HIDE DEF row
<1>4. l1'[p] = row /\ \A q \in Procs \ {p} : l1'[q] = l1[q]
  BY <1>1 DEF TypeInv
<1> QED  BY <1>3, <1>4

LEMMA ClearL1 ==
  ASSUME KeysAligned, TypeInv, L2Inv, L1Inv, NEW p \in Procs, NEW target \in Wholes, NEW calls,
         DOMAIN calls \subseteq StoreNames, Clear(p, target, calls)
  PROVE  L1Inv'
<1> DEFINE stores == DOMAIN calls  type == "clear"
<1>1. /\ UNCHANGED dead /\ Publish(p, stores, type, target)
      /\ Excuse(Missed(p, stores, type, target), Changed(p, stores))
  BY DEF Clear
<1>2. target \in Targets \cup Wholes /\ stores \in SUBSET StoreNames
  OBVIOUS
<1>4. \A c \in Calls :
        \/ /\ call[c].pc = "idle"
           /\ \E s \in stores : Begun(call'[c], p, s, target, "clear", "scan")
        \/ call'[c] = call[c]
  BY ClearCalls
<1>5. ASSUME NEW c \in Calls, call'[c] # call[c]
      PROVE  /\ call[c].pc = "idle" /\ Started(c)
             /\ call'[c].method = "clear" /\ call'[c].proc = p /\ call'[c].target = target
             /\ call'[c].store \in stores
  <2>1. PICK s \in stores : Begun(call'[c], p, s, target, "clear", "scan")
    BY <1>4, <1>5
  <2> HIDE DEF stores
  <2>2. s \in StoreNames
    BY <1>2
  <2> QED  BY <1>2, <1>4, <1>5, <2>1, <2>2 DEF Started, Begun
<1>6. \A q \in Procs, t \in StoreNames : \A k \in L1All[t] :
        IF q = p /\ t \in stores /\ k \in About(Notice(t, target, type), t)
          THEN l1'[q][t][k] = None ELSE l1'[q][t][k] = l1[q][t][k]
  BY ClearedFacts
<1> HIDE DEF stores
<1>7. ASSUME NEW q \in Procs, NEW t \in StoreNames, NEW k \in L1All[t], l1'[q][t][k] # None
      PROVE  Kept(q, t, k)
  <2>1. /\ l1'[q][t][k] = l1[q][t][k]
        /\ ~ (q = p /\ t \in stores /\ k \in About(Notice(t, target, type), t))
    BY <1>6, <1>7
  <2>2. <<q, t, k>> \notin excused' => <<q, t, k>> \notin excused
    BY <1>1, <2>1, StillExcused
  <2>3. ToldStays(q, t, k)
    BY <1>1, PublishStays
  <2>4. ASSUME NEW c \in Calls, call'[c] # call[c], <<q, t, k>> \notin excused'
        PROVE  Minds(c, q, t, k)
    <3>1. ASSUME t \in stores, k \in About(Notice(t, target, type), t)
          PROVE  p # q /\ Told(q, t, k)'
      <4>1. q \in Procs \ {p} /\ l1[q][t][k] # None
        BY <1>7, <2>1, <3>1
      <4> HIDE DEF type
      <4> QED  BY <1>1, <2>4, <3>1, <4>1, HolderTold
    <3> QED  BY <1>5, <2>4, <3>1 DEF Minds
  <2> QED  BY <2>1, <2>2, <2>3, <2>4 DEF Kept
<1> QED  BY <1>1, <1>5, <1>7, BeginsL1

LEMMA ClearsL1 ==
  ASSUME KeysAligned, TypeInv, L2Inv, L1Inv, NEW p \in Procs
  PROVE  /\ \A s \in StoreNames, target \in Wholes : ClearOne(p, s, target) => L1Inv'
         /\ ClearAll(p) => L1Inv'
<1>1. ASSUME NEW s \in StoreNames, NEW target \in Wholes, ClearOne(p, s, target)  PROVE L1Inv'
  <2>1. PICK c \in Calls : Clear(p, target, [t \in {s} |-> c])
    BY <1>1 DEF ClearOne, Ready
  <2> DEFINE calls == [t \in {s} |-> c]
  <2>2. DOMAIN calls \subseteq StoreNames
    OBVIOUS
  <2> HIDE DEF calls
  <2> QED  BY <2>1, <2>2, ClearL1 DEF calls
<1>2. ASSUME ClearAll(p)  PROVE L1Inv'
  <2> DEFINE whole == [path |-> <<>>, keys |-> <<>>]
  <2>1. PICK calls \in [StoreNames -> Calls] : Clear(p, whole, calls)
    BY <1>2 DEF ClearAll, Ready
  <2>2. whole \in Wholes
    BY PathOf DEF Wholes
  <2> HIDE DEF whole
  <2> QED  BY <2>1, <2>2, ClearL1
<1> QED  BY <1>1, <1>2

----------------------------------------------------------------------------
(* What a get puts in an L1.                                              *)

(* No change begins or ends, and the item stays.                           *)
LEMMA KeptStays ==
  ASSUME TypeInv, L1Inv, UNCHANGED dead, \A c \in Running' : call'[c] = call[c],
         NEW q \in Procs, NEW t \in StoreNames, NEW k \in L1All[t],
         l1'[q][t][k] = l1[q][t][k], l1[q][t][k] # None,
         <<q, t, k>> \notin excused' => <<q, t, k>> \notin excused,
         ToldStays(q, t, k)
  PROVE  \E d : Stays(q, t, k, d)
<1>1. PICK d : d = l1[q][t][k].val
  OBVIOUS
<1>2. ASSUME l1'[q][t][k].valid, <<q, t, k>> \notin excused'  PROVE Sound(q, t, k, d)'
  <2>1. Sound(q, t, k, d)
    BY <1>1, <1>2 DEF L1Inv, Placed
  <2>2. \A c \in Running' : SameAccount(c) \/ Due(q, t, k, call[c], d)'
    BY DEF Running, SameAccount
  <2>3. d \in dead' => d \in dead
    OBVIOUS
  <2> QED  BY <2>1, <2>2, <2>3, SoundStays
<1>3. Stays(q, t, k, d)
  BY <1>1, <1>2 DEF Stays
<1> QED  BY <1>3

(* What a get that filled an L1 leaves.                                    *)
Late(f) ==
  LET remote == L2Key(f.store, f.target) IN
  \/ l2[remote] # f.item
  \/ \E d \in Running : /\ Pending(d, remote)
                        /\ \/ call[d].method = "clear"
                           \/ call[d].proc = f.proc

(* A get that is not late put a value there that nobody is to end, or only *)
(* another process, with a message to come.                                *)
LEMMA NotLate ==
  ASSUME TypeInv, L2Inv, NEW f, f.store \in StoreNames, f.target \in Targets,
         Len(f.target.keys) = 1, f.item \in Calls, ~ Late(f), UNCHANGED dead,
         \A e \in Running' : call'[e] = call[e], NEW k
  PROVE  Sound(f.proc, f.store, k, f.item)'
<1> DEFINE remote == L2Key(f.store, f.target)
<1>1. remote \in L2All /\ l2[remote] = f.item
  BY OneL1Key DEF Late
<1>2. \A d \in Running : Pending(d, remote) => call[d].method # "clear" /\ call[d].proc # f.proc
  BY DEF Late
<1> HIDE DEF remote
<1>3. f.item \notin dead'
  BY <1>1 DEF L2Inv, DeadLeftL2
<1>4. PICK p, s, d : p = f.proc /\ s = f.store /\ d = f.item
  OBVIOUS
<1>5. ASSUME NEW e \in Running'  PROVE Due(p, s, k, call[e], d)'
  <2>1. e \in Running /\ call'[e] = call[e]
    BY <1>5 DEF Running
  <2>2. ASSUME call[e].method # "get", d \in call[e].olds
        PROVE  call[e].proc # p /\ call[e].method # "clear"
    <3>1. LeftTo(call[e], remote, d)
      BY <1>1, <1>4, <2>1, <2>2 DEF L2Inv, Sweeping, Swept
    <3>2. Pending(e, remote)
      BY <3>1 DEF LeftTo, Pending
    <3> QED  BY <1>2, <1>4, <2>1, <3>2
  <2> QED  BY <2>1, <2>2 DEF Due
<1>6. Sound(p, s, k, d)'
  BY <1>3, <1>4, <1>5 DEF Sound
<1> QED  BY <1>4, <1>6

LEMMA FillL1 ==
  ASSUME TypeInv, L2Inv, L1Inv, NEW c \in Calls, Fill(c)
  PROVE  L1Inv'
<1>0. PICK f : f = call[c]
  OBVIOUS
<1> DEFINE p == f.proc  s == f.store  key == L1Key(s, f.target)
           entry == [val |-> f.item, valid |-> TRUE]
<1>1. /\ f.pc = "fill"
      /\ \E items \in Put(l1[p][s], key, entry) : WriteL1(p, s, items)
      /\ Ends(c) /\ UNCHANGED <<siteVars, l2, wire>>
      /\ Excuse(IF Late(f) THEN {<<p, s, key>>} ELSE {}, Changed(p, {s}) \cup {<<p, s, key>>})
  BY <1>0 DEF Fill, Late
<1>2. c \in Running
  BY <1>1, <1>0, Under
<1>3. /\ p \in Procs /\ s \in StoreNames /\ f.target \in Targets /\ Len(f.target.keys) = 1
      /\ f.item \in Calls /\ f.method = "get"
  BY <1>1, <1>2, <1>0, RunningCall DEF PlacedCall, OneKey
<1>4. key \in L1All[s] /\ entry \in Entries /\ entry.val = f.item /\ l1[p][s] \in Tables(s)
  BY <1>3, OneL1Key DEF Entries, TypeInv
<1>5. /\ call'[c].pc = "done" /\ dead' = dead /\ \A d \in Calls \ {c} : call'[d] = call[d]
  BY <1>1, <1>2, <1>3, <1>0, EndsFacts
<1>6. SetsStay
  <2> SUFFICES ASSUME NEW d \in Calls, NEW r, SetOf(d, r)  PROVE SetOf(d, r)'
    BY DEF SetsStay
  <2>1. CASE d = c
    BY <1>1, <1>2, <2>1, <1>0, EndsSets
  <2>2. CASE d # c
    BY <1>5, <2>2 DEF SetOf
  <2> QED  BY <2>1, <2>2
<1>7. \A d \in Running' : call'[d] = call[d]
  BY <1>5 DEF Running
<1>9. key = L1Key(s, f.target)
  OBVIOUS
<1> HIDE DEF key, entry
<1>10. PICK items \in Put(l1[p][s], key, entry) : WriteL1(p, s, items)
  BY <1>1
<1>11. /\ items \in Tables(s) /\ items[key] = entry
       /\ \A k \in L1All[s] : k # key => items[k] \in {l1[p][s][k], None}
  BY <1>3, <1>4, PutType
<1>12. /\ l1'[p][s] = items
       /\ \A q \in Procs, t \in StoreNames : q # p \/ t # s => l1'[q][t] = l1[q][t]
  BY <1>3, <1>10, <1>11, WriteType
<1>13. Placed(p, s, key)'
  <2>1. PICK d, target, x, t : d = f.item /\ target = f.target /\ x = p /\ t = s
    OBVIOUS
  <2>2. SetOf(d, L2Key(t, target))
    BY <1>1, <1>2, <2>1, <1>0 DEF L1Inv, Prepared
  <2>3. Goes(t, key, d, target)'
    BY <1>3, <1>6, <1>9, <2>1, <2>2 DEF Goes, SetsStay
  <2>4. Lives(t, key, d)'
    BY <1>3, <2>1, <2>3 DEF Lives
  <2>6. ASSUME <<x, t, key>> \notin excused'  PROVE Sound(x, t, key, d)'
    <3>1. ~ Late(f)
      BY <1>1, <2>1, <2>6 DEF Excuse
    <3>2. Sound(f.proc, f.store, key, f.item)'
      BY <1>3, <1>5, <1>7, <3>1, NotLate
    <3>3. f.proc = x /\ f.store = t /\ f.item = d
      BY <2>1
    <3> QED  BY <3>2, <3>3
  <2>7. l1'[x][t][key].val = d
    BY <1>4, <1>11, <1>12, <2>1
  <2>8. Placed(x, t, key)'
    BY <2>4, <2>6, <2>7 DEF Placed
  <2> QED  BY <2>1, <2>8
<1>14. ASSUME NEW q \in Procs, NEW t \in StoreNames, NEW k \in L1All[t],
              l1'[q][t][k] # None, ~ (q = p /\ t = s /\ k = key)
       PROVE  \E d : Stays(q, t, k, d)
  <2>1. l1'[q][t][k] = l1[q][t][k]
    <3>1. CASE q = p /\ t = s
      BY <1>11, <1>12, <1>14, <3>1
    <3>2. CASE ~ (q = p /\ t = s)
      BY <1>12, <3>2
    <3> QED  BY <3>1, <3>2
  <2>2. <<q, t, k>> \notin excused' => <<q, t, k>> \notin excused
    <3>1. <<q, t, k>> \notin Changed(p, {s}) \cup {<<p, s, key>>}
      <4> HIDE DEF p, s
      <4> QED  BY <1>14, <2>1 DEF Changed
    <3> QED  BY <1>1, <3>1 DEF Excuse
  <2>3. ToldStays(q, t, k)
    BY <1>1, WireStays
  <2> HIDE DEF p, s
  <2> QED  BY <1>5, <1>7, <1>14, <2>1, <2>2, <2>3, KeptStays
<1> HIDE DEF p, s
<1>15. \A q \in Procs, t \in StoreNames : \A k \in L1All[t] :
         l1'[q][t][k] = None \/ (\E d : Stays(q, t, k, d)) \/ Placed(q, t, k)'
  BY <1>13, <1>14
<1>16. \A d \in Running' : Prepared(call[d])' \/ call'[d] = call[d]
  BY <1>7
<1> QED  BY <1>6, <1>15, <1>16, L1Step

----------------------------------------------------------------------------
(* Messages that arrive.                                                  *)

(* Taking a message leaves those about other keys under way.               *)
LEMMA TailTold ==
  ASSUME TypeInv, NEW p \in Procs, NEW s \in StoreNames, wire[p][s] # <<>>,
         wire' = [wire EXCEPT ![p][s] = Tail(@)],
         NEW q \in Procs, NEW t \in StoreNames, NEW k,
         ~ (q = p /\ t = s /\ k \in About(Head(wire[p][s]).of, s))
  PROVE  ToldStays(q, t, k)
<1> DEFINE w == wire[p][s]
<1>1. wire \in [Procs -> [StoreNames -> Seq(Carried)]] /\ w \in Seq(Carried)
  BY DEF TypeInv
<1>2. /\ wire'[p][s] = Tail(w)
      /\ (q # p \/ t # s) => wire'[q][t] = wire[q][t]
  <2> DEFINE Q == Seq(Carried)
  <2>1. wire \in [Procs -> [StoreNames -> Q]]
    BY <1>1
  <2> HIDE DEF Q
  <2> QED  BY <2>1
<1>3. CASE q = p /\ t = s
  <2> SUFFICES ASSUME Told(q, t, k)  PROVE Told(q, t, k)'
    BY DEF ToldStays
  <2>1. PICK i \in DOMAIN w : w[i].of.busId # <<q>> /\ k \in About(w[i].of, t)
    BY <1>3 DEF Told
  <2>2. w[1] = Head(w)
    <3> HIDE DEF w
    <3> QED  BY <1>1
  <2>3. i # 1
    BY <1>3, <2>1, <2>2
  <2> DEFINE j == i - 1
  <2>4. j \in DOMAIN Tail(w) /\ Tail(w)[j] = w[i]
    <3> HIDE DEF w
    <3> QED  BY <1>1, <2>1, <2>3
  <2> HIDE DEF j, w
  <2>5. j \in DOMAIN wire'[q][t] /\ wire'[q][t][j] = w[i]
    BY <1>2, <1>3, <2>4
  <2> QED  BY <2>1, <2>5 DEF Told
<1>4. CASE ~ (q = p /\ t = s)
  BY <1>2, <1>4, ToldOn DEF ToldStays
<1> QED  BY <1>3, <1>4

(* The message p is to take next is about the place.                       *)
Heard(p, s, q, t, k) == q = p /\ t = s /\ k \in About(Head(wire[p][s]).of, s)

(* What OnMessage does to a place.                                         *)
LEMMA Received ==
  ASSUME TypeInv, NEW p \in Procs, NEW s \in StoreNames, OnMessage(p, s),
         NEW q \in Procs, NEW t \in StoreNames, NEW k \in L1All[t]
  PROVE  \/ /\ ~ Heard(p, s, q, t, k) /\ l1'[q][t][k] = l1[q][t][k]
            /\ <<q, t, k>> \notin excused' => <<q, t, k>> \notin excused
         \/ /\ l1[q][t][k] # None /\ l1'[q][t][k] # None
            /\ l1'[q][t][k] = [l1[q][t][k] EXCEPT !.valid = FALSE]
         \/ l1'[q][t][k] = l1[q][t][k] /\ <<q, t, k>> \in excused'
         \/ Heard(p, s, q, t, k) /\ l1'[q][t][k] = None
<1> DEFINE message == Decode(Head(wire[p][s]).bytes)  about == About(message, s)
           received(e) == IF e = None \/ message.type \in {"delete", "clear"} THEN None
                          ELSE [e EXCEPT !.valid = FALSE]
           items == [j \in L1All[s] |-> IF j \in about THEN received(l1[p][s][j]) ELSE l1[p][s][j]]
           spared == {<<p, s, j>> : j \in {j \in L1All[s] \cap about : l1[p][s][j] # None}}
<1>1. wire[p][s] # <<>> /\ Head(wire[p][s]).of = message
  BY HeadDecoded DEF OnMessage
<1>2. \/ WriteL1(p, s, items) /\ Excuse({}, Changed(p, {s}))
      \/ UNCHANGED l1 /\ Excuse(spared, {})
  BY DEF OnMessage
<1>3. \A j \in L1All[s] : items[j] = IF j \in about THEN received(l1[p][s][j]) ELSE l1[p][s][j]
  OBVIOUS
<1>4. items \in Tables(s)
  <2>1. l1[p][s] \in Tables(s)
    BY DEF TypeInv
  <2>2. l1[p][s] \in [L1All[s] -> Entries \cup {None}]
    BY <2>1 DEF Tables
  <2>3. ASSUME NEW e \in Entries \cup {None}  PROVE received(e) \in Entries \cup {None}
    <3> HIDE DEF message
    <3> QED  BY DEF Entries
  <2>4. received(None) = None
    OBVIOUS
  <2> HIDE DEF received, about
  <2>5. items \in [L1All[s] -> Entries \cup {None}]
    BY <2>2, <2>3
  <2>6. \A j \in L1All[s] : l1[p][s][j] = None => items[j] = None
    BY <2>4
  <2> HIDE DEF items
  <2> QED  BY <2>1, <2>5, <2>6, Narrowed
<1>5. CASE WriteL1(p, s, items) /\ Excuse({}, Changed(p, {s}))
  <2> HIDE DEF items
  <2>1. /\ l1'[p][s] = items
        /\ (q # p \/ t # s) => l1'[q][t] = l1[q][t]
    BY <1>4, <1>5, WriteType
  <2>2. CASE q = p /\ t = s /\ k \in about
    <3>1. l1'[q][t][k] = received(l1[q][t][k])
      BY <1>3, <2>1, <2>2
    <3>2. \/ l1'[q][t][k] = None
          \/ l1[q][t][k] # None /\ l1'[q][t][k] = [l1[q][t][k] EXCEPT !.valid = FALSE]
      BY <3>1
    <3> QED  BY <1>1, <2>2, <3>2 DEF Heard
  <2>3. CASE ~ (q = p /\ t = s /\ k \in about)
    <3>1. l1'[q][t][k] = l1[q][t][k]
      <4>1. CASE q = p /\ t = s
        BY <1>3, <2>1, <2>3, <4>1
      <4>2. CASE q # p \/ t # s
        BY <2>1, <4>2
      <4> QED  BY <4>1, <4>2
    <3>2. <<q, t, k>> \notin excused' => <<q, t, k>> \notin excused
      BY <1>5, <3>1, StillExcused
    <3> QED  BY <1>1, <2>3, <3>1, <3>2 DEF Heard
  <2> QED  BY <2>2, <2>3
<1>6. CASE UNCHANGED l1 /\ Excuse(spared, {})
  <2>1. l1'[q][t][k] = l1[q][t][k] /\ excused' = excused \cup spared
    BY <1>6 DEF Excuse
  <2>2. (q = p /\ t = s /\ k \in about /\ l1'[q][t][k] # None) => <<q, t, k>> \in spared
    <3> HIDE DEF about
    <3> QED  BY <2>1
  <2> QED  BY <1>1, <2>1, <2>2 DEF Heard
<1> HIDE DEF items, spared
<1> QED  BY <1>2, <1>5, <1>6

LEMMA OnMessageL1 ==
  ASSUME TypeInv, L1Inv, NEW p \in Procs, NEW s \in StoreNames, OnMessage(p, s)
  PROVE  L1Inv'
<1>1. /\ wire[p][s] # <<>> /\ wire' = [wire EXCEPT ![p][s] = Tail(@)]
      /\ UNCHANGED <<siteVars, call, dead>>
  BY DEF OnMessage
<1>2. SetsStay
  BY <1>1, BeginSets
<1>4. \A c \in Running' : call'[c] = call[c]
  BY <1>1
<1>5. ASSUME NEW q \in Procs, NEW t \in StoreNames, NEW k \in L1All[t], l1'[q][t][k] # None
      PROVE  \E d : Stays(q, t, k, d)
  <2>1. \/ /\ ~ Heard(p, s, q, t, k) /\ l1'[q][t][k] = l1[q][t][k]
           /\ <<q, t, k>> \notin excused' => <<q, t, k>> \notin excused
        \/ /\ l1[q][t][k] # None /\ l1'[q][t][k] = [l1[q][t][k] EXCEPT !.valid = FALSE]
        \/ l1'[q][t][k] = l1[q][t][k] /\ <<q, t, k>> \in excused'
    BY <1>5, Received
  <2>2. PICK d, e : e = l1[q][t][k] /\ d = e.val
    OBVIOUS
  <2>3. CASE /\ ~ Heard(p, s, q, t, k) /\ l1'[q][t][k] = l1[q][t][k]
             /\ <<q, t, k>> \notin excused' => <<q, t, k>> \notin excused
    <3>1. ToldStays(q, t, k)
      BY <1>1, <2>3, TailTold DEF Heard
    <3> QED  BY <1>1, <1>4, <1>5, <2>3, <3>1, KeptStays
  <2>4. CASE l1[q][t][k] # None /\ l1'[q][t][k] = [e EXCEPT !.valid = FALSE]
    <3>1. e \in Entries
      <4>1. l1[q][t] \in [L1All[t] -> Entries \cup {None}]
        BY DEF TypeInv, Tables
      <4> QED  BY <2>2, <2>4, <4>1
    <3> DEFINE g == [e EXCEPT !.valid = FALSE]
    <3>2. g.val = d /\ ~ g.valid
      BY <2>2, <3>1 DEF Entries
    <3> HIDE DEF g
    <3>3. Stays(q, t, k, d)
      BY <2>2, <2>4, <3>2 DEF Stays, g
    <3> QED  BY <3>3
  <2>5. CASE l1'[q][t][k] = l1[q][t][k] /\ <<q, t, k>> \in excused'
    <3>1. Stays(q, t, k, d)
      BY <1>5, <2>2, <2>5 DEF Stays
    <3> QED  BY <3>1
  <2> QED  BY <2>1, <2>2, <2>3, <2>4, <2>5
<1> QED  BY <1>2, <1>4, <1>5, L1Step

LEMMA L1Init == Init => L1Inv
<1> SUFFICES ASSUME Init  PROVE L1Inv
  OBVIOUS
<1>1. Running = {}
  BY DEF Init, Idle, Running
<1>2. \A p \in Procs, s \in StoreNames : \A k \in L1All[s] : l1[p][s][k] = None
  BY DEF Init
<1> QED  BY <1>1, <1>2 DEF L1Inv, Placed

LEMMA L1Next ==
  ASSUME KeysAligned, TypeInv, L2Inv, L1Inv, [Next]_vars
  PROVE  L1Inv'
<1>1. CASE UNCHANGED vars \/ \E p \in Procs, s \in StoreNames : Subscribe(p, s)
  <2>1. UNCHANGED <<call, l1, wire, dead, excused>>
    BY <1>1 DEF vars, Subscribe
  <2>2. SetsStay /\ \A c \in Running' : call'[c] = call[c]
    BY <2>1, BeginSets
  <2>3. ASSUME NEW q \in Procs, NEW t \in StoreNames, NEW k \in L1All[t], l1'[q][t][k] # None
        PROVE  \E d : Stays(q, t, k, d)
    <3>1. ToldStays(q, t, k)
      BY <2>1, WireStays
    <3> QED  BY <2>1, <2>2, <2>3, <3>1, KeptStays
  <2> QED  BY <2>2, <2>3, L1Step
<1>2. ASSUME NEW p \in Procs, NEW name \in StoreNames \cup {None}, NEW s, s = Used(name),
             \/ \E c \in Calls, target \in Targets :
                  Get(c, p, s, target) \/ Set(c, p, s, target) \/ Delete(c, p, s, target)
             \/ \E target \in Wholes : ClearOne(p, s, target)
      PROVE  L1Inv'
  <2>1. s \in StoreNames
    BY <1>2, StoresAssumption DEF Used
  <2> QED  BY <1>2, <2>1, GetL1, SetL1, DeleteL1, ClearsL1
<1>3. ASSUME NEW p \in Procs, ClearAll(p)  PROVE L1Inv'
  BY <1>3, ClearsL1
<1>4. ASSUME NEW c \in Calls,
             \/ ReadL2(c) \/ Fill(c) \/ WriteL2(c) \/ RemoveL2(c)
             \/ ClearRows(c) \/ ScanL2(c) \/ Unlink(c) \/ Notify(c)
      PROVE  L1Inv'
  BY <1>4, ReadL2L1, FillL1, WriteL2L1, RemoveL2L1, ClearEndsL1, ScanL2L1, UnlinkL1, NotifyL1
<1>5. ASSUME NEW p \in Procs, NEW s \in StoreNames, OnMessage(p, s)  PROVE L1Inv'
  BY <1>5, OnMessageL1
<1> QED  BY <1>1, <1>2, <1>3, <1>4, <1>5 DEF Next, Ready, Running

LEMMA L1InvSound == L1Inv => DeadAnnounced
BY DEF L1Inv, Placed, Sound, Told, DeadAnnounced

(* A process serves a value that was replaced or removed only while the    *)
(* message that removes it is under way, or where it is excused: when keys *)
(* of L1 and of L2 go together, every change tells each process that may   *)
(* hold the value and was subscribed when the change was published, before *)
(* the change ends (bus.ts:54-56, bus.ts:78-103, memory.ts:99-105).        *)
THEOREM StoresDeadAnnounced ==
  ASSUME KeysAligned
  PROVE  Spec => []DeadAnnounced
<1>1. TypeInv /\ L2Inv /\ L1Inv /\ [Next]_vars => L1Inv'
  BY L1Next
<1> QED  BY <1>1, L1InvSound, TypeInvariance, L2Init, L2Next, L1Init, PTL DEF Spec

----------------------------------------------------------------------------
(* What calls have still to remove.                                       *)

(* What a call has still to remove, it covers.                             *)
Leaves(f) ==
  /\ f.pc = "remove" => f.left \subseteq L2Keys[f.store][f.target]
  /\ f.pc = "unlink" => \A k \in f.left : Matches(L2Prefix[f.store][f.target.path], k)

LeftInv == \A c \in Running : Leaves(call[c])

LEMMA LeftStep ==
  ASSUME LeftInv, driver' = driver,
         \A c \in Running' : call'[c] = call[c] \/ Leaves(call[c])'
  PROVE  LeftInv'
<1> SUFFICES ASSUME NEW c \in Running', call'[c] = call[c]  PROVE Leaves(call[c])'
  BY DEF LeftInv
<1>1. Leaves(call[c])
  BY DEF LeftInv, Running
<1> QED  BY <1>1 DEF Leaves, Matches

LEMMA BeginLeft ==
  ASSUME TypeInv, LeftInv, NEW c \in Calls, NEW p \in Procs, NEW s \in StoreNames,
         NEW target \in Targets, Get(c, p, s, target) \/ Set(c, p, s, target) \/ Delete(c, p, s, target)
  PROVE  LeftInv'
<1>1. PICK method \in {"get", "set", "delete"}, stage \in {"read", "write", "remove", "done"} :
        /\ stage = "read" => method = "get" /\ Len(target.keys) = 1
        /\ stage = "write" => method = "set" /\ Len(target.keys) = 1
        /\ stage = "remove" => method = "delete"
        /\ Begin(c, p, s, target, method, stage)
  <2>1. CASE Get(c, p, s, target)
    <3> DEFINE e == l1[p][s][L1Key(s, target)]
               stage == IF e # None /\ e.valid THEN "done" ELSE "read"
    <3>1. Len(target.keys) = 1 /\ Begin(c, p, s, target, "get", stage) /\ stage \in {"read", "done"}
      BY <2>1 DEF Get
    <3> HIDE DEF stage
    <3> QED  BY <3>1
  <2>2. CASE Set(c, p, s, target)
    <3>1. Len(target.keys) = 1 /\ Begin(c, p, s, target, "set", "write")
      BY <2>2 DEF Set
    <3> QED  BY <3>1
  <2>3. CASE Delete(c, p, s, target)
    <3>1. Begin(c, p, s, target, "delete", "remove")
      BY <2>3 DEF Delete
    <3> QED  BY <3>1
  <2> QED  BY <2>1, <2>2, <2>3
<1>0. PICK f : f = Frame(p, s, target, method, stage)
  OBVIOUS
<1>2. method \in MessageTypes \cup {"get"} /\ target \in Targets \cup Wholes
  BY DEF MessageTypes
<1>3. /\ driver' = driver /\ call'[c] = f
      /\ \A d \in Calls \ {c} : call'[d] = call[d]
  BY <1>0, <1>1, <1>2, BeginType
<1>4. /\ stage = "done" => f = [pc |-> "done", keys |-> {}]
      /\ stage # "done" => Begun(f, p, s, target, method, stage)
  BY <1>0, <1>2, FrameType
<1>5. stage # "done" => Leaves(f)'
  BY <1>1, <1>4 DEF Leaves, Begun
<1>6. \A d \in Running' : call'[d] = call[d] \/ Leaves(call[d])'
  BY <1>3, <1>4, <1>5 DEF Running, Leaves
<1> QED  BY <1>3, <1>6, LeftStep

LEMMA ClearLeft ==
  ASSUME TypeInv, LeftInv, NEW p \in Procs, NEW target \in Wholes, NEW calls,
         DOMAIN calls \subseteq StoreNames, Clear(p, target, calls)
  PROVE  LeftInv'
<1>1. driver' = driver
  BY DEF Clear, Open
<1>2. \A c \in Calls : call'[c] = call[c] \/ call'[c].pc = "scan"
  BY ClearCalls DEF Begun
<1>3. \A c \in Running' : call'[c] = call[c] \/ Leaves(call[c])'
  BY <1>2 DEF Running, Leaves
<1> QED  BY <1>1, <1>3, LeftStep

LEMMA OneLeft ==
  ASSUME TypeInv, LeftInv, driver' = driver, NEW c \in Calls, NEW g, call' = [call EXCEPT ![c] = g],
         g.pc \notin {"remove", "unlink"} \/ Leaves(g)
  PROVE  LeftInv'
<1>1. call'[c] = g /\ \A d \in Calls \ {c} : call'[d] = call[d]
  BY DEF TypeInv
<1>2. g.pc \notin {"remove", "unlink"} \/ Leaves(call[c])'
  BY <1>1 DEF Leaves, Matches
<1>3. \A d \in Running' : call'[d] = call[d] \/ Leaves(call[d])'
  BY <1>1, <1>2 DEF Running, Leaves
<1> QED  BY <1>3, LeftStep

LEMMA EndsLeft ==
  ASSUME TypeInv, LeftInv, driver' = driver, NEW c \in Calls, Ends(c)
  PROVE  LeftInv'
<1> DEFINE keys == IF call[c].method = "set"
                     THEN L2Keys[call[c].store][call[c].target] ELSE {}
           g == [pc |-> "done", keys |-> keys]
<1>1. call' = [call EXCEPT ![c] = g]
  BY DEF Ends
<1> HIDE DEF keys
<1>2. g.pc = "done"
  OBVIOUS
<1> HIDE DEF g
<1> QED  BY <1>1, <1>2, OneLeft

LEMMA AwayLeft ==
  ASSUME TypeInv, LeftInv, NEW c \in Calls,
         \/ ReadL2(c) \/ Fill(c) \/ WriteL2(c) \/ RemoveL2(c)
         \/ ClearRows(c) \/ ScanL2(c) \/ Unlink(c) \/ Notify(c)
  PROVE  LeftInv'
<1> DEFINE f == call[c]
<1>1. driver' = driver
  BY DEF ReadL2, Fill, WriteL2, RemoveL2, ClearRows, ScanL2, Unlink, Notify, siteVars
<1>2. CASE Ends(c)
  BY <1>1, <1>2, EndsLeft
<1>3. CASE ReadL2(c) /\ ~ Ends(c)
  <2> DEFINE value == l2[L2Key(f.store, f.target)]
             g == [f EXCEPT !.pc = "fill", !.item = value]
  <2>1. call' = [call EXCEPT ![c] = g] /\ f.pc = "read"
    BY <1>3 DEF ReadL2
  <2>2. c \in Running
    BY <2>1, Under
  <2>3. f \in Frames
    BY <2>2, RunningCall
  <2>4. g.pc = "fill"
    <3> HIDE DEF f, value
    <3> QED  BY <2>3 DEF Frames
  <2> HIDE DEF g
  <2> QED  BY <1>1, <2>1, <2>4, OneLeft
<1>4. CASE WriteL2(c)
  <2> DEFINE g == [f EXCEPT !.pc = "publish"]
  <2>1. call' = [call EXCEPT ![c] = g] /\ f.pc = "write"
    BY <1>4 DEF WriteL2, Goto
  <2>2. c \in Running
    BY <2>1, Under
  <2>3. f \in Frames
    BY <2>2, RunningCall
  <2>4. g.pc = "publish"
    <3> HIDE DEF f
    <3> QED  BY <2>3 DEF Frames
  <2> HIDE DEF g
  <2> QED  BY <1>1, <2>1, <2>4, OneLeft
<1>5. CASE RemoveL2(c)
  <2>1. c \in Running /\ f.pc = "remove"
    BY <1>5, Under DEF RemoveL2
  <2>2. PICK keys \in SUBSET f.left :
          call' = [call EXCEPT ![c].left = @ \ keys,
                               ![c].pc = IF keys = call[c].left THEN "publish" ELSE "remove"]
    BY <1>5 DEF RemoveL2
  <2> DEFINE stage == IF keys = f.left THEN "publish" ELSE "remove"  left == f.left \ keys
             g == [f EXCEPT !.left = left, !.pc = stage]
  <2>3. call' = [call EXCEPT ![c] = g] /\ stage \in {"publish", "remove"}
    BY <2>2
  <2>4. f \in Frames /\ left \subseteq L2Keys[f.store][f.target]
    BY <2>1, RunningCall DEF LeftInv, Leaves
  <2> HIDE DEF stage, left
  <2>5. g.pc = stage /\ g.left = left /\ g.store = f.store /\ g.target = f.target
    <3> HIDE DEF f
    <3> QED  BY <2>4 DEF Frames
  <2> HIDE DEF g
  <2>6. Leaves(g)
    BY <2>3, <2>4, <2>5 DEF Leaves
  <2> QED  BY <1>1, <2>3, <2>6, OneLeft
<1>6. CASE ScanL2(c) /\ ~ Ends(c)
  <2> DEFINE stored == Items(L2Prefix[f.store][f.target.path])
  <2>1. f \in Frames
    BY <1>6, Scanned, RunningCall
  <2>2. PICK page \in SUBSET stored :
          call' = [call EXCEPT ![c] = [f EXCEPT !.pc = "unlink",
                    !.seen = (f.seen \cap stored) \ page, !.left = {item[1] : item \in page}]]
    BY <1>6, Scanned
  <2> DEFINE seen == (f.seen \cap stored) \ page  left == {item[1] : item \in page}
             g == [f EXCEPT !.pc = "unlink", !.seen = seen, !.left = left]
  <2>3. call' = [call EXCEPT ![c] = g]
    BY <2>2
  <2>4. \A k \in left : Matches(L2Prefix[f.store][f.target.path], k)
    BY DEF Items
  <2> HIDE DEF seen, left
  <2>5. g.pc = "unlink" /\ g.left = left /\ g.store = f.store /\ g.target = f.target
    <3> HIDE DEF f
    <3> QED  BY <2>1 DEF Frames
  <2> HIDE DEF g
  <2>6. Leaves(g)
    BY <2>4, <2>5 DEF Leaves
  <2> QED  BY <1>1, <2>3, <2>6, OneLeft
<1>7. CASE Unlink(c)
  <2>1. c \in Running /\ f.pc = "unlink"
    BY <1>7, Unlinked
  <2>2. PICK k \in f.left :
          call' = [call EXCEPT ![c] = [f EXCEPT !.left = f.left \ {k},
                     !.pc = IF f.left = {k} THEN "scan" ELSE "unlink"]]
    BY <1>7, Unlinked
  <2> DEFINE stage == IF f.left = {k} THEN "scan" ELSE "unlink"  left == f.left \ {k}
             g == [f EXCEPT !.left = left, !.pc = stage]
  <2>3. call' = [call EXCEPT ![c] = g] /\ stage \in {"scan", "unlink"}
    BY <2>2
  <2>4. f \in Frames /\ \A j \in left : Matches(L2Prefix[f.store][f.target.path], j)
    BY <2>1, RunningCall DEF LeftInv, Leaves
  <2> HIDE DEF stage, left
  <2>5. g.pc = stage /\ g.left = left /\ g.store = f.store /\ g.target = f.target
    <3> HIDE DEF f
    <3> QED  BY <2>4 DEF Frames
  <2> HIDE DEF g
  <2>6. Leaves(g)
    BY <2>3, <2>4, <2>5 DEF Leaves
  <2> QED  BY <1>1, <2>3, <2>6, OneLeft
<1>8. CASE Fill(c) \/ ClearRows(c) \/ Notify(c)
  BY <1>2, <1>8 DEF Fill, ClearRows, Notify
<1> QED  BY <1>2, <1>3, <1>4, <1>5, <1>6, <1>7, <1>8

LEMMA LeftInit == Init => LeftInv
BY DEF Init, Idle, Running, LeftInv

LEMMA LeftNext == TypeInv /\ LeftInv /\ [Next]_vars => LeftInv'
<1> SUFFICES ASSUME TypeInv, LeftInv, [Next]_vars  PROVE LeftInv'
  OBVIOUS
<1>1. CASE UNCHANGED <<driver, call>>
  BY <1>1, LeftStep
<1>2. ASSUME NEW p \in Procs, NEW name \in StoreNames \cup {None}, NEW s, s = Used(name),
             \/ \E c \in Calls, target \in Targets :
                  Get(c, p, s, target) \/ Set(c, p, s, target) \/ Delete(c, p, s, target)
             \/ \E target \in Wholes : ClearOne(p, s, target)
      PROVE  LeftInv'
  <2>1. s \in StoreNames
    BY <1>2, StoresAssumption DEF Used
  <2>2. ASSUME NEW target \in Wholes, ClearOne(p, s, target)  PROVE LeftInv'
    <3>1. PICK c \in Calls : Clear(p, target, [t \in {s} |-> c])
      BY <2>2 DEF ClearOne, Ready
    <3> DEFINE calls == [t \in {s} |-> c]
    <3>2. DOMAIN calls \subseteq StoreNames
      BY <2>1
    <3> HIDE DEF calls
    <3> QED  BY <3>1, <3>2, ClearLeft DEF calls
  <2> QED  BY <1>2, <2>1, <2>2, BeginLeft
<1>3. ASSUME NEW p \in Procs, ClearAll(p)  PROVE LeftInv'
  <2> DEFINE whole == [path |-> <<>>, keys |-> <<>>]
  <2>1. PICK calls \in [StoreNames -> Calls] : Clear(p, whole, calls)
    BY <1>3 DEF ClearAll, Ready
  <2>2. whole \in Wholes
    BY PathOf DEF Wholes
  <2> HIDE DEF whole
  <2> QED  BY <2>1, <2>2, ClearLeft
<1>4. ASSUME NEW c \in Calls,
             \/ ReadL2(c) \/ Fill(c) \/ WriteL2(c) \/ RemoveL2(c)
             \/ ClearRows(c) \/ ScanL2(c) \/ Unlink(c) \/ Notify(c)
      PROVE  LeftInv'
  BY <1>4, AwayLeft
<1>5. ASSUME NEW p \in Procs, NEW s \in StoreNames, Subscribe(p, s) \/ OnMessage(p, s)
      PROVE  LeftInv'
  BY <1>1, <1>5 DEF Subscribe, OnMessage, siteVars
<1> QED  BY <1>1, <1>2, <1>3, <1>4, <1>5 DEF Next, Ready, Running, vars, siteVars

----------------------------------------------------------------------------
(* Names and what clears match.                                           *)

(* A sequence and one element more.                                        *)
LEMMA OneMore ==
  ASSUME NEW C, NEW prefix \in Seq(C), NEW x \in C
  PROVE  /\ prefix \o <<x>> \in Seq(C) /\ Len(prefix \o <<x>>) = Len(prefix) + 1
         /\ (prefix \o <<x>>)[Len(prefix) + 1] = x
         /\ \A i \in 1..Len(prefix) : (prefix \o <<x>>)[i] = prefix[i]
<1>1. <<x>> \in Seq(C) /\ Len(<<x>>) = 1 /\ <<x>>[1] = x
  OBVIOUS
<1> QED  BY <1>1

(* A sequence that agrees with the beginning of another is a prefix of it. *)
LEMMA AgreesIsPrefix ==
  ASSUME NEW C, NEW p \in Seq(C), NEW key \in Seq(C), Len(p) <= Len(key),
         \A i \in 1..Len(p) : p[i] = key[i]
  PROVE  IsPrefix(p, key)
<1>1. p = SubSeq(key, 1, Len(p))
  OBVIOUS
<1>2. p = SubSeq(p, 1, Len(p))
  OBVIOUS
<1> QED  BY <1>1, <1>2 DEF IsPrefix

(* A pattern without a wildcard matches what begins with it.               *)
LEMMA PlainMatched ==
  ASSUME NEW C, NEW pattern \in Seq(C), NEW key \in Seq(C), NEW many, NEW one,
         Matched(pattern, key, many, one),
         \A i \in 1..Len(pattern) : pattern[i] \notin {many, one}
  PROVE  Len(pattern) <= Len(key) /\ \A i \in 1..Len(pattern) : pattern[i] = key[i]
<1> DEFINE literal == {i \in DOMAIN pattern : pattern[i] # many}
<1>1. DOMAIN pattern = 1..Len(pattern) /\ DOMAIN key = 1..Len(key) /\ Len(key) \in Nat /\ Len(pattern) \in Nat
  OBVIOUS
<1>2. literal = 1..Len(pattern)
  BY <1>1
<1>3. PICK at \in [literal -> DOMAIN key] :
        /\ \A i \in literal : pattern[i] \in {one, key[at[i]]}
        /\ \A i \in literal \cup {0}, j \in literal : i < j =>
             \/ (IF j = 0 THEN 0 ELSE at[j]) - (IF i = 0 THEN 0 ELSE at[i]) = j - i
             \/ \E n \in (i + 1)..(j - 1) : pattern[n] = many
  BY DEF Matched
<1>4. ASSUME NEW j \in literal  PROVE at[j] = j
  <2>1. j \in 1..Len(pattern) /\ j > 0 /\ at[j] \in 1..Len(key)
    BY <1>1, <1>2
  <2>2. \A n \in 1..(j - 1) : pattern[n] # many
    BY <1>1, <2>1
  <2> HIDE DEF literal
  <2>3. \/ (IF j = 0 THEN 0 ELSE at[j]) - (IF 0 = 0 THEN 0 ELSE at[0]) = j - 0
        \/ \E n \in (0 + 1)..(j - 1) : pattern[n] = many
    <3>1. 0 \in literal \cup {0} /\ 0 < j
      BY <2>1
    <3> QED  BY ONLY <1>3, <3>1
  <2> QED  BY <1>1, <2>1, <2>2, <2>3
<1>5. \A i \in 1..Len(pattern) : i \in 1..Len(key) /\ pattern[i] = key[i]
  <2> TAKE i \in 1..Len(pattern)
  <2>1. i \in literal /\ at[i] = i
    BY <1>2, <1>4
  <2>2. at[i] \in 1..Len(key)
    BY <1>1, <2>1
  <2> QED  BY <1>3, <2>1, <2>2
<1>6. Len(pattern) <= Len(key)
  <2>1. Len(pattern) = 0 \/ Len(pattern) \in 1..Len(pattern)
    BY <1>1
  <2> QED  BY <1>1, <1>5, <2>1
<1> QED  BY <1>5, <1>6

(* A prefix without wildcards, put before a colon.                         *)
LEMMA GlobStarts ==
  ASSUME NEW C, NEW x, x = ":", x \in C, NEW prefix \in Seq(C), NEW key \in Seq(C),
         prefix # <<>>, \A i \in DOMAIN prefix : prefix[i] \notin Wildcards, Glob(prefix, key)
  PROVE  StartsWith(prefix, key)
<1>1. PICK many : many = "*"
  OBVIOUS
<1>2. PICK one : one = "?"
  OBVIOUS
<1>3. PICK p : p = prefix \o <<x>>
  OBVIOUS
<1>4. x \notin {many, one} /\ {many, one} \subseteq Wildcards
  BY <1>1, <1>2 DEF Wildcards
<1>5. Matched(p, key, many, one)
  BY <1>1, <1>2, <1>3 DEF Glob
<1>6. p \in Seq(C) /\ \A i \in 1..Len(p) : p[i] \notin {many, one}
  BY <1>3, <1>4, OneMore
<1>7. IsPrefix(p, key)
  BY <1>5, <1>6, PlainMatched, AgreesIsPrefix
<1> QED  BY <1>3, <1>7 DEF StartsWith

LEMMA LikeStarts ==
  ASSUME NEW C, NEW x, x = ":", x \in C, NEW prefix \in Seq(C), NEW key \in Seq(C),
         Lower \in [C -> C], Lower[x] = x,
         \A ch \in C : Lower[ch] \in Wildcards => Lower[ch] = ch,
         \A i \in DOMAIN prefix : prefix[i] \notin Wildcards, Like(prefix, key)
  PROVE  StartsWith(LowerCase(prefix), LowerCase(key))
<1>1. PICK many : many = "%"
  OBVIOUS
<1>2. PICK one : one = "_"
  OBVIOUS
<1>3. PICK p : p = prefix \o <<x>>
  OBVIOUS
<1>4. x \notin {many, one} /\ {many, one} \subseteq Wildcards
  BY <1>1, <1>2 DEF Wildcards
<1>5. PICK low : low = LowerCase(p)
  OBVIOUS
<1>6. PICK of : of = LowerCase(key)
  OBVIOUS
<1>7. Matched(low, of, many, one)
  BY <1>1, <1>2, <1>3, <1>5, <1>6 DEF Like
<1>8. /\ p \in Seq(C) /\ Len(p) = Len(prefix) + 1 /\ p[Len(prefix) + 1] = x
      /\ \A i \in 1..Len(prefix) : p[i] = prefix[i]
  BY <1>3, OneMore
<1>9. /\ low \in Seq(C) /\ of \in Seq(C) /\ Len(low) = Len(p)
      /\ \A i \in 1..Len(p) : low[i] = Lower[p[i]]
  BY <1>5, <1>6, <1>8, Lowered
<1>10. \A i \in 1..Len(low) : low[i] \notin {many, one}
  <2> SUFFICES ASSUME NEW i \in 1..Len(low), low[i] \in Wildcards, low[i] # x  PROVE FALSE
    BY <1>4
  <2>1. i \in 1..Len(p) /\ p[i] \in C /\ low[i] = Lower[p[i]] /\ Len(prefix) \in Nat
    BY <1>8, <1>9
  <2>2. low[i] = p[i]
    BY <2>1
  <2>3. i \in 1..Len(prefix)
    BY <1>8, <2>1, <2>2
  <2> QED  BY <1>8, <2>2, <2>3
<1>11. IsPrefix(low, of)
  BY <1>7, <1>9, <1>10, PlainMatched, AgreesIsPrefix
<1>12. LowerCase(prefix) \o <<x>> = low
  <2>1. PICK q : q = LowerCase(prefix)
    OBVIOUS
  <2>2. q \in Seq(C) /\ Len(q) = Len(prefix) /\ \A i \in 1..Len(prefix) : q[i] = Lower[prefix[i]]
    BY <2>1, Lowered
  <2>3. PICK r : r = q \o <<x>>
    OBVIOUS
  <2>4. /\ r \in Seq(C) /\ Len(r) = Len(q) + 1 /\ r[Len(q) + 1] = x
        /\ \A i \in 1..Len(q) : r[i] = q[i]
    BY ONLY <2>2, <2>3, x \in C, OneMore
  <2>5. Len(prefix) \in Nat /\ Len(r) = Len(low)
    BY <1>8, <1>9, <2>2, <2>4
  <2>6. ASSUME NEW i \in 1..Len(r)  PROVE r[i] = low[i]
    <3>1. i \in 1..Len(p) /\ low[i] = Lower[p[i]]
      BY <1>9, <2>5
    <3>2. CASE i = Len(prefix) + 1
      BY <1>8, <2>2, <2>4, <3>1, <3>2
    <3>3. CASE i # Len(prefix) + 1
      <4>1. i \in 1..Len(prefix)
        BY <1>8, <2>5, <3>1, <3>3
      <4> QED  BY <1>8, <2>2, <2>4, <3>1, <4>1
    <3> QED  BY <3>2, <3>3
  <2>7. r = low
    BY <1>9, <2>4, <2>5, <2>6
  <2> QED  BY <2>1, <2>3, <2>7
<1> QED  BY <1>6, <1>11, <1>12 DEF StartsWith

(* Under plain prefixes every driver's clear matches what it covers.       *)
LEMMA MatchesCovers ==
  ASSUME PrefixesPlain, driver \in Backends, NEW s \in StoreNames,
         NEW target \in Targets \cup Wholes, NEW k \in L2All,
         Matches(L2Prefix[s][target.path], k)
  PROVE  k \in Covered(s, target, "clear")
<1>1. target.path \in Paths
  BY TargetTypes
<1>2. /\ L1Prefix[s][target.path] # <<>> /\ L2Prefix[s][target.path] # <<>>
      /\ \A i \in DOMAIN L2Prefix[s][target.path] : L2Prefix[s][target.path][i] \notin Wildcards
      /\ StartsWith(LowerCase(L2Prefix[s][target.path]), LowerCase(k))
           => StartsWith(L2Prefix[s][target.path], k)
  BY <1>1 DEF PrefixesPlain
<1> DEFINE prefix == L2Prefix[s][target.path]
<1>3. prefix \in Seq(Chars) /\ k \in Seq(Chars) /\ ":" \in Chars
  BY <1>1, PrefixTypes, L2KeysAreStrings, NamesAssumption
<1>4. \/ Glob(prefix, k) \/ Like(prefix, k) \/ StartsWith(prefix, k)
  BY <1>1, MatchesKey
<1> HIDE DEF prefix
<1>5. /\ Lower \in [Chars -> Chars] /\ Lower[":"] = ":"
      /\ \A ch \in Chars : Lower[ch] \in Wildcards => Lower[ch] = ch
  BY <1>3, NamesAssumption
<1>6. StartsWith(prefix, k)
  <2>1. PICK x : x = ":"
    OBVIOUS
  <2>2. x \in Chars /\ Lower[x] = x
    BY <1>3, <1>5, <2>1
  <2>3. prefix # <<>> /\ \A i \in DOMAIN prefix : prefix[i] \notin Wildcards
    BY <1>2 DEF prefix
  <2>4. CASE Glob(prefix, k)
    BY <1>3, <2>1, <2>2, <2>3, <2>4, GlobStarts
  <2>5. CASE Like(prefix, k)
    <3>1. StartsWith(LowerCase(prefix), LowerCase(k))
      BY <1>3, <1>5, <2>1, <2>2, <2>3, <2>5, LikeStarts
    <3> QED  BY <1>2, <3>1 DEF prefix
  <2> QED  BY <1>4, <2>4, <2>5
<1> QED  BY <1>2, <1>6 DEF prefix, Covered

----------------------------------------------------------------------------
(* Who removes a value.                                                    *)

LEMMA OwnL2Step ==
  ASSUME PrefixesPlain, TypeInv, LeftInv, NEW c \in Calls,
         WriteL2(c) \/ RemoveL2(c) \/ ClearRows(c) \/ Unlink(c)
  PROVE  OwnL2
<1> SUFFICES ASSUME NEW k \in L2All, l2[k] # None, l2'[k] = None
             PROVE  /\ c \in Running /\ call[c].method \in {"delete", "clear"}
                    /\ k \in Covered(call[c].store, call[c].target, call[c].method)
  BY DEF OwnL2
<1> DEFINE f == call[c]
<1>1. CASE WriteL2(c)
  <2> DEFINE key == L2Key(f.store, f.target)
  <2>1. l2' = [l2 EXCEPT ![key] = c]
    BY <1>1 DEF WriteL2
  <2> HIDE DEF key
  <2>2. l2'[k] \in {l2[k], c}
    BY <2>1 DEF TypeInv
  <2> QED  BY <2>2, NoneDiffers
<1>2. CASE RemoveL2(c)
  <2>1. c \in Running /\ f.pc = "remove"
    BY <1>2, Under DEF RemoveL2
  <2>2. PICK keys \in SUBSET f.left : l2' = [j \in L2All |-> IF j \in keys THEN None ELSE l2[j]]
    BY <1>2 DEF RemoveL2
  <2>3. k \in L2Keys[f.store][f.target]
    BY <2>1, <2>2 DEF LeftInv, Leaves
  <2>4. f.method = "delete"
    BY <2>1, RunningCall DEF PlacedCall
  <2> QED  BY <2>1, <2>3, <2>4 DEF Covered
<1>3. CASE ClearRows(c) \/ Unlink(c)
  <2>1. c \in Running /\ f.pc \in {"scan", "unlink"}
    BY <1>3, Under, Unlinked DEF ClearRows
  <2>2. f.method = "clear" /\ f.store \in StoreNames /\ f.target \in Targets \cup Wholes
    BY <2>1, RunningCall DEF PlacedCall
  <2>3. Matches(L2Prefix[f.store][f.target.path], k)
    <3>1. CASE ClearRows(c)
      BY <3>1 DEF ClearRows
    <3>2. CASE Unlink(c)
      <4>1. PICK j \in f.left : l2' = [l2 EXCEPT ![j] = None]
        BY <3>2, Unlinked
      <4>2. j = k
        BY <4>1 DEF TypeInv
      <4>3. f.pc = "unlink"
        BY <3>2, Unlinked
      <4> QED  BY <2>1, <4>1, <4>2, <4>3 DEF LeftInv, Leaves
    <3> QED  BY <1>3, <3>1, <3>2
  <2>4. driver \in Backends
    BY DEF TypeInv
  <2> HIDE DEF f
  <2>5. k \in Covered(f.store, f.target, "clear")
    BY <2>2, <2>3, <2>4, MatchesCovers
  <2> QED  BY <2>1, <2>2, <2>5 DEF f
<1> QED  BY <1>1, <1>2, <1>3

(* A full L1 drops an item for a new one only.                             *)
LEMMA PutOwns ==
  ASSUME TypeInv, NEW p \in Procs, NEW s \in StoreNames, NEW key \in L1All[s],
         NEW entry \in Entries, NEW items \in Put(l1[p][s], key, entry), WriteL1(p, s, items)
  PROVE  OwnL1
<1>1. l1[p][s] \in Tables(s)
  BY DEF TypeInv
<1>2. items \in Tables(s) /\ items[key] = entry
  BY <1>1, PutType
<1>3. /\ l1'[p][s] = items
      /\ \A q \in Procs, t \in StoreNames : q # p \/ t # s => l1'[q][t] = l1[q][t]
  BY <1>2, WriteType
<1>4. ASSUME NEW k \in L1All[s], l1[p][s][k] # None, items[k] = None
      PROVE  l1[p][s][key] = None
  <2> SUFFICES ASSUME l1[p][s][key] # None  PROVE FALSE
    OBVIOUS
  <2> DEFINE old == l1[p][s]
  <2>1. old \in [L1All[s] -> Entries \cup {None}]
    BY <1>1 DEF Tables
  <2>2. items = [old EXCEPT ![key] = entry]
    BY DEF Put
  <2> HIDE DEF old
  <2>3. items[k] \in {old[k], entry}
    BY <2>1, <2>2
  <2> QED  BY <1>4, <2>3, NoneDiffers DEF old
<1>5. ASSUME NEW q \in Procs, NEW t \in StoreNames, NEW k \in L1All[t],
             l1[q][t][k] # None, l1'[q][t][k] = None
      PROVE  OwnPlace(q, t, k)
  <2>1. q = p /\ t = s
    BY <1>3, <1>5
  <2>2. l1[q][t][key] = None /\ l1'[q][t][key] # None
    BY <1>2, <1>3, <1>4, <1>5, <2>1, NoneDiffers
  <2> QED  BY <2>1, <2>2 DEF OwnPlace
<1> QED  BY <1>5 DEF OwnL1

LEMMA SetOwns ==
  ASSUME TypeInv, NEW c \in Calls, NEW p \in Procs, NEW s \in StoreNames,
         NEW target \in Targets, Set(c, p, s, target)
  PROVE  OwnL1
<1> DEFINE key == L1Key(s, target)  entry == [val |-> c, valid |-> TRUE]
<1>1. Len(target.keys) = 1 /\ \E items \in Put(l1[p][s], key, entry) : WriteL1(p, s, items)
  BY DEF Set
<1>2. key \in L1All[s] /\ entry \in Entries
  BY <1>1, OneL1Key DEF Entries
<1> HIDE DEF key, entry
<1> QED  BY <1>1, <1>2, PutOwns

LEMMA FillOwns ==
  ASSUME TypeInv, NEW c \in Calls, Fill(c)
  PROVE  OwnL1
<1>1. PICK f : f = call[c]
  OBVIOUS
<1> DEFINE p == f.proc  s == f.store  key == L1Key(s, f.target)
           entry == [val |-> f.item, valid |-> TRUE]
<1>2. f.pc = "fill" /\ \E items \in Put(l1[p][s], key, entry) : WriteL1(p, s, items)
  BY <1>1 DEF Fill
<1>3. c \in Running
  BY <1>1, <1>2, Under
<1>4. /\ p \in Procs /\ s \in StoreNames /\ f.target \in Targets /\ Len(f.target.keys) = 1
      /\ f.item \in Calls
  BY <1>1, <1>2, <1>3, RunningCall DEF PlacedCall, OneKey
<1>5. key \in L1All[s] /\ entry \in Entries
  BY <1>4, OneL1Key DEF Entries
<1> HIDE DEF key, entry, p, s
<1> QED  BY <1>2, <1>4, <1>5, PutOwns

LEMMA DeleteOwns ==
  ASSUME TypeInv, NEW c \in Calls, NEW p \in Procs, NEW s \in StoreNames,
         NEW target \in Targets, Delete(c, p, s, target)
  PROVE  OwnL1
<1> DEFINE items == Removed(l1[p][s], L1Keys[s][target])
<1>1. Begin(c, p, s, target, "delete", "remove") /\ WriteL1(p, s, items)
  BY DEF Delete
<1>2. l1[p][s] \in Tables(s)
  BY DEF TypeInv
<1>3. items \in Tables(s)
  BY <1>2, RemovedType
<1>4. \A k \in L1All[s] : items[k] = IF k \in L1Keys[s][target] THEN None ELSE l1[p][s][k]
  BY <1>2 DEF Removed, Tables
<1> HIDE DEF items
<1>5. /\ l1'[p][s] = items
      /\ \A q \in Procs, t \in StoreNames : q # p \/ t # s => l1'[q][t] = l1[q][t]
  BY <1>1, <1>3, WriteType
<1>6. /\ call[c].pc = "idle" /\ call'[c].pc = "remove" /\ call'[c].method = "delete"
      /\ call'[c].proc = p /\ call'[c].store = s /\ call'[c].target = target
  BY <1>1, BeginStarted
<1>7. About(Notice(s, target, "delete"), s) = L1Keys[s][target]
  <2>1. target \in Targets \cup Wholes
    OBVIOUS
  <2> QED  BY <2>1, NoticeAbout
<1>8. ASSUME NEW q \in Procs, NEW t \in StoreNames, NEW k \in L1All[t],
             l1[q][t][k] # None, l1'[q][t][k] = None
      PROVE  OwnPlace(q, t, k)
  <2>1. q = p /\ t = s
    BY <1>5, <1>8
  <2>2. k \in L1Keys[s][target]
    BY <1>4, <1>5, <1>8, <2>1
  <2> QED  BY <1>6, <1>7, <2>1, <2>2 DEF OwnPlace
<1> QED  BY <1>8 DEF OwnL1

LEMMA ClearOwns ==
  ASSUME TypeInv, NEW p \in Procs, NEW target \in Wholes, NEW calls,
         DOMAIN calls \subseteq StoreNames, \A s \in DOMAIN calls : calls[s] \in Calls,
         IsInjective(calls), Clear(p, target, calls)
  PROVE  OwnL1
<1> SUFFICES ASSUME NEW q \in Procs, NEW t \in StoreNames, NEW k \in L1All[t],
                    l1[q][t][k] # None, l1'[q][t][k] = None
             PROVE  OwnPlace(q, t, k)
  BY DEF OwnL1
<1>1. q = p /\ t \in DOMAIN calls /\ k \in About(Notice(t, target, "clear"), t)
  BY ClearedFacts
<1> DEFINE c == calls[t]  pick == CHOOSE s \in DOMAIN calls : calls[s] = c
           f == Frame(p, t, target, "clear", "scan")
<1>2. c \in Calls /\ call[c].pc = "idle"
  BY <1>1 DEF Clear
<1>3. pick = t
  BY <1>1 DEF IsInjective
<1>4. call'[c] = Frame(p, pick, target, "clear", "scan")
  BY <1>1, <1>2 DEF Clear
<1> HIDE DEF c, pick
<1>5. call'[c] = f
  BY <1>3, <1>4
<1>6. Begun(f, p, t, target, "clear", "scan")
  <2>1. "clear" \in MessageTypes \cup {"get"} /\ target \in Targets \cup Wholes
    BY DEF MessageTypes
  <2> HIDE DEF f
  <2> QED  BY <2>1, FrameType DEF f
<1> HIDE DEF f
<1>7. /\ call'[c].pc = "scan" /\ call'[c].method = "clear" /\ call'[c].proc = p
      /\ call'[c].store = t /\ call'[c].target = target
  BY <1>5, <1>6 DEF Begun
<1> QED  BY <1>1, <1>2, <1>7 DEF OwnPlace

LEMMA OnMessageOwns ==
  ASSUME TypeInv, NEW p \in Procs, NEW s \in StoreNames, OnMessage(p, s)
  PROVE  OwnL1
<1> SUFFICES ASSUME NEW q \in Procs, NEW t \in StoreNames, NEW k \in L1All[t],
                    l1[q][t][k] # None, l1'[q][t][k] = None
             PROVE  OwnPlace(q, t, k)
  BY DEF OwnL1
<1>1. Heard(p, s, q, t, k)
  BY Received
<1>2. Len(wire'[p][s]) < Len(wire[p][s])
  <2> DEFINE w == wire[p][s]  Q == Seq(Carried)
  <2>1. w \in Q /\ wire \in [Procs -> [StoreNames -> Q]]
    BY DEF TypeInv
  <2>2. w # <<>> /\ wire' = [wire EXCEPT ![p][s] = Tail(w)]
    BY DEF OnMessage
  <2>3. Len(Tail(w)) < Len(w)
    <3> HIDE DEF w
    <3> QED  BY <2>1, <2>2
  <2> HIDE DEF Q
  <2>4. wire'[p][s] = Tail(w)
    BY <2>1, <2>2
  <2> QED  BY <2>3, <2>4
<1> QED  BY <1>1, <1>2 DEF OwnPlace, Heard

LEMMA Untouched == (UNCHANGED l2 => OwnL2) /\ (UNCHANGED l1 => OwnL1)
BY DEF OwnL2, OwnL1

LEMMA OwnStep ==
  ASSUME PrefixesPlain, TypeInv, LeftInv, Next
  PROVE  OwnL2 /\ OwnL1
<1>1. ASSUME NEW p \in Procs, NEW name \in StoreNames \cup {None}, NEW s, s = Used(name),
             \/ \E c \in Calls, target \in Targets :
                  Get(c, p, s, target) \/ Set(c, p, s, target) \/ Delete(c, p, s, target)
             \/ \E target \in Wholes : ClearOne(p, s, target)
      PROVE  OwnL2 /\ OwnL1
  <2>1. s \in StoreNames
    BY <1>1, StoresAssumption DEF Used
  <2>2. ASSUME NEW c \in Calls, NEW target \in Targets, Get(c, p, s, target)  PROVE OwnL2 /\ OwnL1
    BY <2>2, Untouched DEF Get
  <2>3. ASSUME NEW c \in Calls, NEW target \in Targets, Set(c, p, s, target)  PROVE OwnL2 /\ OwnL1
    <3>1. UNCHANGED l2
      BY <2>3 DEF Set
    <3> QED  BY <2>1, <2>3, <3>1, Untouched, SetOwns
  <2>4. ASSUME NEW c \in Calls, NEW target \in Targets, Delete(c, p, s, target)  PROVE OwnL2 /\ OwnL1
    <3>1. UNCHANGED l2
      BY <2>4 DEF Delete
    <3> QED  BY <2>1, <2>4, <3>1, Untouched, DeleteOwns
  <2>5. ASSUME NEW target \in Wholes, ClearOne(p, s, target)  PROVE OwnL2 /\ OwnL1
    <3>1. PICK c \in Calls : Clear(p, target, [t \in {s} |-> c])
      BY <2>5 DEF ClearOne, Ready
    <3> DEFINE calls == [t \in {s} |-> c]
    <3>2. /\ DOMAIN calls \subseteq StoreNames /\ \A t \in DOMAIN calls : calls[t] \in Calls
          /\ IsInjective(calls)
      BY <2>1 DEF IsInjective
    <3>3. Clear(p, target, calls)
      BY <3>1
    <3> HIDE DEF calls
    <3>4. UNCHANGED l2
      BY <3>3 DEF Clear
    <3> QED  BY <3>2, <3>3, <3>4, Untouched, ClearOwns
  <2> QED  BY <1>1, <2>2, <2>3, <2>4, <2>5
<1>2. ASSUME NEW p \in Procs, ClearAll(p)  PROVE OwnL2 /\ OwnL1
  <2> DEFINE whole == [path |-> <<>>, keys |-> <<>>]
  <2>1. PICK calls \in [StoreNames -> Calls] : IsInjective(calls) /\ Clear(p, whole, calls)
    BY <1>2 DEF ClearAll, Ready
  <2>2. whole \in Wholes
    BY PathOf DEF Wholes
  <2> HIDE DEF whole
  <2>3. UNCHANGED l2
    BY <2>1 DEF Clear
  <2> QED  BY <2>1, <2>2, <2>3, Untouched, ClearOwns
<1>3. ASSUME NEW c \in Calls, ReadL2(c) \/ ScanL2(c) \/ Notify(c)  PROVE OwnL2 /\ OwnL1
  BY <1>3, Untouched DEF ReadL2, ScanL2, Notify
<1>4. ASSUME NEW c \in Calls, Fill(c)  PROVE OwnL2 /\ OwnL1
  <2>1. UNCHANGED l2
    BY <1>4 DEF Fill
  <2> QED  BY <1>4, <2>1, Untouched, FillOwns
<1>5. ASSUME NEW c \in Calls, WriteL2(c) \/ RemoveL2(c) \/ ClearRows(c) \/ Unlink(c)  PROVE OwnL2 /\ OwnL1
  <2>1. UNCHANGED l1
    BY <1>5 DEF WriteL2, RemoveL2, ClearRows, Unlink
  <2> QED  BY <1>5, <2>1, Untouched, OwnL2Step
<1>6. ASSUME NEW p \in Procs, NEW s \in StoreNames, Subscribe(p, s) \/ OnMessage(p, s)
      PROVE  OwnL2 /\ OwnL1
  <2>1. UNCHANGED l2
    BY <1>6 DEF Subscribe, OnMessage
  <2>2. CASE Subscribe(p, s)
    BY <2>2, Untouched DEF Subscribe
  <2> QED  BY <1>6, <2>1, <2>2, Untouched, OnMessageOwns
<1> QED  BY <1>1, <1>2, <1>3, <1>4, <1>5, <1>6 DEF Next, Ready, Running

(* When no prefix is empty, none has a wildcard of SQL or of Redis in it,  *)
(* and no key begins with a prefix but for the case of letters, nothing    *)
(* disappears from L2 or from an L1 but by a delete or clear, or a message *)
(* of one, of a namespace the key is in, or to make room; names are free   *)
(* of brackets and backslashes, and a scan asks the one node there is      *)
(* (redis.ts:124-147, knex.ts:72-77, kysely.ts:92-98, memory.ts:99-105,    *)
(* base_driver.ts:13-35).                                                  *)
THEOREM StoresOnlyOwnRemoved ==
  ASSUME PrefixesPlain
  PROVE  Spec => OnlyOwnRemoved
<1>1. TypeInv /\ LeftInv /\ [Next]_vars => [OwnL2 /\ OwnL1]_vars
  BY OwnStep
<1>2. Spec => [][OwnL2 /\ OwnL1]_vars
  BY <1>1, TypeInvariance, LeftInit, LeftNext, PTL DEF Spec
<1> QED  BY <1>2 DEF OnlyOwnRemoved

----------------------------------------------------------------------------
(* Names that do not clash.                                                *)

(* An item is under the prefix it is stored with.                          *)
LEMMA ItemUnder ==
  ASSUME NEW prefix \in Seq(Chars), prefix # <<>>, NEW key \in Seq(Chars)
  PROVE  StartsWith(prefix, ItemKey(prefix, key))
<1>1. PICK x : x = ":"
  OBVIOUS
<1>2. x \in Chars
  BY <1>1, NamesAssumption
<1> DEFINE p == prefix \o <<x>>
<1>3. p \in Seq(Chars)
  BY <1>2, OneMore
<1> HIDE DEF p
<1>4. IsPrefix(p, p \o key)
  <2>1. /\ p \o key \in Seq(Chars) /\ Len(p) <= Len(p \o key)
        /\ \A i \in 1..Len(p) : (p \o key)[i] = p[i]
    BY <1>3
  <2>2. PICK whole : whole = p \o key
    OBVIOUS
  <2> QED  BY <1>3, <2>1, <2>2, AgreesIsPrefix
<1>5. ItemKey(prefix, key) = p \o key
  BY <1>1 DEF ItemKey, p
<1> QED  BY <1>1, <1>4, <1>5 DEF StartsWith, p

(* Stores with one prefix for both layers, none of whose keys is under a   *)
(* prefix of another store, have keys that go together                     *)
(* (bento_cache.ts:62-84, base_driver.ts:13-35).                           *)
THEOREM StoresApartAligned ==
  ASSUME StoresApart, PrefixesPlain
  PROVE  KeysAligned
<1> SUFFICES ASSUME NEW s \in StoreNames, NEW t \in StoreNames, NEW own \in Targets,
                    NEW target \in Targets \cup Wholes, NEW method \in {"set", "delete", "clear"},
                    Len(own.keys) = 1, L2Key(s, own) \in Covered(t, target, method)
             PROVE  s = t /\ L1Key(s, own) \in About(Notice(t, target, method), t)
  BY DEF KeysAligned
<1>1. target.path \in Paths /\ own.path \in Paths /\ target.keys \in Seq(StrSet)
  BY TargetTypes
<1>2. \A u \in StoreNames, path \in Paths : L1Prefix[u][path] = L2Prefix[u][path]
  BY DEF StoresApart, L1Prefix, L2Prefix, DriverRoot
<1>3. L1Key(s, own) = L2Key(s, own) /\ L1Key(s, own) \in L1All[s]
  BY <1>1, <1>2, OneL1Key DEF L1Key, L2Key
<1>4. L1Keys[t][target] = L2Keys[t][target]
  <2>1. PICK prefix : prefix = L1Prefix[t][target.path]
    OBVIOUS
  <2>2. L2Prefix[t][target.path] = prefix
    BY <1>1, <1>2, <2>1
  <2>3. L1Keys[t][target] = {ItemKey(prefix, target.keys[i]) : i \in DOMAIN target.keys}
    BY <2>1, KeyTypes
  <2>4. L2Keys[t][target] = {ItemKey(prefix, target.keys[i]) : i \in DOMAIN target.keys}
    BY <2>2, KeyTypes
  <2> QED  BY <2>3, <2>4
<1>5. StartsWith(L2Prefix[t][target.path], L2Key(s, own))
  <2>1. CASE method = "clear"
    BY <2>1 DEF Covered
  <2>2. CASE method # "clear"
    <3>1. L2Key(s, own) \in L2Keys[t][target]
      BY <2>2 DEF Covered
    <3>2. PICK i \in DOMAIN target.keys : L2Key(s, own) = ItemKey(L2Prefix[t][target.path], target.keys[i])
      BY <3>1, KeyTypes
    <3>3. target.keys[i] \in Seq(Chars)
      BY <1>1 DEF StrSet
    <3>4. L2Prefix[t][target.path] \in Seq(Chars) /\ L2Prefix[t][target.path] # <<>>
      BY <1>1, PrefixTypes DEF PrefixesPlain
    <3> QED  BY <3>2, <3>3, <3>4, ItemUnder
  <2> QED  BY <2>1, <2>2
<1>6. s = t
  BY <1>1, <1>5 DEF StoresApart
<1>7. L1Key(s, own) \in About(Notice(t, target, method), t)
  <2>1. CASE method = "clear"
    BY <1>1, <1>2, <1>3, <1>5, <1>6, <2>1, NoticeAbout
  <2>2. CASE method # "clear"
    BY <1>3, <1>4, <1>6, <2>2, NoticeAbout DEF Covered
  <2> QED  BY <2>1, <2>2
<1> QED  BY <1>6, <1>7
============================================================================
