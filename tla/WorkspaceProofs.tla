---------------------------- MODULE WorkspaceProofs ----------------------------
(* Lemmas about the operators of Workspace.  Filter is recursive, so what it   *)
(* returns is proved by induction; the induction itself rests on counting: a   *)
(* set of numbers closed under successor cannot stop anywhere, or adding one   *)
(* would map its finite part injectively into that part without 0.             *)
EXTENDS Workspace, FiniteSetTheorems, TLAPS

(* A set of numbers with 0 in it and closed under successor has all of them.   *)
LEMMA Induction ==
    ASSUME NEW S \in SUBSET Nat, 0 \in S, \A n \in S : n + 1 \in S
    PROVE  S = Nat
<1> SUFFICES ASSUME NEW m \in Nat, m \notin S PROVE FALSE
  OBVIOUS
<1> DEFINE A == {n \in S : n <= m}
           f == [n \in A |-> n + 1]
<1>1. IsFiniteSet(A) /\ Cardinality(A) \in Nat
  <2>1. A \in SUBSET Nat /\ \A n \in A : n <= m
    OBVIOUS
  <2> HIDE DEF A
  <2> QED BY <2>1, FS_BoundedSetOfNaturals, FS_CardinalityType
<1>2. 0 \in A
  OBVIOUS
<1>3. f \in [A -> A \ {0}]
  <2>1. ASSUME NEW n \in A PROVE n + 1 \in A \ {0}
    OBVIOUS
  <2> HIDE DEF A
  <2> QED BY <2>1
<1>4. \A x, y \in A : f[x] = f[y] => x = y
  OBVIOUS
<1> HIDE DEF A, f
<1>5. IsFiniteSet(A \ {0}) /\ Cardinality(A \ {0}) = Cardinality(A) - 1
  BY <1>1, <1>2, FS_RemoveElement
<1>6. Cardinality(A \ {0}) < Cardinality(A)
  BY <1>1, <1>5
<1> QED BY <1>1, <1>3, <1>4, <1>5, <1>6, FS_PigeonHole

(* Append adds one member, and keeps the others.                               *)
LEMMA AppendMembers ==
    ASSUME NEW T, NEW s \in Seq(T), NEW x
    PROVE  ToSet(Append(s, x)) = ToSet(s) \cup {x}
<1>1. /\ Len(s) \in Nat /\ DOMAIN s = 1..Len(s)
      /\ DOMAIN Append(s, x) = 1..(Len(s) + 1)
      /\ \A i \in 1..Len(s) : Append(s, x)[i] = s[i]
      /\ Append(s, x)[Len(s) + 1] = x
  OBVIOUS
<1> QED BY <1>1 DEF ToSet

(* Filter goes through s from its start, and takes what is in S.               *)
Picks(k, s, S) ==
    /\ k[0] = <<>> /\ k[Len(s)] = Filter(s, S)
    /\ \A i \in 1..Len(s) : k[i] = IF s[i] \in S THEN Append(k[i - 1], s[i]) ELSE k[i - 1]

(* ... so that there is what it has taken up to every place.                   *)
LEMMA FilterSteps ==
    ASSUME NEW T, NEW s \in Seq(T), NEW S
    PROVE  \E k : Picks(k, s, S)
<1> DEFINE n == Len(s)
           After(f, i) == IF i = 0 THEN <<>>
                          ELSE IF s[i] \in S THEN Append(f[i - 1], s[i]) ELSE f[i - 1]
           Upto(k) == \E f : f = [i \in 0..k |-> After(f, i)]
           kept == CHOOSE f : f = [i \in 0..n |-> After(f, i)]
<1>1. Filter(s, S) = kept[n]
  BY DEF Filter
<1>2. n \in Nat /\ \A i \in 1..n : s[i] \in T
  OBVIOUS
<1>3. Upto(n)
  <2> DEFINE E == {k \in Nat : Upto(k)}
  <2>1. 0 \in E
    <3> DEFINE f == [i \in 0..0 |-> <<>>]
    <3>1. f = [i \in 0..0 |-> After(f, i)]
      OBVIOUS
    <3> QED BY <3>1
  <2>2. ASSUME NEW k \in E PROVE k + 1 \in E
    <3>1. k \in Nat /\ \E f : f = [i \in 0..k |-> After(f, i)]
      BY <2>2
    <3> HIDE DEF E, Upto
    <3>2. PICK f : f = [i \in 0..k |-> After(f, i)]
      BY <3>1
    <3>3. PICK g : g = [i \in 0..(k + 1) |-> IF i <= k THEN f[i] ELSE After(f, k + 1)]
      OBVIOUS
    <3>4. \A i \in 0..k : f[i] = After(f, i)
      <4> HIDE DEF After
      <4> QED BY <3>2
    <3>5. ASSUME NEW i \in 0..(k + 1) PROVE g[i] = After(g, i)
      <4>1. i # 0 => g[i - 1] = f[i - 1]
        BY <3>1, <3>3
      <4>2. After(g, i) = After(f, i)
        BY <4>1
      <4>3. g[i] = After(f, i)
        <5>1. CASE i <= k
          <6> HIDE DEF After
          <6> QED BY <5>1, <3>1, <3>3, <3>4
        <5>2. CASE i = k + 1
          <6> HIDE DEF After
          <6> QED BY <5>2, <3>1, <3>3
        <5> QED BY <5>1, <5>2, <3>1
      <4> QED BY <4>2, <4>3
    <3>6. g = [i \in 0..(k + 1) |-> After(g, i)]
      <4> HIDE DEF After
      <4> QED BY <3>3, <3>5
    <3> HIDE DEF After
    <3> QED BY <3>1, <3>6 DEF E, Upto
  <2> HIDE DEF E
  <2>3. E = Nat
    BY <2>1, <2>2, Induction DEF E
  <2> QED BY <1>2, <2>3 DEF E
<1>4. kept = [i \in 0..n |-> After(kept, i)]
  BY <1>3
<1> HIDE DEF kept
<1>5. /\ kept[0] = <<>>
      /\ \A i \in 1..n : kept[i] = IF s[i] \in S THEN Append(kept[i - 1], s[i]) ELSE kept[i - 1]
  <2>1. \A i \in 0..n : kept[i] = After(kept, i)
    <3> HIDE DEF After
    <3> QED BY <1>4
  <2>2. 0 \in 0..n /\ \A i \in 1..n : i \in 0..n /\ i # 0
    BY <1>2
  <2> HIDE DEF n
  <2> QED BY <2>1, <2>2
<1> HIDE DEF n
<1>6. Picks(kept, s, S)
  BY <1>1, <1>5 DEF Picks, n
<1> QED BY <1>6

(* Filter(s, S) has exactly those members of s that are in S, and starts as s  *)
(* does if it can.                                                             *)
LEMMA FilterMembers ==
    ASSUME NEW T, NEW s \in Seq(T), NEW S
    PROVE  /\ Filter(s, S) \in Seq(T \cap S)
           /\ ToSet(Filter(s, S)) = ToSet(s) \cap S
           /\ (s # <<>> /\ s[1] \in S) => Filter(s, S) # <<>> /\ Filter(s, S)[1] = s[1]
<1> DEFINE n == Len(s)
<1>1. n \in Nat /\ \A i \in 1..n : s[i] \in T
  OBVIOUS
<1>2. PICK kept : Picks(kept, s, S)
  BY FilterSteps
<1>3. Filter(s, S) = kept[n]
  BY <1>2 DEF Picks
<1>4. /\ kept[0] = <<>>
      /\ \A i \in 1..n : kept[i] = IF s[i] \in S THEN Append(kept[i - 1], s[i]) ELSE kept[i - 1]
  BY <1>2 DEF Picks
<1> DEFINE Starts(i) == (i # 0 /\ s[1] \in S) => kept[i] # <<>> /\ kept[i][1] = s[1]
           P(i) == kept[i] \in Seq(T \cap S) /\ ToSet(kept[i]) = {s[j] : j \in 1..i} \cap S /\ Starts(i)
           G == {i \in Nat : i <= n => P(i)}
<1>5. 0 \in G
  <2>1. <<>> \in Seq(T \cap S) /\ ToSet(<<>>) = {}
    BY DEF ToSet
  <2>2. {s[j] : j \in 1..0} = {}
    OBVIOUS
  <2> QED BY <1>4, <2>1, <2>2
<1>6. ASSUME NEW i \in G PROVE i + 1 \in G
  <2> SUFFICES ASSUME i + 1 <= n PROVE P(i + 1)
    OBVIOUS
  <2>1. kept[i] \in Seq(T \cap S) /\ ToSet(kept[i]) = {s[j] : j \in 1..i} \cap S /\ Starts(i)
    BY <1>1
  <2>2. kept[i + 1] = IF s[i + 1] \in S THEN Append(kept[i], s[i + 1]) ELSE kept[i]
    BY <1>1, <1>4
  <2>3. {s[j] : j \in 1..(i + 1)} = {s[j] : j \in 1..i} \cup {s[i + 1]}
    BY <1>1
  <2>4. i = 0 => kept[i] = <<>>
    BY <1>4
  <2>5. Starts(i + 1)
    BY <1>1, <2>1, <2>2, <2>4
  <2> HIDE DEF Starts
  <2>6. CASE s[i + 1] \notin S
    BY <2>1, <2>2, <2>3, <2>6, <2>5
  <2>7. CASE s[i + 1] \in S
    <3>1. ToSet(Append(kept[i], s[i + 1])) = ToSet(kept[i]) \cup {s[i + 1]}
      BY <2>1, AppendMembers
    <3>2. s[i + 1] \in T \cap S
      BY <1>1, <2>7
    <3> QED BY <2>1, <2>2, <2>3, <2>7, <2>5, <3>1, <3>2
  <2> QED BY <2>6, <2>7
<1> HIDE DEF G
<1>7. G = Nat
  BY <1>5, <1>6, Induction DEF G
<1>8. P(n)
  <2> HIDE DEF P, n
  <2> QED BY <1>1, <1>7 DEF G
<1>9. ToSet(s) = {s[j] : j \in 1..n} /\ (s # <<>> => n # 0)
  BY DEF ToSet
<1> QED BY <1>3, <1>8, <1>9

(* Two sequences are one if they have the same members.                        *)
LEMMA SameSequence ==
    ASSUME NEW T, NEW s \in Seq(T), NEW t \in Seq(T), Len(s) = Len(t), \A i \in 1..Len(s) : s[i] = t[i]
    PROVE  s = t
  OBVIOUS

(* Filter takes all of s if all of it is in S.                                 *)
LEMMA FilterAll ==
    ASSUME NEW S, NEW s \in Seq(S)
    PROVE  Filter(s, S) = s
<1> DEFINE n == Len(s)
<1>1. n \in Nat /\ \A i \in 1..n : s[i] \in S
  OBVIOUS
<1>2. PICK k : Picks(k, s, S)
  BY FilterSteps
<1> DEFINE P(i) == k[i] \in Seq(S) /\ Len(k[i]) = i /\ \A j \in 1..i : k[i][j] = s[j]
           G == {i \in Nat : i <= n => P(i)}
<1>3. 0 \in G
  <2>1. k[0] = <<>>
    BY <1>2 DEF Picks
  <2>2. <<>> \in Seq(S) /\ Len(<<>>) = 0
    OBVIOUS
  <2>3. P(0)
    BY <2>1, <2>2
  <2> QED BY <2>3
<1>4. ASSUME NEW i \in G PROVE i + 1 \in G
  <2> SUFFICES ASSUME i + 1 <= n PROVE P(i + 1)
    OBVIOUS
  <2>1. P(i) /\ i \in Nat
    BY <1>1
  <2>2. k[i + 1] = Append(k[i], s[i + 1]) /\ s[i + 1] \in S
    <3>1. i + 1 \in 1..Len(s) /\ (i + 1) - 1 = i
      BY <1>1, <2>1
    <3>2. k[i + 1] = IF s[i + 1] \in S THEN Append(k[(i + 1) - 1], s[i + 1]) ELSE k[(i + 1) - 1]
      BY <1>2, <3>1, Zenon DEF Picks
    <3> QED BY <1>1, <3>1, <3>2
  <2>3. Append(k[i], s[i + 1]) \in Seq(S) /\ Len(Append(k[i], s[i + 1])) = i + 1
    BY <2>1, <2>2
  <2>4. ASSUME NEW j \in 1..(i + 1) PROVE Append(k[i], s[i + 1])[j] = s[j]
    BY <2>1, <2>2
  <2> QED BY <2>2, <2>3, <2>4
<1> HIDE DEF G
<1>5. G = Nat
  BY <1>3, <1>4, Induction DEF G
<1>6. P(n)
  <2> HIDE DEF P, n
  <2> QED BY <1>1, <1>5 DEF G
<1>7. k[n] = Filter(s, S)
  BY <1>2 DEF Picks
<1> QED BY <1>6, <1>7, SameSequence

(* A function on the naturals can be defined by where it starts and how it     *)
(* goes on.                                                                    *)
Continues(f, a, g) == f[0] = a /\ \A n \in Nat : f[n + 1] = g[n][f[n]]

(* Whatever a recursive definition of this form starts with and goes on with,  *)
(* there is such a function.                                                   *)
LEMMA Recursion ==
    ASSUME NEW T, NEW a \in T, NEW g \in [Nat -> [T -> T]]
    PROVE  \E f \in [Nat -> T] : Continues(f, a, g)
<1> DEFINE Upto(k) == {h \in [0..k -> T] : h[0] = a /\ \A i \in 0..k : i < k => h[i + 1] = g[i][h[i]]}
           E == {k \in Nat : Upto(k) # {}}
<1>1. 0 \in E
  <2>1. [i \in 0..0 |-> a] \in Upto(0)
    OBVIOUS
  <2> QED BY <2>1
<1>2. ASSUME NEW k \in E PROVE k + 1 \in E
  <2>1. k \in Nat /\ Upto(k) # {}
    BY <1>2
  <2>2. PICK h \in [0..k -> T] : h[0] = a /\ \A i \in 0..k : i < k => h[i + 1] = g[i][h[i]]
    BY <2>1
  <2>3. PICK m : m = [i \in 0..(k + 1) |-> IF i <= k THEN h[i] ELSE g[k][h[k]]]
    OBVIOUS
  <2>4. h[k] \in T /\ g[k][h[k]] \in T
    BY <2>1, <2>2
  <2>5. m \in [0..(k + 1) -> T]
    BY <2>1, <2>2, <2>3, <2>4
  <2>6. m[0] = a
    BY <2>1, <2>2, <2>3
  <2>7. ASSUME NEW i \in 0..(k + 1), i < k + 1 PROVE m[i + 1] = g[i][m[i]]
    <3>1. CASE i < k
      BY <2>1, <2>2, <2>3, <2>7, <3>1
    <3>2. CASE i = k
      BY <2>1, <2>2, <2>3, <2>7, <3>2
    <3> QED BY <2>1, <2>7, <3>1, <3>2
  <2>8. m \in Upto(k + 1)
    BY <2>5, <2>6, <2>7
  <2> HIDE DEF Upto
  <2> QED BY <2>1, <2>8
<1>3. \A k \in Nat : Upto(k) # {}
  <2> HIDE DEF Upto
  <2> HIDE DEF E
  <2>1. E = Nat
    <3>1. E \in SUBSET Nat
      BY DEF E
    <3> QED BY <1>1, <1>2, <3>1, Induction
  <2> QED BY <2>1 DEF E
<1>4. ASSUME NEW k \in Nat, NEW h \in Upto(k), NEW m \in Upto(k + 1) PROVE h[k] = m[k]
  <2> DEFINE S == {i \in Nat : i <= k => h[i] = m[i]}
  <2>1. 0 \in S
    OBVIOUS
  <2>2. ASSUME NEW i \in S PROVE i + 1 \in S
    <3> SUFFICES ASSUME i + 1 <= k PROVE h[i + 1] = m[i + 1]
      BY <2>2
    <3>1. i \in 0..k /\ i < k /\ i \in 0..(k + 1) /\ i < k + 1 /\ h[i] = m[i]
      BY <2>2
    <3> QED BY <3>1
  <2> HIDE DEF S
  <2>3. S = Nat
    <3>1. S \in SUBSET Nat
      BY DEF S
    <3> QED BY <2>1, <2>2, <3>1, Induction
  <2> QED BY <2>3 DEF S
<1> DEFINE f == [k \in Nat |-> (CHOOSE h \in Upto(k) : TRUE)[k]]
<1>5. \A k \in Nat : (CHOOSE h \in Upto(k) : TRUE) \in Upto(k)
  <2> HIDE DEF Upto
  <2> QED BY <1>3
<1>6. f \in [Nat -> T]
  <2>1. ASSUME NEW k \in Nat, NEW h \in Upto(k) PROVE h[k] \in T
    OBVIOUS
  <2> HIDE DEF Upto
  <2> QED BY <1>5, <2>1
<1>7. f[0] = a
  <2>1. ASSUME NEW h \in Upto(0) PROVE h[0] = a
    OBVIOUS
  <2> HIDE DEF Upto
  <2> QED BY <1>5, <2>1
<1>8. ASSUME NEW n \in Nat PROVE f[n + 1] = g[n][f[n]]
  <2>1. PICK h \in Upto(n) : h = CHOOSE m \in Upto(n) : TRUE
    <3> HIDE DEF Upto
    <3> QED BY <1>5
  <2>2. PICK m \in Upto(n + 1) : m = CHOOSE k \in Upto(n + 1) : TRUE
    <3> HIDE DEF Upto
    <3> QED BY <1>5
  <2>3. f[n] = h[n] /\ f[n + 1] = m[n + 1]
    <3> HIDE DEF Upto
    <3> QED BY <2>1, <2>2
  <2>4. m[n + 1] = g[n][m[n]]
    OBVIOUS
  <2> HIDE DEF f, Upto
  <2> QED BY <1>4, <2>3, <2>4
<1>9. Continues(f, a, g)
  <2> HIDE DEF f
  <2> QED BY <1>7, <1>8 DEF Continues
<1> HIDE DEF f
<1> QED BY <1>6, <1>9

(* What holds at the start and goes on holding holds up to n.                  *)
LEMMA UpTo ==
    ASSUME NEW n \in Nat, NEW S, 0 \in S, \A i \in 0..(n - 1) : i \in S => i + 1 \in S
    PROVE  \A i \in 0..n : i \in S
<1> DEFINE E == {i \in Nat : i <= n => i \in S}
<1>1. 0 \in E /\ \A i \in E : i + 1 \in E
  OBVIOUS
<1> HIDE DEF E
<1>2. E = Nat
  <2>1. E \in SUBSET Nat
    BY DEF E
  <2> QED BY <1>1, <2>1, Induction
<1> QED BY <1>2 DEF E

(* A recursive function on 0..n.                                               *)
Runs(k, n, T, a, g) ==
    /\ k = [i \in 0..n |-> k[i]]
    /\ k[0] = a
    /\ \A i \in 1..n : k[i - 1] \in T => k[i] = g[i - 1][k[i - 1]]

(* There is one, and it stays in the set it starts in.                         *)
LEMMA RunExists ==
    ASSUME NEW n \in Nat, NEW T, NEW a \in T, NEW g \in [Nat -> [T -> T]]
    PROVE  \E k \in [0..n -> T] : Runs(k, n, T, a, g)
<1>1. PICK f \in [Nat -> T] : Continues(f, a, g)
  BY Recursion
<1> DEFINE k == [i \in 0..n |-> f[i]]
<1>2. k \in [0..n -> T] /\ k = [i \in 0..n |-> k[i]] /\ k[0] = a
  BY <1>1 DEF Continues
<1>3. ASSUME NEW i \in 1..n PROVE k[i] = g[i - 1][k[i - 1]]
  <2>1. i - 1 \in Nat /\ i - 1 \in 0..n /\ (i - 1) + 1 = i
    OBVIOUS
  <2>2. f[(i - 1) + 1] = g[i - 1][f[i - 1]]
    BY <1>1, <2>1 DEF Continues
  <2> QED BY <2>1, <2>2
<1> HIDE DEF k
<1> QED BY <1>2, <1>3 DEF Runs

(* What such a function is if it never leaves T.                               *)
Ran(k, n, T, g) == k \in [0..n -> T] /\ \A i \in 1..n : k[i] = g[i - 1][k[i - 1]]

(* It never does.                                                              *)
LEMMA RunTyped ==
    ASSUME NEW n \in Nat, NEW T, NEW a \in T, NEW g \in [Nat -> [T -> T]], NEW k, Runs(k, n, T, a, g)
    PROVE  Ran(k, n, T, g)
<1> DEFINE S == {i \in 0..n : k[i] \in T}
<1>1. 0 \in S
  BY DEF Runs
<1>2. ASSUME NEW i \in 0..(n - 1), i \in S PROVE i + 1 \in S
  <2>1. i + 1 \in 1..n /\ (i + 1) - 1 = i /\ k[i] \in T /\ i \in Nat /\ i + 1 \in 0..n
    BY <1>2
  <2>2. k[i + 1] = g[i][k[i]]
    BY <2>1 DEF Runs
  <2> QED BY <2>1, <2>2
<1> HIDE DEF S
<1>3. \A i \in 0..n : k[i] \in T
  BY <1>1, <1>2, UpTo DEF S
<1>4. k \in [0..n -> T]
  BY <1>3 DEF Runs
<1>5. ASSUME NEW i \in 1..n PROVE k[i] = g[i - 1][k[i - 1]]
  <2>1. i - 1 \in 0..n
    OBVIOUS
  <2> QED BY <1>3, <2>1 DEF Runs
<1> QED BY <1>4, <1>5 DEF Ran

(* A set of numbers has a least one.                                           *)
LEMMA LeastOf ==
    ASSUME NEW S \in SUBSET Nat, NEW x \in S
    PROVE  \E e \in S : \A f \in S : e <= f
<1> SUFFICES ASSUME \A e \in S : \E f \in S : ~(e <= f) PROVE FALSE
  OBVIOUS
<1> DEFINE E == {n \in Nat : \A m \in 0..n : m \notin S}
<1>1. 0 \in E
  <2>1. 0 \notin S
    <3>1. \A f \in S : 0 <= f
      OBVIOUS
    <3> QED BY <3>1
  <2> QED BY <2>1
<1>2. ASSUME NEW n \in E PROVE n + 1 \in E
  <2>1. n \in Nat /\ \A m \in 0..n : m \notin S
    BY <1>2
  <2>2. ASSUME n + 1 \in S PROVE FALSE
    <3>1. PICK f \in S : ~(n + 1 <= f)
      BY <2>2
    <3>2. f \in 0..n
      BY <2>1, <3>1
    <3> QED BY <2>1, <3>2
  <2>3. \A m \in 0..(n + 1) : m \in 0..n \/ m = n + 1
    BY <2>1
  <2> QED BY <2>1, <2>2, <2>3
<1> HIDE DEF E
<1>3. E = Nat
  <2>1. E \in SUBSET Nat
    BY DEF E
  <2> QED BY <1>1, <1>2, <2>1, Induction
<1>4. x \in E /\ x \in 0..x
  BY <1>3
<1> QED BY <1>4 DEF E

(* Two sequences in a row.                                                     *)
Joined(x, y, T) ==
    /\ x \o y \in Seq(T) /\ Len(x \o y) = Len(x) + Len(y)
    /\ \A m \in 1..Len(x) : (x \o y)[m] = x[m]
    /\ \A m \in 1..Len(y) : (x \o y)[Len(x) + m] = y[m]

(* What stands where after two sequences are joined.                         *)
LEMMA SequencesJoin ==
    ASSUME NEW T, NEW x \in Seq(T), NEW y \in Seq(T)
    PROVE  Joined(x, y, T)
  BY DEF Joined

(* A part of a sequence.                                                       *)
Part(s, i, j, T) ==
    /\ SubSeq(s, i + 1, j) \in Seq(T) /\ Len(SubSeq(s, i + 1, j)) = j - i
    /\ \A x \in 1..(j - i) : SubSeq(s, i + 1, j)[x] = s[i + x]

(* What stands where in a part of a sequence.                                *)
LEMMA PartOf ==
    ASSUME NEW T, NEW s \in Seq(T), NEW i \in Nat, NEW j \in Nat, i <= j, j <= Len(s)
    PROVE  Part(s, i, j, T)
  BY DEF Part

(* A sequence with one member more.                                            *)
Appended(s, x, T) ==
    /\ Append(s, x) \in Seq(T) /\ Len(s) \in Nat /\ Len(Append(s, x)) = Len(s) + 1
    /\ Append(s, x)[Len(s) + 1] = x
    /\ \A l \in 1..Len(s) : Append(s, x)[l] = s[l] /\ s[l] \in T

(* What stands where once a member is appended.                              *)
LEMMA OneAppended ==
    ASSUME NEW T, NEW s \in Seq(T), NEW x \in T
    PROVE  Appended(s, x, T)
  BY DEF Appended

(* Two sequences, written as one, have the members of both.                    *)
LEMMA ConcatMembers ==
    ASSUME NEW T, NEW s \in Seq(T), NEW t \in Seq(T)
    PROVE  s \o t \in Seq(T) /\ ToSet(s \o t) = ToSet(s) \cup ToSet(t)
<1> DEFINE q == s \o t
           m == Len(s)
           n == Len(t)
<1>1. /\ m \in Nat /\ n \in Nat /\ DOMAIN s = 1..m /\ DOMAIN t = 1..n /\ DOMAIN q = 1..(m + n)
      /\ \A j \in 1..(m + n) : q[j] = IF j <= m THEN s[j] ELSE t[j - m]
  OBVIOUS
<1>2. s \o t \in Seq(T)
  OBVIOUS
<1> HIDE DEF q, m, n
<1>3. ASSUME NEW j \in 1..n PROVE m + j \in DOMAIN q /\ q[m + j] = t[j]
  BY <1>1
<1>4. ASSUME NEW j \in 1..m PROVE j \in DOMAIN q /\ q[j] = s[j]
  BY <1>1
<1>5. ASSUME NEW j \in 1..(m + n) PROVE q[j] \in ToSet(s) \cup ToSet(t)
  <2>1. CASE j \in 1..m
    BY <1>1, <1>4, <2>1 DEF ToSet
  <2>2. CASE j - m \in 1..n
    <3>1. q[j] = t[j - m]
      BY <1>1, <2>2
    <3> QED BY <1>1, <2>2, <3>1 DEF ToSet
  <2> QED BY <1>1, <2>1, <2>2
<1>6. ToSet(t) \subseteq ToSet(q)
  BY <1>1, <1>3 DEF ToSet
<1>7. ToSet(s) \subseteq ToSet(q)
  BY <1>1, <1>4 DEF ToSet
<1>8. ToSet(q) \subseteq ToSet(s) \cup ToSet(t)
  BY <1>1, <1>5 DEF ToSet
<1> QED BY <1>2, <1>6, <1>7, <1>8 DEF q

(* What a sequence of sequences amounts to, sequence by sequence, and in all.  *)
Flat(acc, s, T) ==
    /\ acc \in [0..Len(s) -> Seq(T)]
    /\ acc[0] = <<>>
    /\ \A i \in 1..Len(s) : acc[i] = acc[i - 1] \o s[i]
    /\ FlattenSeq(s) = acc[Len(s)]

(* FlattenSeq writes them one after the other.                                 *)
LEMMA Flattens ==
    ASSUME NEW T, NEW s \in Seq(Seq(T))
    PROVE  \E acc : Flat(acc, s, T)
<1> DEFINE n == Len(s)
           B == Seq(T)
           g == [i \in Nat |-> [x \in B |-> IF i < n THEN x \o s[i + 1] ELSE x]]
           next(f, i) == IF i = 1 THEN s[i] ELSE f[i - 1] \o s[i]
           f == CHOOSE h : h = [i \in 1..n |-> next(h, i)]
<1>1. n \in Nat /\ <<>> \in B /\ \A i \in 1..n : s[i] \in B
  OBVIOUS
<1>2. FlattenSeq(s) = IF n = 0 THEN s ELSE f[n]
  BY DEF FlattenSeq
<1>3. n = 0 => s = <<>>
  BY <1>1
<1>4. \A x, y \in B : x \o y \in B
  OBVIOUS
<1>5. \A x \in B : <<>> \o x = x
  OBVIOUS
<1> HIDE DEF n, B
<1>6. g \in [Nat -> [B -> B]]
  <2>1. \A i \in Nat : i < n => i + 1 \in 1..n
    BY <1>1
  <2> QED BY <1>1, <1>4, <2>1
<1>7. ASSUME NEW i \in 1..n, NEW x \in B PROVE g[i - 1][x] = x \o s[i]
  <2>1. i - 1 \in Nat /\ (i - 1) + 1 = i /\ i - 1 < n
    BY <1>1
  <2> QED BY <2>1
<1>8. PICK h \in [0..n -> B] : Runs(h, n, B, <<>>, g)
  <2> HIDE DEF g
  <2> QED BY <1>1, <1>6, RunExists
<1>9. h[0] = <<>> /\ \A i \in 1..n : h[i] = h[i - 1] \o s[i]
  <2>1. ASSUME NEW i \in 1..n PROVE h[i] = h[i - 1] \o s[i]
    <3>1. i - 1 \in 0..n
      BY <1>1
    <3>2. h[i - 1] \in B
      <4> HIDE DEF g
      <4> QED BY <1>8, <3>1
    <3>3. h[i] = g[i - 1][h[i - 1]]
      <4> HIDE DEF g
      <4> QED BY <1>8, <3>2 DEF Runs
    <3> HIDE DEF g
    <3> QED BY <1>7, <3>2, <3>3
  <2> QED BY <1>8, <2>1 DEF Runs
<1> HIDE DEF g
<1> DEFINE k == [i \in 1..n |-> h[i]]
<1>10. ASSUME NEW i \in 1..n PROVE k[i] = next(k, i)
  <2>1. k[i] = h[i] /\ (i # 1 => k[i - 1] = h[i - 1])
    BY <1>1
  <2>2. i = 1 => h[i] = s[i]
    <3>1. i = 1 => h[i - 1] = <<>> /\ s[i] \in B
      BY <1>1, <1>9
    <3> QED BY <1>5, <1>9, <3>1
  <2> HIDE DEF k
  <2> QED BY <1>9, <2>1, <2>2
<1>11. k = [i \in 1..n |-> k[i]]
  OBVIOUS
<1>12. f = [i \in 1..n |-> next(f, i)]
  <2> HIDE DEF k, next
  <2>1. k = [i \in 1..n |-> next(k, i)]
    BY <1>10, <1>11
  <2> QED BY <2>1
<1> HIDE DEF f, k
<1>13. \A i \in 1..n : f[i] = next(f, i)
  <2> HIDE DEF next
  <2> QED BY <1>12
<1> DEFINE S == {i \in 0..n : i = 0 \/ f[i] = h[i]}
<1>14. ASSUME NEW i \in 0..(n - 1), i \in S PROVE i + 1 \in S
  <2>1. i + 1 \in 1..n /\ i + 1 \in 0..n /\ (i + 1) - 1 = i
    BY <1>1
  <2>2. h[i + 1] = h[i] \o s[i + 1]
    BY <1>9, <2>1
  <2>3. i = 0 => h[i + 1] = s[i + 1] /\ f[i + 1] = s[i + 1]
    <3>1. i = 0 => i + 1 = 1 /\ h[i] = <<>> /\ s[i + 1] \in B
      BY <1>1, <1>9, <2>1
    <3>2. f[i + 1] = next(f, i + 1)
      <4> HIDE DEF next
      <4> QED BY <1>13, <2>1
    <3> QED BY <1>5, <2>2, <3>1, <3>2
  <2>4. i # 0 => f[i + 1] = f[i] \o s[i + 1]
    <3>1. f[i + 1] = next(f, i + 1)
      <4> HIDE DEF next
      <4> QED BY <1>13, <2>1
    <3>2. i # 0 => i + 1 # 1
      BY <1>1
    <3> QED BY <2>1, <3>1, <3>2
  <2> QED BY <1>14, <2>1, <2>2, <2>3, <2>4
<1>15. n \in S
  <2>1. 0 \in S
    BY <1>1
  <2> HIDE DEF S
  <2>2. \A i \in 0..n : i \in S
    BY <1>1, <1>14, <2>1, UpTo
  <2> QED BY <1>1, <2>2
<1>16. FlattenSeq(s) = h[n]
  BY <1>2, <1>3, <1>9, <1>15
<1> QED BY <1>8, <1>9, <1>16 DEF Flat, n, B

(* A sequence of sequences, written as one, has the members of all.            *)
LEMMA FlattenMembers ==
    ASSUME NEW T, NEW s \in Seq(Seq(T))
    PROVE  FlattenSeq(s) \in Seq(T) /\ ToSet(FlattenSeq(s)) = UNION {ToSet(s[i]) : i \in DOMAIN s}
<1>1. PICK acc : Flat(acc, s, T)
  BY Flattens
<1> DEFINE n == Len(s)
           S == {i \in 0..n : ToSet(acc[i]) = UNION {ToSet(s[j]) : j \in 1..i}}
<1>2. n \in Nat /\ DOMAIN s = 1..n /\ \A i \in 1..n : s[i] \in Seq(T)
  OBVIOUS
<1>3. /\ acc \in [0..n -> Seq(T)] /\ acc[0] = <<>> /\ FlattenSeq(s) = acc[n]
      /\ \A i \in 1..n : acc[i] = acc[i - 1] \o s[i]
  BY <1>1 DEF Flat
<1> HIDE DEF n
<1>4. 0 \in S
  <2>1. ToSet(acc[0]) = {} /\ 1..0 = {} /\ 0 \in 0..n
    BY <1>2, <1>3 DEF ToSet
  <2> QED BY <2>1
<1>5. ASSUME NEW i \in 0..(n - 1), i \in S PROVE i + 1 \in S
  <2>1. i + 1 \in 1..n /\ i + 1 \in 0..n /\ i \in 0..n /\ (i + 1) - 1 = i /\ 1..(i + 1) = 1..i \cup {i + 1}
    BY <1>2
  <2>2. acc[i + 1] = acc[i] \o s[i + 1] /\ acc[i] \in Seq(T) /\ s[i + 1] \in Seq(T)
    BY <1>2, <1>3, <2>1
  <2>3. ToSet(acc[i] \o s[i + 1]) = ToSet(acc[i]) \cup ToSet(s[i + 1])
    BY <2>2, ConcatMembers
  <2>4. ToSet(acc[i]) = UNION {ToSet(s[j]) : j \in 1..i}
    BY <1>5
  <2>5. UNION {ToSet(s[j]) : j \in 1..(i + 1)} = (UNION {ToSet(s[j]) : j \in 1..i}) \cup ToSet(s[i + 1])
    BY <2>1
  <2> QED BY <2>1, <2>2, <2>3, <2>4, <2>5
<1> HIDE DEF S
<1>6. \A i \in 0..n : i \in S
  BY <1>2, <1>4, <1>5, UpTo
<1>7. n \in S
  BY <1>2, <1>6
<1> QED BY <1>2, <1>3, <1>7 DEF S

-------------------------------------------------------------------------------
(* What parsing keeps of the documents of a view can be resolved: an fga.mod   *)
(* lists .fga files, a store test names one file or none; and a path is        *)
(* answered by a document of that very file.                                   *)
ViewOK(v) ==
    /\ v.owner \in [Paths -> URIs \cup {NoURI}]
    /\ \A p \in Paths : v.owner[p] # NoURI => PathOf[v.owner[p]] = p
    /\ \A m \in DocsOfKind(v, "mod") : Listed(v, m) \in Seq({q \in Paths : KindOf[q] = "model"})
    /\ \A s \in DocsOfKind(v, "store") : Text(v, s).model \in Paths \cup {NoPath}

(* Whoever answers for a file is stored.                                       *)
OwnersStored(v) == \A p \in Paths : v.owner[p] # NoURI => v.owner[p] \in Docs(v)

ModelURIs == {u \in URIs : Kind(u) = "model"}

(* A URI whose name says what is in it names a file.                           *)
LEMMA KindsAreOfFiles ==
    ASSUME NEW u \in URIs, Kind(u) # "unknown"
    PROVE  PathOf[u] \in Paths /\ Kind(u) = KindOf[PathOf[u]]
  BY PathAssumption DEF Kind

(* The documents of a list of paths are those that answer for them.            *)
LEMMA LoadedMembers ==
    ASSUME NEW v, ViewOK(v), NEW paths \in Seq(Paths)
    PROVE  /\ Loaded(v, paths) \in Seq(URIs)
           /\ ToSet(Loaded(v, paths)) = {v.owner[p] : p \in ToSet(paths)} \cap URIs
<1> DEFINE T == URIs \cup {NoURI}
           s == [i \in DOMAIN paths |-> v.owner[paths[i]]]
<1>1. DOMAIN paths = 1..Len(paths) /\ Len(paths) \in Nat /\ \A i \in DOMAIN paths : paths[i] \in Paths
  OBVIOUS
<1>2. \A i \in DOMAIN paths : v.owner[paths[i]] \in T
  BY <1>1 DEF ViewOK
<1>3. s \in Seq(T)
  <2> HIDE DEF T
  <2> QED BY <1>1, <1>2
<1>4. ToSet(s) = {v.owner[p] : p \in ToSet(paths)}
  BY <1>1 DEF ToSet
<1>5. T \cap URIs = URIs
  OBVIOUS
<1> HIDE DEF T, s
<1>6. Filter(s, URIs) \in Seq(T \cap URIs) /\ ToSet(Filter(s, URIs)) = ToSet(s) \cap URIs
  BY <1>3, FilterMembers
<1> QED BY <1>4, <1>5, <1>6 DEF Loaded, s

(* ... which are models, if the paths are those of models.                     *)
LEMMA LoadedAreModels ==
    ASSUME NEW v, ViewOK(v), NEW paths \in Seq({q \in Paths : KindOf[q] = "model"})
    PROVE  /\ paths \in Seq(Paths)
           /\ ToSet(Loaded(v, paths)) \subseteq ModelURIs
<1>1. paths \in Seq(Paths) /\ \A i \in DOMAIN paths : KindOf[paths[i]] = "model"
  OBVIOUS
<1>2. ASSUME NEW p \in ToSet(paths), v.owner[p] \in URIs PROVE Kind(v.owner[p]) = "model"
  <2>1. p \in Paths /\ KindOf[p] = "model"
    BY <1>1 DEF ToSet
  <2> QED BY <1>2, <2>1, PathAssumption DEF ViewOK, Kind
<1> QED BY <1>1, <1>2, LoadedMembers DEF ModelURIs

(* View.LoadedModels keeps the models of a list of paths.                      *)
LEMMA LoadedModelsMembers ==
    ASSUME NEW v, ViewOK(v), NEW paths \in Seq(Paths)
    PROVE  /\ LoadedModels(v, paths) \in Seq(ModelURIs)
           /\ ToSet(LoadedModels(v, paths)) = ToSet(Loaded(v, paths)) \cap ModelURIs
<1>1. Loaded(v, paths) \in Seq(URIs)
  BY LoadedMembers
<1>2. URIs \cap ModelURIs = ModelURIs
  BY DEF ModelURIs
<1>3. LoadedModels(v, paths) = Filter(Loaded(v, paths), ModelURIs)
  BY DEF LoadedModels, ModelURIs
<1> HIDE DEF ModelURIs
<1>4. /\ Filter(Loaded(v, paths), ModelURIs) \in Seq(URIs \cap ModelURIs)
      /\ ToSet(Filter(Loaded(v, paths), ModelURIs)) = ToSet(Loaded(v, paths)) \cap ModelURIs
  BY <1>1, FilterMembers
<1> QED BY <1>2, <1>3, <1>4

(* Sorting documents by path keeps all of them.                                *)
LEMMA ByPathMembers ==
    ASSUME NEW docs \in SUBSET URIs
    PROVE  /\ ByPath(docs) \in Seq(docs) /\ ToSet(ByPath(docs)) = docs
           /\ docs # {} => ByPath(docs)[1] \in docs
<1>1. ByPath(docs) \in Seq(URIs \cap docs) /\ ToSet(ByPath(docs)) = URIs \cap docs
  BY FilterMembers, OrderAssumption DEF ByPath
<1>2. URIs \cap docs = docs
  OBVIOUS
<1>3. ASSUME docs # {} PROVE ByPath(docs)[1] \in docs
  <2>1. DOMAIN ByPath(docs) # {}
    BY <1>1, <1>2, <1>3 DEF ToSet
  <2>2. 1 \in DOMAIN ByPath(docs)
    BY <1>1, <2>1
  <2> QED BY <1>1, <1>2, <2>2 DEF ToSet
<1> QED BY <1>1, <1>2, <1>3

(* The fga.mod that claims a path is stored and lists the path.                *)
LEMMA ModForClaims ==
    ASSUME NEW v, NEW path, ModFor(v, path) # NoURI
    PROVE  ModFor(v, path) \in DocsOfKind(v, "mod") /\ path \in ToSet(Listed(v, ModFor(v, path)))
<1> DEFINE claims == {m \in DocsOfKind(v, "mod") : path \in ToSet(Text(v, m).contents)}
<1>1. claims # {} /\ ModFor(v, path) = ByPath(claims)[1]
  BY DEF ModFor
<1>2. claims \in SUBSET URIs
  BY DEF DocsOfKind, Docs
<1>3. ByPath(claims)[1] \in claims
  <2> HIDE DEF claims
  <2> QED BY <1>1, <1>2, ByPathMembers
<1> QED BY <1>1, <1>3 DEF Listed

(* findModFile returns a candidate, or nothing.                                *)
LEMMA NearestModIsAPath ==
    ASSUME NEW disk, NEW path \in Paths
    PROVE  NearestMod(disk, path) \subseteq Paths
<1> DEFINE S == {p \in Paths : disk[p] # NoFile}
           there == Filter(ModCandidates[path], S)
<1>1. ModCandidates[path] \in Seq(Paths)
  BY OrderAssumption
<1>2. there \in Seq(Paths \cap S)
  <2> HIDE DEF S
  <2> QED BY <1>1, FilterMembers
<1>3. NearestMod(disk, path) = IF there = <<>> THEN {} ELSE {there[1]}
  BY DEF NearestMod
<1>4. there # <<>> => there[1] \in Paths
  <2> HIDE DEF S, there
  <2> QED BY <1>2
<1> QED BY <1>3, <1>4

(* What a document refers to are files.                                        *)
LEMMA ReferencesArePaths ==
    ASSUME NEW v, ViewOK(v), NEW disk, NEW u \in Docs(v)
    PROVE  References(v, disk, u) \subseteq Paths
<1>1. u \in URIs
  BY DEF Docs
<1>2. CASE Kind(u) = "mod"
  <2>1. Listed(v, u) \in Seq({q \in Paths : KindOf[q] = "model"})
    BY <1>2 DEF ViewOK, DocsOfKind
  <2>2. ToSet(Listed(v, u)) \subseteq Paths
    BY <2>1 DEF ToSet
  <2> QED BY <1>2, <2>2 DEF References
<1>3. CASE Kind(u) = "store"
  BY <1>3 DEF References, ViewOK, DocsOfKind
<1>4. CASE Kind(u) = "model"
  BY <1>1, <1>4, KindsAreOfFiles, NearestModIsAPath DEF References
<1>5. CASE Kind(u) \notin {"mod", "store", "model"}
  BY <1>5 DEF References
<1> QED BY <1>2, <1>3, <1>4, <1>5

(* The documents that bound the names of a document are stored models.         *)
LEMMA ScopesAreModels ==
    ASSUME NEW v, ViewOK(v), OwnersStored(v), NEW u \in Docs(v)
    PROVE  ScopeFor(v, u) \in Seq(DocsOfKind(v, "model"))
<1> DEFINE M == DocsOfKind(v, "model")
<1> SUFFICES ScopeFor(v, u) \in Seq(M)
  OBVIOUS
<1>1. ASSUME NEW paths \in Seq(Paths) PROVE LoadedModels(v, paths) \in Seq(M)
  <2>1. /\ LoadedModels(v, paths) \in Seq(ModelURIs)
        /\ ToSet(LoadedModels(v, paths)) = ToSet(Loaded(v, paths)) \cap ModelURIs
        /\ ToSet(Loaded(v, paths)) = {v.owner[p] : p \in ToSet(paths)} \cap URIs
    BY LoadedMembers, LoadedModelsMembers
  <2>2. ToSet(paths) \subseteq Paths
    BY DEF ToSet
  <2>3. ToSet(Loaded(v, paths)) \subseteq Docs(v)
    BY <2>1, <2>2, PathAssumption DEF OwnersStored
  <2>4. ToSet(LoadedModels(v, paths)) \subseteq M
    BY <2>1, <2>3 DEF ModelURIs, DocsOfKind
  <2> HIDE DEF M
  <2> QED BY <2>1, <2>4 DEF ToSet
<1>2. ModelDocs(v) \in Seq(M)
  BY ByPathMembers DEF ModelDocs, DocsOfKind, Docs
<1>3. ASSUME NEW mod \in DocsOfKind(v, "mod") PROVE LoadedModels(v, Listed(v, mod)) \in Seq(M)
  <2>1. Listed(v, mod) \in Seq(Paths)
    BY LoadedAreModels DEF ViewOK
  <2> QED BY <1>1, <2>1
<1>4. ASSUME NEW path \in Paths PROVE ScopeOfModelRef(v, path) \in Seq(M)
  <2> DEFINE w == v.owner[path]
  <2>1. w = NoURI \/ w \in Docs(v)
    BY DEF OwnersStored
  <2>2. <<>> \in Seq(M)
    OBVIOUS
  <2>3. CASE w = NoURI
    BY <2>2, <2>3 DEF ScopeOfModelRef
  <2>4. CASE w # NoURI /\ Kind(w) = "mod"
    <3>1. w \in DocsOfKind(v, "mod")
      BY <2>1, <2>4 DEF DocsOfKind
    <3> QED BY <1>3, <2>4, <3>1 DEF ScopeOfModelRef
  <2>5. CASE w # NoURI /\ Kind(w) = "model"
    <3>1. w \in M
      BY <2>1, <2>5 DEF DocsOfKind
    <3>2. <<w>> \in Seq(M)
      BY <3>1
    <3> QED BY <2>5, <3>2 DEF ScopeOfModelRef
  <2>6. CASE w # NoURI /\ Kind(w) \notin {"mod", "model"}
    BY <2>2, <2>6 DEF ScopeOfModelRef
  <2> QED BY <2>3, <2>4, <2>5, <2>6
<1> HIDE DEF M
<1>5. ASSUME NEW docs \in Seq(M) PROVE OrElse(docs, ModelDocs(v)) \in Seq(M)
  BY <1>2 DEF OrElse
<1>6. CASE Kind(u) = "model"
  <2>1. ScopeFor(v, u) = IF ModFor(v, PathOf[u]) # NoURI THEN LoadedModels(v, Listed(v, ModFor(v, PathOf[u])))
                         ELSE ModelDocs(v)
    BY <1>6 DEF ScopeFor
  <2> QED BY <1>2, <1>3, <2>1, ModForClaims
<1>7. CASE Kind(u) = "store"
  <2>1. Text(v, u).model \in Paths \cup {NoPath}
    BY <1>7 DEF ViewOK, DocsOfKind
  <2>2. ScopeFor(v, u) = IF Text(v, u).model # NoPath THEN OrElse(ScopeOfModelRef(v, Text(v, u).model), ModelDocs(v))
                         ELSE ModelDocs(v)
    BY <1>7 DEF ScopeFor
  <2> QED BY <1>2, <1>4, <1>5, <2>1, <2>2
<1>8. CASE Kind(u) = "mod"
  <2>1. ScopeFor(v, u) = OrElse(LoadedModels(v, Listed(v, u)), ModelDocs(v)) /\ u \in DocsOfKind(v, "mod")
    BY <1>8 DEF ScopeFor, DocsOfKind
  <2> QED BY <1>3, <1>5, <2>1
<1>9. CASE Kind(u) \notin {"model", "store", "mod"}
  <2>1. ScopeFor(v, u) = ModelDocs(v)
    BY <1>9 DEF ScopeFor
  <2> QED BY <1>2, <2>1
<1> QED BY <1>6, <1>7, <1>8, <1>9
===============================================================================
