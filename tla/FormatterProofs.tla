--------------------------- MODULE FormatterProofs ----------------------------
(* Formatting keeps the model, whatever the file and wherever its author puts  *)
(* line ends and comments.                                                     *)
EXTENDS Formatter, WorkspaceProofs

(* An author who lays a file out and has it formatted.                         *)
FormatterSpec == FormatterInit /\ [][FormatterNext]_formatterVars

(* What texts are made of.                                                     *)
Ink == ToSet(Source) \cup {Newline, Comment}
FileOK == file \in Seq(Ink)

(* The tokens are strings.                                                     *)
LEMMA SourceTyped ==
    /\ Source \in Seq(STRING) /\ Len(Source) \in Nat
    /\ Newline # Comment /\ {Newline, Comment} \cap ToSet(Source) = {}
<1>1. Source \in Seq(STRING) /\ Newline # Comment /\ {Newline, Comment} \cap ToSet(Source) = {}
  BY SyntaxAssumption
<1> QED BY <1>1

-------------------------------------------------------------------------------
(* The lexer going through a text from the mode c: how many tokens it has seen *)
(* and its mode, after each of the text's members.                             *)
Modes == {"code", "comment"}
Shown(r, h, p) == r[p] \notin {Newline, Comment} /\ h[p - 1] = "code"

Scan(r, c, k, h) ==
    /\ k \in [0..Len(r) -> Nat] /\ h \in [0..Len(r) -> Modes]
    /\ k[0] = 0 /\ h[0] = c
    /\ \A p \in 1..Len(r) :
          /\ r[p] = Newline => h[p] = "code"
          /\ r[p] = Comment => h[p] = "comment"
          /\ r[p] \notin {Newline, Comment} => h[p] = h[p - 1]
          /\ Shown(r, h, p) => k[p] = k[p - 1] + 1
          /\ ~Shown(r, h, p) => k[p] = k[p - 1]

(* It gets through every text.                                                 *)
LEMMA ScanExists ==
    ASSUME NEW r \in Seq(Ink), NEW c \in Modes
    PROVE  \E k, h : Scan(r, c, k, h)
<1> DEFINE n == Len(r)
           T == Nat \X Modes
           shown(i, x) == r[i] \notin {Newline, Comment} /\ x[2] = "code"
           mode(i, x) == IF r[i] = Newline THEN "code" ELSE IF r[i] = Comment THEN "comment" ELSE x[2]
           next(i, x) == <<IF shown(i, x) THEN x[1] + 1 ELSE x[1], mode(i, x)>>
           g == [i \in Nat |-> [x \in T |-> next(i + 1, x)]]
           a == <<0, c>>
<1>1. n \in Nat /\ a \in T
  OBVIOUS
<1>2. ASSUME NEW i, NEW x \in T PROVE next(i, x) \in T
  BY DEF Modes
<1> HIDE DEF n, a
<1>3. g \in [Nat -> [T -> T]]
  <2> HIDE DEF next, T
  <2> QED BY <1>2
<1>4. PICK s \in [0..n -> T] : Runs(s, n, T, a, g)
  <2> HIDE DEF g, T
  <2> QED BY <1>1, <1>3, RunExists
<1>5. Ran(s, n, T, g)
  <2> HIDE DEF g, T
  <2> QED BY <1>1, <1>3, <1>4, RunTyped
<1>6. ASSUME NEW i \in 1..n PROVE i - 1 \in 0..n /\ s[i - 1] \in T /\ s[i] = next(i, s[i - 1])
  <2>1. i - 1 \in Nat /\ (i - 1) + 1 = i /\ i - 1 \in 0..n
    BY <1>1
  <2>2. s[i] = g[i - 1][s[i - 1]] /\ s[i - 1] \in T
    <3> HIDE DEF g, T
    <3> QED BY <1>4, <1>5, <2>1 DEF Ran
  <2> HIDE DEF next, T
  <2> QED BY <2>1, <2>2
<1>7. s[0] = a
  BY <1>4 DEF Runs
<1> DEFINE k == [i \in 0..n |-> s[i][1]]
           h == [i \in 0..n |-> s[i][2]]
<1>8. k \in [0..n -> Nat] /\ h \in [0..n -> Modes] /\ k[0] = 0 /\ h[0] = c
  <2>1. \A i \in 0..n : s[i][1] \in Nat /\ s[i][2] \in Modes
    BY <1>4
  <2>2. s[0][1] = 0 /\ s[0][2] = c /\ 0 \in 0..n
    BY <1>1, <1>7 DEF a
  <2> QED BY <2>1, <2>2
<1>9. ASSUME NEW i \in 1..n
      PROVE  /\ r[i] = Newline => h[i] = "code"
             /\ r[i] = Comment => h[i] = "comment"
             /\ r[i] \notin {Newline, Comment} => h[i] = h[i - 1]
             /\ Shown(r, h, i) => k[i] = k[i - 1] + 1
             /\ ~Shown(r, h, i) => k[i] = k[i - 1]
  <2> DEFINE x == s[i - 1]
  <2>1. x \in T /\ s[i] = next(i, x) /\ i \in 0..n
    <3>1. i \in 0..n
      BY <1>1
    <3> HIDE DEF T, next
    <3> QED BY <1>6, <3>1
  <2>2. k[i] = s[i][1] /\ h[i] = s[i][2] /\ k[i - 1] = x[1] /\ h[i - 1] = x[2]
    BY <1>6, <2>1
  <2>3. Newline # Comment
    BY SyntaxAssumption
  <2> HIDE DEF k, h, x, T
  <2>4. s[i][1] = (IF shown(i, x) THEN x[1] + 1 ELSE x[1]) /\ s[i][2] = mode(i, x)
    BY <2>1
  <2> QED BY <2>2, <2>3, <2>4 DEF Shown
<1> HIDE DEF k, h, g
<1>10. Scan(r, c, k, h)
  BY <1>8, <1>9 DEF Scan, n
<1> QED BY <1>10

(* From within a comment it sees no more tokens.                               *)
LEMMA CommentsHide ==
    ASSUME NEW s \in Seq(Ink), NEW k, NEW h, Scan(s, "code", k, h), NEW l, NEW m, Scan(s, "comment", l, m)
    PROVE  l[Len(s)] <= k[Len(s)]
<1> DEFINE n == Len(s)
           S == {p \in 0..n : l[p] <= k[p] /\ (m[p] = "code" => h[p] = "code")}
<1>1. n \in Nat
  OBVIOUS
<1>2. /\ k \in [0..n -> Nat] /\ l \in [0..n -> Nat] /\ k[0] = 0 /\ l[0] = 0 /\ m[0] = "comment"
      /\ h \in [0..n -> Modes] /\ m \in [0..n -> Modes]
  BY DEF Scan
<1> HIDE DEF n
<1>3. 0 \in S
  BY <1>1, <1>2
<1>4. ASSUME NEW p \in 0..(n - 1), p \in S PROVE p + 1 \in S
  <2>1. p + 1 \in 1..n /\ p + 1 \in 0..n /\ (p + 1) - 1 = p /\ p \in 0..n
    BY <1>1
  <2> DEFINE q == p + 1
  <2>2. /\ s[q] = Newline => h[q] = "code" /\ m[q] = "code"
        /\ s[q] = Comment => h[q] = "comment" /\ m[q] = "comment"
        /\ s[q] \notin {Newline, Comment} => h[q] = h[p] /\ m[q] = m[p]
        /\ Shown(s, h, q) => k[q] = k[p] + 1
        /\ ~Shown(s, h, q) => k[q] = k[p]
        /\ Shown(s, m, q) => l[q] = l[p] + 1
        /\ ~Shown(s, m, q) => l[q] = l[p]
    BY <2>1 DEF Scan, n
  <2>3. l[p] <= k[p] /\ (m[p] = "code" => h[p] = "code") /\ l[p] \in Nat /\ k[p] \in Nat
    BY <1>2, <1>4, <2>1
  <2>4. (Shown(s, h, q) <=> s[q] \notin {Newline, Comment} /\ h[p] = "code")
        /\ (Shown(s, m, q) <=> s[q] \notin {Newline, Comment} /\ m[p] = "code")
    BY <2>1 DEF Shown
  <2> HIDE DEF q
  <2>5. m[q] = "code" => h[q] = "code"
    BY <2>2, <2>3
  <2>6. l[q] <= k[q]
    BY <2>2, <2>3, <2>4
  <2> QED BY <2>1, <2>5, <2>6 DEF q
<1> HIDE DEF S
<1>5. n \in S
  <2>1. \A p \in 0..n : p \in S
    BY <1>1, <1>3, <1>4, UpTo
  <2> QED BY <1>1, <2>1
<1> QED BY <1>5 DEF S, n

(* K and H go through r and then, from where that ends, through s.             *)
ScanJoins(r, s, k, h, l, m, K, H) ==
    LET x == Len(r)
    IN  /\ K[x + Len(s)] = k[x] + l[Len(s)] /\ H[x + Len(s)] = m[Len(s)]
        /\ \A p \in 1..x : K[p] = k[p] /\ H[p - 1] = h[p - 1]
        /\ \A p \in 1..Len(s) : K[x + p] = k[x] + l[p] /\ H[x + p - 1] = m[p - 1]

(* One text after another.                                                     *)
LEMMA ScansJoin ==
    ASSUME NEW r \in Seq(Ink), NEW s \in Seq(Ink), NEW k, NEW h, Scan(r, "code", k, h),
           NEW l, NEW m, Scan(s, h[Len(r)], l, m)
    PROVE  \E K, H : Scan(r \o s, "code", K, H) /\ ScanJoins(r, s, k, h, l, m, K, H)
<1> DEFINE x == Len(r)
           y == Len(s)
           K == [p \in 0..(x + y) |-> IF p <= x THEN k[p] ELSE k[x] + l[p - x]]
           H == [p \in 0..(x + y) |-> IF p <= x THEN h[p] ELSE m[p - x]]
           t == r \o s
<1>1. x \in Nat /\ y \in Nat /\ x + y \in Nat
  OBVIOUS
<1>2. /\ Len(t) = x + y
      /\ \A p \in 1..x : t[p] = r[p]
      /\ \A p \in 1..y : t[x + p] = s[p]
  <2>1. Joined(r, s, Ink)
    BY SequencesJoin
  <2> QED BY <2>1 DEF Joined
<1>3. /\ k \in [0..x -> Nat] /\ h \in [0..x -> Modes] /\ k[0] = 0 /\ h[0] = "code"
      /\ l \in [0..y -> Nat] /\ m \in [0..y -> Modes] /\ l[0] = 0 /\ m[0] = h[x]
  BY DEF Scan
<1> HIDE DEF x, y, t
<1>4. \A p \in 0..x : K[p] = k[p] /\ H[p] = h[p]
  BY <1>1
<1>5. \A p \in 0..y : K[x + p] = k[x] + l[p] /\ H[x + p] = m[p]
  <2>1. ASSUME NEW p \in 0..y PROVE K[x + p] = k[x] + l[p] /\ H[x + p] = m[p]
    <3>1. x + p \in 0..(x + y) /\ (x + p) - x = p /\ (p = 0 <=> x + p <= x) /\ p \in Nat
      BY <1>1
    <3>2. p = 0 => x + p = x /\ k[x] + l[p] = k[x]
      BY <1>1, <1>3
    <3> QED BY <1>3, <3>1, <3>2
  <2> QED BY <2>1
<1>6. K \in [0..(x + y) -> Nat] /\ H \in [0..(x + y) -> Modes]
  <2>1. ASSUME NEW p \in 0..(x + y) PROVE K[p] \in Nat /\ H[p] \in Modes
    <3>1. CASE p <= x
      <4>1. p \in 0..x
        BY <1>1, <3>1
      <4> QED BY <1>3, <1>4, <4>1
    <3>2. CASE ~(p <= x)
      <4>1. p - x \in 0..y /\ x + (p - x) = p /\ x \in 0..x
        BY <1>1, <3>2
      <4>2. K[x + (p - x)] = k[x] + l[p - x] /\ H[x + (p - x)] = m[p - x]
        BY <1>5, <4>1
      <4>3. k[x] \in Nat /\ l[p - x] \in Nat
        BY <1>3, <4>1
      <4>4. K[p] = k[x] + l[p - x] /\ H[p] = m[p - x]
        BY <4>1, <4>2
      <4> HIDE DEF K, H
      <4> QED BY <1>3, <4>1, <4>3, <4>4
    <3> QED BY <3>1, <3>2
  <2> QED BY <2>1
<1> HIDE DEF K, H
<1> DEFINE Step(w, M, N, q) ==
              /\ w[q] = Newline => M[q] = "code"
              /\ w[q] = Comment => M[q] = "comment"
              /\ w[q] \notin {Newline, Comment} => M[q] = M[q - 1]
              /\ Shown(w, M, q) => N[q] = N[q - 1] + 1
              /\ ~Shown(w, M, q) => N[q] = N[q - 1]
<1>7. \A p \in 1..x : Step(t, H, K, p)
  <2>1. ASSUME NEW p \in 1..x PROVE Step(t, H, K, p)
    <3>1. p \in 0..x /\ p - 1 \in 0..x
      BY <1>1
    <3>2. t[p] = r[p] /\ H[p] = h[p] /\ H[p - 1] = h[p - 1] /\ K[p] = k[p] /\ K[p - 1] = k[p - 1]
      BY <1>2, <1>4, <3>1
    <3>3. Step(r, h, k, p)
      BY DEF Scan, x
    <3> QED BY <3>2, <3>3 DEF Shown
  <2> HIDE DEF Step
  <2> QED BY <2>1
<1>8. \A p \in 1..y : Step(t, H, K, x + p)
  <2>1. ASSUME NEW p \in 1..y PROVE Step(t, H, K, x + p)
    <3>1. p \in 0..y /\ p - 1 \in 0..y /\ x + (p - 1) = (x + p) - 1
      BY <1>1
    <3>2. t[x + p] = s[p] /\ H[x + p] = m[p] /\ K[x + p] = k[x] + l[p]
      BY <1>2, <1>5, <3>1
    <3>3. H[(x + p) - 1] = m[p - 1] /\ K[(x + p) - 1] = k[x] + l[p - 1]
      <4>1. H[x + (p - 1)] = m[p - 1] /\ K[x + (p - 1)] = k[x] + l[p - 1]
        BY <1>5, <3>1
      <4> QED BY <3>1, <4>1
    <3>4. Step(s, m, l, p)
      BY DEF Scan, y
    <3>5. k[x] \in Nat /\ l[p] \in Nat /\ l[p - 1] \in Nat
      BY <1>1, <1>3, <3>1
    <3> DEFINE q == x + p
               o == q - 1
    <3>6. /\ t[q] = s[p] /\ H[q] = m[p] /\ K[q] = k[x] + l[p]
          /\ H[o] = m[p - 1] /\ K[o] = k[x] + l[p - 1]
      BY <3>2, <3>3
    <3> HIDE DEF o
    <3>7. Shown(t, H, q) <=> Shown(s, m, p)
      BY <3>6 DEF Shown, o
    <3> HIDE DEF q
    <3>8. Shown(s, m, p) => K[q] = K[o] + 1
      BY <3>4, <3>5, <3>6
    <3>9. ~Shown(s, m, p) => K[q] = K[o]
      BY <3>4, <3>5, <3>6
    <3>10. Step(t, H, K, q)
      BY <3>4, <3>6, <3>7, <3>8, <3>9 DEF o
    <3> HIDE DEF Step
    <3> QED BY <3>10 DEF q
  <2> HIDE DEF Step
  <2> QED BY <2>1
<1>9. \A p \in 1..(x + y) : Step(t, H, K, p)
  <2>1. ASSUME NEW p \in 1..(x + y) PROVE Step(t, H, K, p)
    <3>1. p \in 1..x \/ (p - x \in 1..y /\ x + (p - x) = p)
      BY <1>1
    <3> HIDE DEF Step
    <3>2. CASE p - x \in 1..y /\ x + (p - x) = p
      <4>1. Step(t, H, K, x + (p - x))
        BY <1>8, <3>2
      <4> QED BY <3>2, <4>1
    <3> QED BY <1>7, <3>1, <3>2
  <2> HIDE DEF Step
  <2> QED BY <2>1
<1>10. Scan(t, "code", K, H)
  <2>1. K[0] = 0 /\ H[0] = "code"
    BY <1>1, <1>3, <1>4
  <2> QED BY <1>2, <1>6, <1>9, <2>1 DEF Scan
<1>11. ScanJoins(r, s, k, h, l, m, K, H)
  <2>1. \A p \in 1..x : p \in 0..x /\ p - 1 \in 0..x
    BY <1>1
  <2>2. K[x + y] = k[x] + l[y] /\ H[x + y] = m[y]
    <3>1. y \in 0..y
      BY <1>1
    <3> QED BY <1>5, <3>1
  <2>3. ASSUME NEW p \in 1..y PROVE K[x + p] = k[x] + l[p] /\ H[x + p - 1] = m[p - 1]
    <3>1. p \in 0..y /\ p - 1 \in 0..y /\ x + (p - 1) = x + p - 1
      BY <1>1
    <3>2. H[x + (p - 1)] = m[p - 1]
      BY <1>5, <3>1
    <3> QED BY <1>5, <3>1, <3>2
  <2> QED BY <1>4, <2>1, <2>2, <2>3 DEF ScanJoins, x, y
<1> QED BY <1>10, <1>11 DEF t

-------------------------------------------------------------------------------
(* A group that begins with a comment.                                         *)
Opens(f, n) ==
    /\ Node[n].kind = "grouping"
    /\ \E p \in Place(f)[Node[n].first]..Place(f)[Node[Node[n].kids[1]].first] : f[p] = Comment
Broken(f, G) == \E n \in G : Opens(f, n)

(* What the lexer sees of r are the tokens of the file from a on.              *)
Faithful(r, a, k, h) ==
    /\ h[Len(r)] = "code"
    /\ \A p \in 1..Len(r) : Shown(r, h, p) => r[p] = Source[a - 1 + k[p]]

(* r is what is made of the tokens from a to b and of the nodes G: it keeps    *)
(* those, or if one of these begins with a comment it loses one at least.      *)
KeptBy(f, r, a, b, G, k, h) ==
    /\ Scan(r, "code", k, h)
    /\ Broken(f, G) => k[Len(r)] < b - a + 1
    /\ ~Broken(f, G) => k[Len(r)] = b - a + 1 /\ Faithful(r, a, k, h)
Kept(f, r, a, b, G) == r \in Seq(Ink) /\ \E k, h : KeptBy(f, r, a, b, G, k, h)

(* A text that begins within a comment is cut short.                           *)
LEMMA KeptJoin ==
    ASSUME NEW f, NEW r, NEW s, NEW a \in Nat, NEW b \in Nat, NEW c \in Nat, NEW d \in Nat, d = b + 1,
           NEW G, NEW H, Kept(f, r, a, b, G), Kept(f, s, d, c, H)
    PROVE  Kept(f, r \o s, a, c, G \cup H)
<1>1. r \in Seq(Ink) /\ s \in Seq(Ink)
  BY DEF Kept
<1>2. PICK k, h : KeptBy(f, r, a, b, G, k, h)
  BY DEF Kept
<1>3. PICK l, m : KeptBy(f, s, d, c, H, l, m)
  BY DEF Kept
<1> DEFINE x == Len(r)
           y == Len(s)
           t == r \o s
<1>4. /\ x \in Nat /\ y \in Nat /\ t \in Seq(Ink) /\ Len(t) = x + y
      /\ \A p \in 1..x : t[p] = r[p]
      /\ \A p \in 1..y : t[x + p] = s[p]
  <2>1. Joined(r, s, Ink)
    BY <1>1, SequencesJoin
  <2> QED BY <1>1, <2>1 DEF Joined
<1>5. k \in [0..x -> Nat] /\ h \in [0..x -> Modes] /\ l \in [0..y -> Nat] /\ m \in [0..y -> Modes] /\ m[0] = "code"
  BY <1>2, <1>3 DEF KeptBy, Scan
<1> HIDE DEF x, y, t
<1>6. h[x] \in Modes /\ k[x] \in Nat /\ l[y] \in Nat
  <2>1. x \in 0..x /\ y \in 0..y
    BY <1>4
  <2> QED BY <1>5, <2>1
<1>7. Broken(f, G \cup H) <=> Broken(f, G) \/ Broken(f, H)
  BY DEF Broken
<1>8. CASE h[x] = "code"
  <2>1. PICK K, E : Scan(t, "code", K, E) /\ ScanJoins(r, s, k, h, l, m, K, E)
    <3>1. Scan(r, "code", k, h) /\ Scan(s, h[Len(r)], l, m)
      BY <1>2, <1>3, <1>8 DEF KeptBy, x
    <3> QED BY <1>1, <3>1, ScansJoin DEF t
  <2>2. K[x + y] = k[x] + l[y] /\ E[x + y] = m[y]
    BY <2>1 DEF ScanJoins, x, y
  <2>3. Broken(f, G \cup H) => K[Len(t)] < c - a + 1
    <3>1. /\ Broken(f, G) => k[x] < b - a + 1
          /\ ~Broken(f, G) => k[x] = b - a + 1
          /\ Broken(f, H) => l[y] < c - d + 1
          /\ ~Broken(f, H) => l[y] = c - d + 1
      BY <1>2, <1>3 DEF KeptBy, x, y
    <3>2. K[Len(t)] = k[x] + l[y]
      BY <1>4, <2>2
    <3>3. CASE Broken(f, G)
      BY <1>6, <3>1, <3>2, <3>3, SMTT(20)
    <3>4. CASE Broken(f, H)
      BY <1>6, <3>1, <3>2, <3>4
    <3> QED BY <1>7, <3>3, <3>4
  <2>4. ASSUME ~Broken(f, G \cup H) PROVE K[Len(t)] = c - a + 1 /\ Faithful(t, a, K, E)
    <3>1. k[x] = b - a + 1 /\ l[y] = c - d + 1 /\ Faithful(r, a, k, h) /\ Faithful(s, d, l, m)
      BY <1>2, <1>3, <1>7, <2>4 DEF KeptBy, x, y
    <3>2. K[Len(t)] = c - a + 1
      BY <1>4, <2>2, <3>1
    <3>3. E[Len(t)] = "code"
      BY <1>4, <2>2, <3>1 DEF Faithful, y
    <3>4. ASSUME NEW p \in 1..x, Shown(t, E, p) PROVE t[p] = Source[a - 1 + K[p]]
      <4>1. t[p] = r[p] /\ K[p] = k[p] /\ E[p - 1] = h[p - 1]
        BY <1>4, <2>1 DEF ScanJoins, x
      <4>2. Shown(r, h, p)
        BY <3>4, <4>1 DEF Shown
      <4> QED BY <3>1, <4>1, <4>2 DEF Faithful, x
    <3>5. ASSUME NEW p \in 1..y, Shown(t, E, x + p) PROVE t[x + p] = Source[a - 1 + K[x + p]]
      <4>1. t[x + p] = s[p] /\ K[x + p] = k[x] + l[p] /\ E[x + p - 1] = m[p - 1]
        BY <1>4, <2>1 DEF ScanJoins, x, y
      <4>2. Shown(s, m, p)
        <5> DEFINE q == x + p
                   o == q - 1
        <5>1. t[q] = s[p] /\ E[o] = m[p - 1] /\ Shown(t, E, q)
          <6>1. x + (p - 1) = o
            BY <1>4
          <6> QED BY <3>5, <4>1, <6>1
        <5> HIDE DEF q
        <5>2. t[q] \notin {Newline, Comment} /\ E[q - 1] = "code"
          BY <5>1 DEF Shown
        <5> QED BY <5>1, <5>2 DEF Shown, o
      <4>3. s[p] = Source[d - 1 + l[p]]
        BY <3>1, <4>2 DEF Faithful, y
      <4>4. a - 1 + K[x + p] = d - 1 + l[p]
        <5>1. l[p] \in Nat /\ k[x] \in Nat
          BY <1>4, <1>5, <1>6
        <5> DEFINE v == l[p]
                   w == k[x]
                   z == K[x + p]
        <5>2. v \in Nat /\ w = b - a + 1 /\ z = w + v
          BY <3>1, <4>1, <5>1
        <5> HIDE DEF v, w, z
        <5>3. a - 1 + z = d - 1 + v
          BY <5>2
        <5> QED BY <5>3 DEF v, z
      <4> QED BY <4>1, <4>3, <4>4
    <3>6. ASSUME NEW p \in 1..Len(t), Shown(t, E, p) PROVE t[p] = Source[a - 1 + K[p]]
      <4>1. p \in 1..x \/ (p - x \in 1..y /\ x + (p - x) = p)
        BY <1>4
      <4>2. CASE p - x \in 1..y /\ x + (p - x) = p
        <5> DEFINE q == p - x
        <5>1. q \in 1..y /\ x + q = p
          BY <4>2
        <5> HIDE DEF q
        <5> QED BY <3>5, <3>6, <5>1
      <4> QED BY <3>4, <3>6, <4>1, <4>2
    <3> QED BY <3>2, <3>3, <3>6 DEF Faithful
  <2>5. KeptBy(f, t, a, c, G \cup H, K, E)
    BY <2>1, <2>3, <2>4 DEF KeptBy
  <2> QED BY <1>4, <2>5 DEF Kept, t
<1>9. CASE h[x] = "comment"
  <2>1. Broken(f, G) /\ k[x] < b - a + 1
    <3>1. ~(Faithful(r, a, k, h))
      BY <1>9 DEF Faithful, x
    <3> QED BY <1>2, <3>1 DEF KeptBy, x
  <2>2. PICK v, w : Scan(s, "comment", v, w)
    BY <1>1, ScanExists DEF Modes
  <2>3. PICK K, E : Scan(t, "code", K, E) /\ ScanJoins(r, s, k, h, v, w, K, E)
    <3>1. Scan(r, "code", k, h) /\ Scan(s, h[Len(r)], v, w)
      BY <1>2, <1>9, <2>2 DEF KeptBy, x
    <3> QED BY <1>1, <3>1, ScansJoin DEF t
  <2>4. v[y] <= l[y] /\ v[y] \in Nat
    <3>1. Scan(s, "code", l, m)
      BY <1>3 DEF KeptBy
    <3>2. v[y] <= l[y]
      BY <1>1, <2>2, <3>1, CommentsHide DEF y
    <3>3. v \in [0..y -> Nat]
      BY <2>2 DEF Scan, y
    <3> QED BY <1>4, <3>2, <3>3
  <2>5. l[y] <= c - d + 1
    <3>1. (Broken(f, H) => l[y] < c - d + 1) /\ (~Broken(f, H) => l[y] = c - d + 1)
      BY <1>3 DEF KeptBy, y
    <3> QED BY <1>6, <3>1
  <2>6. K[Len(t)] = k[x] + v[y]
    BY <1>4, <2>3 DEF ScanJoins, x, y
  <2>7. K[Len(t)] < c - a + 1
    BY <1>6, <2>1, <2>4, <2>5, <2>6
  <2>8. KeptBy(f, t, a, c, G \cup H, K, E)
    BY <1>7, <2>1, <2>3, <2>7 DEF KeptBy
  <2> QED BY <1>4, <2>8 DEF Kept, t
<1> QED BY <1>6, <1>8, <1>9 DEF Modes

(* The tokens of the file as they stand.                                       *)
LEMMA TextKept ==
    ASSUME NEW f, NEW a \in Nat, NEW b \in Nat, 1 <= a, b <= Len(Source), NEW r \in Seq(STRING),
           Len(r) = b - a + 1, \A p \in 1..Len(r) : r[p] = Source[a - 1 + p]
    PROVE  Kept(f, r, a, b, {})
<1> DEFINE n == Len(r)
           k == [p \in 0..n |-> p]
           h == [p \in 0..n |-> "code"]
<1>1. n \in Nat
  OBVIOUS
<1>2. ASSUME NEW p \in 1..n PROVE r[p] \in ToSet(Source) /\ r[p] \notin {Newline, Comment}
  <2>1. Source \in Seq(STRING) /\ {Newline, Comment} \cap ToSet(Source) = {}
    BY SourceTyped
  <2>2. r[p] \in ToSet(Source)
    <3>1. a - 1 + p \in 1..Len(Source) /\ DOMAIN Source = 1..Len(Source)
      BY <1>1, <2>1
    <3>2. r[p] = Source[a - 1 + p]
      BY <1>1
    <3> HIDE DEF n
    <3> QED BY <3>1, <3>2 DEF ToSet
  <2> QED BY <2>1, <2>2
<1>3. r \in Seq(Ink)
  <2> DEFINE T == Ink
  <2>1. \A p \in 1..Len(r) : r[p] \in T
    BY <1>2 DEF Ink
  <2>2. r \in Seq(STRING)
    OBVIOUS
  <2> HIDE DEF T
  <2>3. r \in Seq(T)
    BY <2>1, <2>2
  <2> QED BY <2>3 DEF T
<1> HIDE DEF n
<1>4. Scan(r, "code", k, h)
  <2>1. k \in [0..n -> Nat] /\ h \in [0..n -> Modes] /\ k[0] = 0 /\ h[0] = "code"
    BY <1>1 DEF Modes
  <2>2. ASSUME NEW p \in 1..n
        PROVE  r[p] \notin {Newline, Comment} /\ h[p] = "code" /\ h[p - 1] = "code" /\ k[p] = k[p - 1] + 1
    BY <1>1, <1>2
  <2> HIDE DEF k, h
  <2>3. \A p \in 1..n : Shown(r, h, p)
    BY <2>2 DEF Shown
  <2> QED BY <2>1, <2>2, <2>3 DEF Scan, n
<1>5. k[n] = b - a + 1 /\ h[n] = "code" /\ \A p \in 1..n : r[p] = Source[a - 1 + k[p]]
  <2>1. n = b - a + 1 /\ n \in 0..n
    BY <1>1 DEF n
  <2>2. \A p \in 1..n : p \in 0..n
    BY <1>1
  <2>3. k[n] = n /\ h[n] = "code" /\ \A p \in 1..n : k[p] = p
    BY <2>1, <2>2
  <2>4. \A p \in 1..n : r[p] = Source[a - 1 + p]
    BY DEF n
  <2> HIDE DEF k, h
  <2> QED BY <2>1, <2>3, <2>4
<1> HIDE DEF k, h
<1>6. Faithful(r, a, k, h)
  BY <1>5 DEF Faithful, n
<1>7. ~Broken(f, {})
  BY DEF Broken
<1>8. KeptBy(f, r, a, b, {}, k, h)
  BY <1>4, <1>5, <1>6, <1>7 DEF KeptBy, n
<1> QED BY <1>3, <1>8 DEF Kept

(* Line ends, and comments on lines of their own.                              *)
LayoutPieces == {<<>>, <<Newline>>, <<Comment, Newline>>, <<Newline, Comment, Newline>>}

(* They are nothing to the lexer.                                              *)
LEMMA LayoutKept ==
    ASSUME NEW f, NEW a \in Nat, NEW b \in Nat, a = b + 1, NEW r \in LayoutPieces
    PROVE  Kept(f, r, a, b, {})
<1> DEFINE n == Len(r)
           k == [p \in 0..n |-> 0]
           h == [p \in 0..n |-> IF p = 0 THEN "code" ELSE IF r[p] = Newline THEN "code" ELSE "comment"]
<1>1. /\ n \in Nat /\ r \in Seq({Newline, Comment}) /\ \A p \in 1..n : r[p] \in {Newline, Comment}
      /\ n # 0 => r[n] = Newline
  <2>1. CASE r = <<>>
    BY <2>1
  <2>2. CASE r = <<Newline>>
    BY <2>2
  <2>3. CASE r = <<Comment, Newline>>
    BY <2>3
  <2>4. CASE r = <<Newline, Comment, Newline>>
    BY <2>4
  <2> QED BY <2>1, <2>2, <2>3, <2>4 DEF LayoutPieces
<1>2. r \in Seq(Ink) /\ Newline # Comment
  BY <1>1, SyntaxAssumption DEF Ink
<1> HIDE DEF n
<1>3. k \in [0..n -> Nat] /\ h \in [0..n -> Modes] /\ k[0] = 0 /\ h[0] = "code" /\ k[n] = 0 /\ h[n] = "code"
  <2>1. n \in 0..n /\ 0 \in 0..n
    BY <1>1
  <2> QED BY <1>1, <2>1 DEF Modes
<1>4. ASSUME NEW p \in 1..n
      PROVE  /\ r[p] \in {Newline, Comment} /\ k[p] = k[p - 1]
             /\ r[p] = Newline => h[p] = "code"
             /\ r[p] = Comment => h[p] = "comment"
  BY <1>1, <1>2
<1> HIDE DEF k, h
<1>5. \A p \in 1..n : ~Shown(r, h, p)
  BY <1>4 DEF Shown
<1>6. Scan(r, "code", k, h)
  BY <1>3, <1>4, <1>5 DEF Scan, n
<1>7. Faithful(r, a, k, h)
  BY <1>3, <1>5 DEF Faithful, n
<1>8. ~Broken(f, {})
  BY DEF Broken
<1>9. KeptBy(f, r, a, b, {}, k, h)
  BY <1>3, <1>6, <1>7, <1>8 DEF KeptBy, n
<1> QED BY <1>2, <1>9 DEF Kept

(* What does not begin with a comment can be added.                            *)
LEMMA KeptMore ==
    ASSUME NEW f, NEW r, NEW a, NEW b, NEW G, NEW H, Kept(f, r, a, b, G), \A n \in H : ~Opens(f, n)
    PROVE  Kept(f, r, a, b, G \cup H)
<1>1. Broken(f, G \cup H) <=> Broken(f, G)
  BY DEF Broken
<1> QED BY <1>1 DEF Kept, KeptBy

-------------------------------------------------------------------------------
(* The places of the tree.                                                     *)
Placed(n) == 1 <= Node[n].first /\ Node[n].first <= Node[n].last /\ Node[n].last <= Len(Source)
NodeFacts(n) ==
    /\ n \in Nat /\ Node[n].kind \in STRING /\ Node[n].kids \in Seq(Nat)
    /\ Node[n].first \in Nat /\ Node[n].last \in Nat /\ Node[n].name \in Nat
    /\ \A i \in DOMAIN Node[n].kids :
          Node[n].kids[i] \in DOMAIN Node /\ n < Node[n].kids[i] /\ Placed(Node[n].kids[i])
    /\ n # Root => Placed(n)

(* Parents come before their children, so that the root is no child.           *)
LEMMA NodesPlaced == \A n \in DOMAIN Node : NodeFacts(n)
<1>1. Len(Node) \in Nat /\ DOMAIN Node = 1..Len(Node)
  BY SyntaxAssumption
<1>2. \A n \in DOMAIN Node :
        /\ Node[n].kind \in STRING /\ Node[n].kids \in Seq(Nat)
        /\ Node[n].first \in Nat /\ Node[n].last \in Nat /\ Node[n].name \in Nat
  <2> DEFINE P == [kind : STRING, first : Nat, last : Nat, name : Nat, kids : Seq(Nat)]
  <2>1. Node \in Seq(P)
    BY SyntaxAssumption
  <2> HIDE DEF P
  <2>2. \A n \in DOMAIN Node : Node[n] \in P
    BY <2>1
  <2> QED BY <2>2 DEF P
<1>3. \A n \in DOMAIN Node : n # Root => Placed(n) /\ \E m \in DOMAIN Node : n \in ToSet(Node[m].kids)
  BY SyntaxAssumption DEF Placed
<1>4. \A n \in DOMAIN Node : \A k \in ToSet(Node[n].kids) : k \in DOMAIN Node /\ n < k
  BY SyntaxAssumption
<1>5. Root = 1
  <2>1. 1 \in DOMAIN Node
    BY <1>1, SyntaxAssumption
  <2> SUFFICES ASSUME 1 # Root PROVE FALSE
    OBVIOUS
  <2>2. PICK m \in DOMAIN Node : 1 \in ToSet(Node[m].kids)
    BY <1>3, <2>1
  <2>3. m < 1 /\ m \in 1..Len(Node)
    BY <1>1, <1>4, <2>2
  <2> QED BY <1>1, <2>3
<1>6. ASSUME NEW n \in DOMAIN Node, NEW i \in DOMAIN Node[n].kids
      PROVE  Node[n].kids[i] \in DOMAIN Node /\ n < Node[n].kids[i] /\ Placed(Node[n].kids[i])
  <2> DEFINE k == Node[n].kids[i]
  <2>1. k \in ToSet(Node[n].kids)
    BY DEF ToSet
  <2> HIDE DEF k
  <2>2. k \in DOMAIN Node /\ n < k
    BY <1>4, <2>1
  <2>3. k # Root
    BY <1>1, <1>5, <2>2
  <2> QED BY <1>3, <2>2, <2>3 DEF k
<1> QED BY <1>1, <1>2, <1>3, <1>6 DEF NodeFacts

(* The nodes under n, n included.                                              *)
Closed(S) == S \in SUBSET DOMAIN Node /\ \A n \in S : ToSet(Node[n].kids) \subseteq S
Sub(n) == {g \in DOMAIN Node : \A S : Closed(S) /\ n \in S => g \in S}
Below(n) == UNION {Sub(Node[n].kids[i]) : i \in DOMAIN Node[n].kids}

(* Those under its children, and n.                                            *)
LEMMA SubSplits ==
    ASSUME NEW n \in DOMAIN Node
    PROVE  Sub(n) = {n} \cup Below(n)
<1>1. \A m \in DOMAIN Node : ToSet(Node[m].kids) \subseteq DOMAIN Node
  BY SyntaxAssumption
<1>2. ASSUME NEW m \in DOMAIN Node PROVE m \in Sub(m) /\ Closed(Sub(m))
  <2>1. m \in Sub(m)
    BY DEF Sub
  <2>2. ASSUME NEW g \in Sub(m), NEW k \in ToSet(Node[g].kids) PROVE k \in Sub(m)
    <3>1. g \in DOMAIN Node /\ k \in DOMAIN Node
      BY <1>1, <2>2 DEF Sub
    <3>2. ASSUME NEW S, Closed(S), m \in S PROVE k \in S
      <4>1. g \in S
        BY <2>2, <3>2 DEF Sub
      <4> QED BY <2>2, <3>2, <4>1 DEF Closed
    <3> QED BY <3>1, <3>2 DEF Sub
  <2> QED BY <2>1, <2>2 DEF Closed, Sub
<1>3. ASSUME NEW i \in DOMAIN Node[n].kids PROVE Node[n].kids[i] \in DOMAIN Node /\ Node[n].kids[i] \in ToSet(Node[n].kids)
  <2>1. Node[n].kids[i] \in ToSet(Node[n].kids)
    BY DEF ToSet
  <2> QED BY <1>1, <2>1
<1>4. Closed({n} \cup Below(n)) /\ n \in {n} \cup Below(n)
  <2>1. {n} \cup Below(n) \subseteq DOMAIN Node
    BY DEF Below, Sub
  <2>2. ASSUME NEW g \in {n} \cup Below(n), NEW k \in ToSet(Node[g].kids) PROVE k \in Below(n)
    <3>1. CASE g = n
      <4>1. PICK i \in DOMAIN Node[n].kids : k = Node[n].kids[i]
        BY <2>2, <3>1 DEF ToSet
      <4>2. k \in Sub(k)
        BY <1>2, <1>3, <4>1
      <4> QED BY <4>1, <4>2 DEF Below
    <3>2. CASE g \in Below(n)
      <4>1. PICK i \in DOMAIN Node[n].kids : g \in Sub(Node[n].kids[i])
        BY <3>2 DEF Below
      <4>2. Closed(Sub(Node[n].kids[i]))
        BY <1>2, <1>3
      <4>3. k \in Sub(Node[n].kids[i])
        BY <2>2, <4>1, <4>2 DEF Closed
      <4> QED BY <4>3 DEF Below
    <3> QED BY <3>1, <3>2
  <2> QED BY <2>1, <2>2 DEF Closed
<1>5. Sub(n) \subseteq {n} \cup Below(n)
  BY <1>4 DEF Sub
<1>6. ASSUME NEW g \in Below(n) PROVE g \in Sub(n)
  <2>1. PICK i \in DOMAIN Node[n].kids : g \in Sub(Node[n].kids[i])
    BY <1>6 DEF Below
  <2>2. Node[n].kids[i] \in Sub(n)
    BY <1>2, <1>3 DEF Closed
  <2> QED BY <1>2, <2>1, <2>2 DEF Sub
<1> QED BY <1>2, <1>5, <1>6

(* All nodes are under the root.                                               *)
LEMMA AllUnderRoot == Sub(Root) = DOMAIN Node
<1>1. Len(Node) \in Nat /\ DOMAIN Node = 1..Len(Node) /\ Root \in DOMAIN Node
  BY SyntaxAssumption
<1>2. SUFFICES ASSUME NEW g \in DOMAIN Node \ Sub(Root) PROVE FALSE
  BY DEF Sub
<1> DEFINE S == DOMAIN Node \ Sub(Root)
<1>3. PICK n \in S : \A m \in S : n <= m
  <2>1. S \in SUBSET Nat
    BY <1>1
  <2> HIDE DEF S
  <2> QED BY <1>2, <2>1, LeastOf DEF S
<1>4. Root \in Sub(Root)
  BY <1>1 DEF Sub
<1>5. n # Root
  BY <1>3, <1>4
<1>6. PICK m \in DOMAIN Node : n \in ToSet(Node[m].kids)
  BY <1>3, <1>5, SyntaxAssumption
<1>7. m < n
  BY <1>6, SyntaxAssumption
<1>8. m \in Sub(Root)
  <2>1. m \notin S
    BY <1>1, <1>3, <1>6, <1>7
  <2> QED BY <1>6, <2>1
<1>9. n \in Sub(Root)
  <2>1. ASSUME NEW C, Closed(C), Root \in C PROVE n \in C
    <3>1. m \in C
      BY <1>8, <2>1 DEF Sub
    <3> QED BY <1>6, <2>1, <3>1 DEF Closed
  <2> QED BY <1>3, <2>1 DEF Sub
<1> QED BY <1>3, <1>9

-------------------------------------------------------------------------------
(* What a lexer goes through that goes on with the character x at p.           *)
LexStates == [tokens : Seq(Ink), places : Seq(Nat), mode : Modes]
LexStep(last, x, p) ==
    IF x = Newline THEN [last EXCEPT !.mode = "code"]
    ELSE IF x = Comment THEN [last EXCEPT !.mode = "comment"]
    ELSE IF last.mode = "comment" THEN last
    ELSE [last EXCEPT !.tokens = Append(@, x), !.places = Append(@, p)]
Lexes(r, at) ==
    /\ at \in [0..Len(r) -> LexStates]
    /\ at[0] = [tokens |-> <<>>, places |-> <<>>, mode |-> "code"]
    /\ \A p \in 1..Len(r) : at[p] = LexStep(at[p - 1], r[p], p)
    /\ Lexed(r) = at[Len(r)]

(* Lexed goes through these states.                                            *)
LEMMA LexedInSteps ==
    ASSUME NEW r \in Seq(Ink)
    PROVE  \E at : Lexes(r, at)
<1> DEFINE n == Len(r)
           T == LexStates
           a == [tokens |-> <<>>, places |-> <<>>, mode |-> "code"]
           g == [i \in Nat |-> [x \in T |-> IF i < n THEN LexStep(x, r[i + 1], i + 1) ELSE x]]
           next(w, p) == IF p = 0 THEN a ELSE LexStep(w[p - 1], r[p], p)
           at == CHOOSE w : w = [p \in 0..n |-> next(w, p)]
<1>1. n \in Nat /\ \A p \in 1..n : r[p] \in Ink
  OBVIOUS
<1>2. Lexed(r) = at[n]
  BY DEF Lexed, LexStep
<1>3. a \in T
  BY DEF LexStates, Modes
<1>4. ASSUME NEW x \in T, NEW c \in Ink, NEW p \in Nat PROVE LexStep(x, c, p) \in T
  <2>1. Append(x.tokens, c) \in Seq(Ink) /\ Append(x.places, p) \in Seq(Nat)
    BY DEF LexStates
  <2> QED BY <2>1 DEF LexStep, LexStates, Modes
<1> HIDE DEF n, a, T
<1>5. g \in [Nat -> [T -> T]]
  <2>1. \A i \in Nat : i < n => i + 1 \in 1..n /\ i + 1 \in Nat
    BY <1>1
  <2>2. \A i \in Nat : \A x \in T : (IF i < n THEN LexStep(x, r[i + 1], i + 1) ELSE x) \in T
    BY <1>1, <1>4, <2>1
  <2> QED BY <2>2
<1>6. ASSUME NEW i \in 1..n, NEW x \in T PROVE g[i - 1][x] = LexStep(x, r[i], i)
  <2>1. i - 1 \in Nat /\ (i - 1) + 1 = i /\ i - 1 < n
    BY <1>1
  <2> QED BY <2>1
<1>7. PICK h \in [0..n -> T] : Runs(h, n, T, a, g)
  <2> HIDE DEF g
  <2> QED BY <1>1, <1>3, <1>5, RunExists
<1> HIDE DEF g
<1>8. at = [p \in 0..n |-> next(at, p)]
  <2>1. ASSUME NEW i \in 0..n PROVE h[i] = next(h, i)
    <3>1. CASE i = 0
      BY <1>7, <3>1 DEF Runs
    <3>2. CASE i # 0
      <4>1. i \in 1..n /\ i - 1 \in 0..n
        BY <1>1, <3>2
      <4>2. h[i - 1] \in T
        BY <1>7, <4>1
      <4>3. h[i] = g[i - 1][h[i - 1]]
        BY <1>7, <4>1, <4>2 DEF Runs
      <4> QED BY <1>6, <3>2, <4>1, <4>2, <4>3
    <3> QED BY <3>1, <3>2
  <2>2. h = [p \in 0..n |-> h[p]]
    BY <1>7
  <2> HIDE DEF next
  <2>3. h = [p \in 0..n |-> next(h, p)]
    BY <2>1, <2>2
  <2> QED BY <2>3
<1> HIDE DEF at
<1>9. at[0] = a /\ \A p \in 1..n : at[p] = LexStep(at[p - 1], r[p], p)
  <2>1. \A p \in 0..n : at[p] = next(at, p)
    <3> HIDE DEF next
    <3> QED BY <1>8
  <2>2. 0 \in 0..n /\ \A p \in 1..n : p \in 0..n /\ p # 0
    BY <1>1
  <2> QED BY <2>1, <2>2
<1>10. Runs(at, n, T, a, g)
  <2>1. at = [p \in 0..n |-> at[p]]
    <3> HIDE DEF next
    <3> QED BY <1>8
  <2> QED BY <1>6, <1>9, <2>1 DEF Runs
<1>11. at \in [0..n -> T]
  <2>1. Ran(at, n, T, g)
    BY <1>1, <1>3, <1>5, <1>10, RunTyped
  <2> QED BY <2>1 DEF Ran
<1> QED BY <1>2, <1>9, <1>11 DEF Lexes, n, a, T

(* The tokens, and where they are, by the count of those seen.                 *)
Reads(r, k, h, tokens, places, p) ==
    /\ Len(tokens) = k[p] /\ Len(places) = k[p]
    /\ \A q \in 1..p : Shown(r, h, q) => k[q] \in 1..k[p] /\ tokens[k[q]] = r[q] /\ places[k[q]] = q
    /\ \A i \in 1..k[p] : places[i] \in 1..p /\ Shown(r, h, places[i]) /\ k[places[i]] = i
Lists(r, k, h) == Scan(r, "code", k, h) /\ Reads(r, k, h, Tokens(r), Place(r), Len(r))

(* Tokens and Place list what is seen.                                         *)
LEMMA TokensListed ==
    ASSUME NEW r \in Seq(Ink)
    PROVE  /\ \E k, h : Lists(r, k, h)
           /\ Tokens(r) \in Seq(Ink) /\ Place(r) \in Seq(Nat)
<1>1. PICK at : Lexes(r, at)
  BY LexedInSteps
<1> DEFINE n == Len(r)
           k == [p \in 0..n |-> Len(at[p].tokens)]
           h == [p \in 0..n |-> at[p].mode]
<1>2. n \in Nat
  OBVIOUS
<1>3. /\ at \in [0..n -> LexStates] /\ at[0] = [tokens |-> <<>>, places |-> <<>>, mode |-> "code"]
      /\ \A p \in 1..n : at[p] = LexStep(at[p - 1], r[p], p)
      /\ Tokens(r) = at[n].tokens /\ Place(r) = at[n].places
  BY <1>1 DEF Lexes, Tokens, Place
<1> HIDE DEF n
<1>4. \A p \in 0..n : at[p].tokens \in Seq(Ink) /\ at[p].places \in Seq(Nat) /\ at[p].mode \in Modes
  BY <1>3 DEF LexStates
<1>5. \A p \in 0..n : k[p] = Len(at[p].tokens) /\ k[p] \in Nat /\ h[p] = at[p].mode
  BY <1>4
<1>6. k \in [0..n -> Nat] /\ h \in [0..n -> Modes] /\ k[0] = 0 /\ h[0] = "code"
  <2>1. 0 \in 0..n
    BY <1>2
  <2> QED BY <1>3, <1>4, <1>5, <2>1
<1>7. Newline # Comment
  BY SyntaxAssumption
<1> HIDE DEF k, h
<1> DEFINE Seen(p) == r[p] \notin {Newline, Comment} /\ at[p - 1].mode = "code"
<1>8. ASSUME NEW p \in 1..n
      PROVE  /\ Shown(r, h, p) <=> Seen(p)
             /\ Seen(p) => at[p].tokens = Append(at[p - 1].tokens, r[p]) /\ at[p].places = Append(at[p - 1].places, p)
             /\ ~Seen(p) => at[p].tokens = at[p - 1].tokens /\ at[p].places = at[p - 1].places
             /\ r[p] = Newline => h[p] = "code"
             /\ r[p] = Comment => h[p] = "comment"
             /\ r[p] \notin {Newline, Comment} => h[p] = h[p - 1]
  <2>1. p \in 0..n /\ p - 1 \in 0..n
    BY <1>2
  <2> DEFINE x == at[p - 1]
             y == at[p]
  <2>2. x \in LexStates /\ y = LexStep(x, r[p], p) /\ h[p] = y.mode /\ h[p - 1] = x.mode
    BY <1>3, <1>5, <2>1
  <2> HIDE DEF x, y
  <2>3. /\ r[p] = Newline => y.mode = "code"
        /\ r[p] = Comment => y.mode = "comment"
        /\ r[p] \notin {Newline, Comment} => y.mode = x.mode
    BY <1>7, <2>2 DEF LexStep, LexStates
  <2>4. r[p] \notin {Newline, Comment} /\ x.mode = "code"
        => y.tokens = Append(x.tokens, r[p]) /\ y.places = Append(x.places, p)
    BY <2>2 DEF LexStep, LexStates
  <2>5. ~(r[p] \notin {Newline, Comment} /\ x.mode = "code") => y.tokens = x.tokens /\ y.places = x.places
    BY <2>2 DEF LexStep, LexStates, Modes
  <2>6. Shown(r, h, p) <=> r[p] \notin {Newline, Comment} /\ x.mode = "code"
    BY <2>2 DEF Shown
  <2> QED BY <2>2, <2>3, <2>4, <2>5, <2>6 DEF x, y
<1>9. ASSUME NEW p \in 1..n PROVE (Shown(r, h, p) => k[p] = k[p - 1] + 1) /\ (~Shown(r, h, p) => k[p] = k[p - 1])
  <2>1. p \in 0..n /\ p - 1 \in 0..n
    BY <1>2
  <2>2. r[p] \in Ink
    BY DEF n
  <2>3. Appended(at[p - 1].tokens, r[p], Ink)
    BY <1>4, <2>1, <2>2, OneAppended
  <2>4. Shown(r, h, p) => at[p].tokens = Append(at[p - 1].tokens, r[p])
    BY <1>8
  <2>5. ~Shown(r, h, p) => at[p].tokens = at[p - 1].tokens
    BY <1>8
  <2>6. k[p] = Len(at[p].tokens) /\ k[p - 1] = Len(at[p - 1].tokens)
    BY <1>5, <2>1
  <2> QED BY <2>3, <2>4, <2>5, <2>6 DEF Appended
<1>10. Scan(r, "code", k, h)
  BY <1>6, <1>8, <1>9 DEF Scan, n
<1> DEFINE S == {p \in 0..n : Reads(r, k, h, at[p].tokens, at[p].places, p)}
<1>11. 0 \in S
  <2>1. 0 \in 0..n /\ at[0].tokens = <<>> /\ at[0].places = <<>>
    BY <1>2, <1>3
  <2>2. k[0] = 0 /\ 1..0 = {}
    BY <1>6
  <2> QED BY <2>1, <2>2 DEF Reads
<1>12. ASSUME NEW p \in 0..(n - 1), p \in S PROVE p + 1 \in S
  <2> DEFINE q == p + 1
             x == at[p]
             y == at[q]
  <2>1. q \in 1..n /\ q \in 0..n /\ p \in 0..n /\ q - 1 = p /\ p \in Nat /\ q \in Nat /\ 1..q = 1..p \cup {q}
    BY <1>2
  <2>2. Reads(r, k, h, x.tokens, x.places, p)
    BY <1>12
  <2>3. x.tokens \in Seq(Ink) /\ x.places \in Seq(Nat) /\ r[q] \in Ink /\ k[p] \in Nat /\ k[q] \in Nat
    BY <1>4, <1>5, <2>1 DEF n
  <2>4. Appended(x.tokens, r[q], Ink) /\ Appended(x.places, q, Nat)
    <3> HIDE DEF q, x
    <3> QED BY <2>1, <2>3, OneAppended
  <2>5. CASE Shown(r, h, q)
    <3>1. y.tokens = Append(x.tokens, r[q]) /\ y.places = Append(x.places, q) /\ k[q] = k[p] + 1
      BY <1>8, <1>9, <2>1, <2>5
    <3> HIDE DEF q, x, y
    <3>2. /\ Len(y.tokens) = k[q] /\ Len(y.places) = k[q]
          /\ y.tokens[k[q]] = r[q] /\ y.places[k[q]] = q
          /\ \A l \in 1..k[p] : y.tokens[l] = x.tokens[l] /\ y.places[l] = x.places[l]
      BY <2>2, <2>4, <3>1 DEF Reads, Appended
    <3>3. ASSUME NEW u \in 1..q, Shown(r, h, u)
          PROVE  k[u] \in 1..k[q] /\ y.tokens[k[u]] = r[u] /\ y.places[k[u]] = u
      <4>1. CASE u = q
        BY <2>3, <3>1, <3>2, <4>1
      <4>2. CASE u \in 1..p
        <5>1. k[u] \in 1..k[p] /\ x.tokens[k[u]] = r[u] /\ x.places[k[u]] = u
          BY <2>2, <3>3, <4>2 DEF Reads
        <5>2. y.tokens[k[u]] = x.tokens[k[u]] /\ y.places[k[u]] = x.places[k[u]]
          BY <3>2, <5>1
        <5>3. k[u] \in 1..k[q]
          <6> DEFINE v == k[u]
          <6>1. v \in 1..k[p]
            BY <5>1
          <6> HIDE DEF v
          <6>2. v \in 1..k[q]
            BY <2>3, <3>1, <6>1
          <6> QED BY <6>2 DEF v
        <5> QED BY <5>1, <5>2, <5>3
      <4> QED BY <2>1, <4>1, <4>2
    <3>4. ASSUME NEW i \in 1..k[q] PROVE y.places[i] \in 1..q /\ Shown(r, h, y.places[i]) /\ k[y.places[i]] = i
      <4>1. CASE i = k[q]
        BY <2>1, <2>5, <3>2, <4>1
      <4>2. CASE i # k[q]
        <5>1. i \in 1..k[p]
          BY <2>3, <3>1, <4>2
        <5>2. y.places[i] = x.places[i] /\ x.places[i] \in 1..p /\ Shown(r, h, x.places[i]) /\ k[x.places[i]] = i
          BY <2>2, <3>2, <5>1 DEF Reads
        <5> QED BY <2>1, <5>2
      <4> QED BY <4>1, <4>2
    <3>5. Reads(r, k, h, y.tokens, y.places, q)
      BY <3>2, <3>3, <3>4 DEF Reads
    <3> QED BY <2>1, <3>5 DEF y, q
  <2>6. CASE ~Shown(r, h, q)
    <3>1. y.tokens = x.tokens /\ y.places = x.places /\ k[q] = k[p]
      BY <1>8, <1>9, <2>1, <2>6
    <3> HIDE DEF q, x, y
    <3>2. Reads(r, k, h, y.tokens, y.places, q)
      BY <2>1, <2>2, <2>6, <3>1 DEF Reads
    <3> QED BY <2>1, <3>2 DEF y, q
  <2> QED BY <2>5, <2>6
<1> HIDE DEF S
<1>13. Reads(r, k, h, at[n].tokens, at[n].places, n)
  <2>1. \A p \in 0..n : p \in S
    BY <1>2, <1>11, <1>12, UpTo
  <2>2. n \in S
    BY <1>2, <2>1
  <2> QED BY <2>2 DEF S
<1>14. Lists(r, k, h)
  BY <1>3, <1>10, <1>13 DEF Lists, n
<1>15. n \in 0..n
  BY <1>2
<1> QED BY <1>3, <1>4, <1>14, <1>15

(* A scan only counts up, and there is one.                                    *)
CountsUp(r, k) == \A p, q \in 0..Len(r) : p <= q => k[p] <= k[q]

(* A member of the text adds one token at most.                                *)
LEMMA ScanCountsUp ==
    ASSUME NEW r \in Seq(Ink), NEW c, NEW k, NEW h, Scan(r, c, k, h)
    PROVE  CountsUp(r, k)
<1> DEFINE n == Len(r)
           S == {q \in 0..n : \A p \in 0..q : k[p] <= k[q]}
<1>1. n \in Nat
  OBVIOUS
<1>2. k \in [0..n -> Nat] /\ \A p \in 1..n : k[p] = k[p - 1] + 1 \/ k[p] = k[p - 1]
  BY DEF Scan
<1> HIDE DEF n
<1>3. 0 \in S
  <2>1. k[0] \in Nat /\ 0 \in 0..n /\ \A p \in 0..0 : p = 0
    BY <1>1, <1>2
  <2> QED BY <2>1
<1>4. ASSUME NEW q \in 0..(n - 1), q \in S PROVE q + 1 \in S
  <2>1. q + 1 \in 1..n /\ q + 1 \in 0..n /\ (q + 1) - 1 = q /\ q \in 0..n
    BY <1>1
  <2>2. (k[q + 1] = k[q] + 1 \/ k[q + 1] = k[q]) /\ k[q] \in Nat
    BY <1>2, <2>1
  <2>3. ASSUME NEW p \in 0..(q + 1) PROVE k[p] <= k[q + 1]
    <3>1. p = q + 1 \/ p \in 0..q
      BY <2>1
    <3>2. CASE p \in 0..q
      <4>1. k[p] <= k[q]
        BY <1>4, <3>2
      <4>2. p \in 0..n
        BY <1>1, <3>2
      <4>3. k[p] \in Nat
        BY <1>2, <4>2
      <4> QED BY <2>2, <4>1, <4>3
    <3>3. CASE p = q + 1
      BY <2>2, <3>3
    <3> QED BY <3>1, <3>2, <3>3
  <2> QED BY <2>1, <2>3
<1> HIDE DEF S
<1>5. \A q \in 0..n : q \in S
  BY <1>1, <1>3, <1>4, UpTo
<1>6. ASSUME NEW p \in 0..n, NEW q \in 0..n, p <= q PROVE k[p] <= k[q]
  <2>1. p \in 0..q
    BY <1>1, <1>6
  <2> QED BY <1>5, <2>1 DEF S
<1> QED BY <1>6 DEF CountsUp, n

(* What is read does not depend on who reads it.                               *)
LEMMA OneScan ==
    ASSUME NEW r \in Seq(Ink), NEW c, NEW k, NEW h, Scan(r, c, k, h), NEW l, NEW m, Scan(r, c, l, m)
    PROVE  \A p \in 0..Len(r) : k[p] = l[p] /\ h[p] = m[p]
<1> DEFINE n == Len(r)
           S == {p \in 0..n : k[p] = l[p] /\ h[p] = m[p]}
<1>1. n \in Nat
  OBVIOUS
<1>2. 0 \in S
  <2>1. 0 \in 0..n
    BY <1>1
  <2> QED BY <2>1 DEF Scan
<1>3. ASSUME NEW p \in 0..(n - 1), p \in S PROVE p + 1 \in S
  <2> DEFINE q == p + 1
  <2>1. q \in 1..n /\ q \in 0..n /\ q - 1 = p
    BY <1>1
  <2>2. /\ r[q] = Newline => h[q] = "code" /\ m[q] = "code"
        /\ r[q] = Comment => h[q] = "comment" /\ m[q] = "comment"
        /\ r[q] \notin {Newline, Comment} => h[q] = h[p] /\ m[q] = m[p]
        /\ Shown(r, h, q) => k[q] = k[p] + 1
        /\ ~Shown(r, h, q) => k[q] = k[p]
        /\ Shown(r, m, q) => l[q] = l[p] + 1
        /\ ~Shown(r, m, q) => l[q] = l[p]
    BY <2>1 DEF Scan, n
  <2>3. k[p] = l[p] /\ h[p] = m[p]
    BY <1>3
  <2>4. Shown(r, h, q) <=> Shown(r, m, q)
    BY <2>1, <2>3 DEF Shown
  <2> HIDE DEF q
  <2>5. k[q] = l[q]
    BY <2>2, <2>3, <2>4
  <2>6. h[q] = m[q]
    BY <2>2, <2>3
  <2> QED BY <2>1, <2>5, <2>6 DEF q
<1> HIDE DEF S, n
<1>4. \A p \in 0..n : p \in S
  BY <1>1, <1>2, <1>3, UpTo
<1> QED BY <1>4 DEF S, n

(* A text that is made of all tokens of the file parses as the file does,      *)
(* unless one of the nodes it is made of begins with a comment.                *)
LEMMA KeptParses ==
    ASSUME NEW f, NEW r, NEW G, Kept(f, r, 1, Len(Source), G)
    PROVE  r \in Seq(Ink) /\ (Parses(r) <=> ~Broken(f, G))
<1>1. r \in Seq(Ink)
  BY DEF Kept
<1>2. PICK l, m : KeptBy(f, r, 1, Len(Source), G, l, m)
  BY DEF Kept
<1>3. PICK k, h : Lists(r, k, h)
  BY <1>1, TokensListed
<1> DEFINE n == Len(r)
           t == Tokens(r)
           z == Len(Source)
<1>4. n \in Nat /\ t \in Seq(Ink) /\ Source \in Seq(STRING) /\ z \in Nat
  BY <1>1, TokensListed, SourceTyped
<1>5. \A p \in 0..n : k[p] = l[p] /\ h[p] = m[p]
  <2>1. Scan(r, "code", k, h) /\ Scan(r, "code", l, m)
    BY <1>2, <1>3 DEF Lists, KeptBy
  <2> QED BY <1>1, <2>1, OneScan
<1>6. /\ Broken(f, G) => l[n] < z - 1 + 1
      /\ ~Broken(f, G) => l[n] = z - 1 + 1 /\ Faithful(r, 1, l, m)
  BY <1>2 DEF KeptBy
<1>7. Reads(r, k, h, t, Place(r), n) /\ l \in [0..n -> Nat] /\ n \in 0..n
  BY <1>2, <1>3, <1>4 DEF Lists, KeptBy, Scan
<1>8. Len(t) = l[n] /\ l[n] \in Nat
  BY <1>5, <1>7 DEF Reads
<1> HIDE DEF z, n, t
<1>9. ASSUME Broken(f, G) PROVE t # Source
  <2>1. Len(t) < z
    BY <1>4, <1>6, <1>8, <1>9
  <2> QED BY <1>4, <2>1 DEF z
<1>10. ASSUME ~Broken(f, G) PROVE t = Source
  <2>1. Len(t) = z /\ Faithful(r, 1, l, m) /\ k[n] = z
    BY <1>4, <1>5, <1>6, <1>7, <1>8, <1>10
  <2>2. ASSUME NEW i \in 1..z PROVE t[i] = Source[i]
    <3> DEFINE p == Place(r)[i]
    <3>1. p \in 1..n /\ Shown(r, h, p) /\ k[p] = i
      BY <1>7, <2>1 DEF Reads
    <3>2. t[i] = r[p]
      <4> HIDE DEF p
      <4> QED BY <1>7, <3>1 DEF Reads
    <3> HIDE DEF p
    <3>3. p \in 0..n /\ p - 1 \in 0..n
      BY <1>4, <3>1
    <3>4. Shown(r, m, p) /\ l[p] = i
      BY <1>5, <3>1, <3>3 DEF Shown
    <3>5. r[p] = Source[1 - 1 + i]
      BY <2>1, <3>1, <3>4 DEF Faithful, n
    <3>6. 1 - 1 + i = i
      BY <1>4
    <3> QED BY <3>2, <3>5, <3>6
  <2> DEFINE P == Ink \cup STRING
  <2>3. t \in Seq(P) /\ Source \in Seq(P)
    BY <1>4
  <2> HIDE DEF P
  <2> QED BY <2>1, <2>2, <2>3, SameSequence DEF z
<1> QED BY <1>1, <1>9, <1>10 DEF Parses, t

-------------------------------------------------------------------------------
(* Where the tokens of a file are: one after the other.                        *)
PlacesOK(f) ==
    /\ Len(f) \in Nat /\ Len(Source) \in Nat
    /\ \A i \in 1..Len(Source) : Place(f)[i] \in 1..Len(f) /\ f[Place(f)[i]] \notin {Newline, Comment}
    /\ \A i, j \in 1..Len(Source) : i < j => Place(f)[i] < Place(f)[j]

(* So they are in a file that parses.                                          *)
LEMMA PlacesInOrder ==
    ASSUME NEW f \in Seq(Ink), Parses(f)
    PROVE  PlacesOK(f)
<1>1. PICK k, h : Lists(f, k, h)
  BY TokensListed
<1> DEFINE n == Len(f)
           z == Len(Source)
           place == Place(f)
<1>2. n \in Nat /\ z \in Nat /\ Len(Tokens(f)) = z
  BY SourceTyped DEF Parses
<1>3. CountsUp(f, k)
  BY <1>1, ScanCountsUp DEF Lists
<1>4. \A i \in 1..z : place[i] \in 1..n /\ Shown(f, h, place[i]) /\ k[place[i]] = i
  <2>1. Reads(f, k, h, Tokens(f), place, n)
    BY <1>1 DEF Lists
  <2> HIDE DEF n, z, place
  <2> QED BY <1>2, <2>1 DEF Reads
<1> HIDE DEF n, z, place
<1>5. ASSUME NEW i \in 1..z, NEW j \in 1..z, i < j PROVE place[i] < place[j]
  <2>1. place[i] \in 1..n /\ place[j] \in 1..n /\ k[place[i]] = i /\ k[place[j]] = j
    BY <1>4
  <2>2. place[i] \in 0..n /\ place[j] \in 0..n
    BY <1>2, <2>1
  <2>3. place[j] <= place[i] => k[place[j]] <= k[place[i]]
    BY <1>3, <2>2 DEF CountsUp, n
  <2> QED BY <1>2, <1>5, <2>1, <2>2, <2>3
<1>6. \A i \in 1..z : f[place[i]] \notin {Newline, Comment}
  BY <1>4 DEF Shown
<1> QED BY <1>2, <1>4, <1>5, <1>6 DEF PlacesOK, n, z, place

(* A part of the file as its author wrote it.                                  *)
LEMMA RawKept ==
    ASSUME NEW f \in Seq(Ink), Parses(f), NEW a \in 1..Len(Source), NEW b \in 1..Len(Source), a <= b
    PROVE  Kept(f, SubSeq(f, Place(f)[a], Place(f)[b]), a, b, {})
<1>1. PICK k, h : Lists(f, k, h)
  BY TokensListed
<1> DEFINE n == Len(f)
           z == Len(Source)
           place == Place(f)
           p == place[a]
           q == place[b]
           x == p - 1
           y == q - x
           r == SubSeq(f, p, q)
<1>2. n \in Nat /\ z \in Nat /\ Len(Tokens(f)) = z /\ Tokens(f) = Source /\ a \in 1..z /\ b \in 1..z
  BY SourceTyped DEF Parses
<1>3. CountsUp(f, k) /\ Scan(f, "code", k, h)
  BY <1>1, ScanCountsUp DEF Lists
<1>4. Reads(f, k, h, Tokens(f), place, n)
  BY <1>1 DEF Lists
<1>5. p <= q
  <2>1. PlacesOK(f)
    BY PlacesInOrder
  <2>2. p \in Nat /\ q \in Nat /\ (a < b => p < q) /\ (a = b => p = q)
    BY <2>1 DEF PlacesOK
  <2> HIDE DEF p, q
  <2> QED BY <1>2, <2>2
<1> HIDE DEF n, z, place
<1>6. /\ p \in 1..n /\ Shown(f, h, p) /\ k[p] = a
      /\ q \in 1..n /\ Shown(f, h, q) /\ k[q] = b
  BY <1>2, <1>4 DEF Reads
<1> HIDE DEF p, q
<1>7. x \in Nat /\ y \in Nat /\ y >= 1 /\ x + y = q /\ x + 1 = p /\ q <= n
  BY <1>2, <1>5, <1>6
<1>8. r \in Seq(Ink) /\ Len(r) = y /\ \A i \in 1..y : r[i] = f[x + i]
  <2>1. x <= q /\ q \in Nat
    BY <1>6, <1>7
  <2> HIDE DEF x
  <2>2. Part(f, x, q, Ink)
    BY <1>7, <2>1, PartOf DEF n
  <2> QED BY <1>7, <2>1, <2>2 DEF Part
<1> HIDE DEF x, y, r
<1>9. /\ k \in [0..n -> Nat] /\ h \in [0..n -> Modes]
      /\ \A i \in 1..n : /\ f[i] = Newline => h[i] = "code"
                         /\ f[i] = Comment => h[i] = "comment"
                         /\ f[i] \notin {Newline, Comment} => h[i] = h[i - 1]
                         /\ Shown(f, h, i) => k[i] = k[i - 1] + 1
                         /\ ~Shown(f, h, i) => k[i] = k[i - 1]
  BY <1>3 DEF Scan, n
<1>10. k[x] = a - 1 /\ h[x] = "code" /\ h[q] = "code"
  <2>1. p - 1 = x /\ x \in 0..n
    BY <1>2, <1>6, <1>7
  <2>2. h[p - 1] = "code" /\ h[q - 1] = "code" /\ f[q] \notin {Newline, Comment}
    BY <1>6 DEF Shown
  <2>3. k[p] = k[p - 1] + 1 /\ h[q] = h[q - 1]
    BY <1>6, <1>9, <2>2
  <2>4. k[x] \in Nat /\ k[x] + 1 = a
    BY <1>6, <1>9, <2>1, <2>3
  <2> QED BY <2>1, <2>2, <2>3, <2>4
<1> DEFINE l == [i \in 0..y |-> k[x + i] - k[x]]
           m == [i \in 0..y |-> h[x + i]]
<1>11. ASSUME NEW i \in 0..y
       PROVE  x + i \in 0..n /\ k[x + i] \in Nat /\ k[x] \in Nat /\ k[x] <= k[x + i] /\ h[x + i] \in Modes
  <2>1. x + i \in 0..n /\ x \in 0..n /\ x <= x + i
    BY <1>2, <1>7
  <2> DEFINE j == x + i
  <2>2. k[x] <= k[j]
    <3>1. j \in 0..n /\ x <= j
      BY <2>1
    <3> HIDE DEF j
    <3> QED BY <1>3, <2>1, <3>1 DEF CountsUp, n
  <2> QED BY <1>9, <2>1, <2>2
<1>12. l \in [0..y -> Nat] /\ m \in [0..y -> Modes] /\ l[0] = 0 /\ m[0] = "code"
  <2>1. \A i \in 0..y : k[x + i] - k[x] \in Nat /\ h[x + i] \in Modes
    BY <1>11
  <2>2. l[0] = 0 /\ m[0] = "code"
    <3>1. 0 \in 0..y /\ x + 0 = x
      BY <1>7
    <3>2. k[x] \in Nat
      BY <1>11, <3>1
    <3> QED BY <1>10, <3>1, <3>2
  <2> QED BY <2>1, <2>2
<1>13. ASSUME NEW i \in 1..y
       PROVE  /\ r[i] = Newline => m[i] = "code"
              /\ r[i] = Comment => m[i] = "comment"
              /\ r[i] \notin {Newline, Comment} => m[i] = m[i - 1]
              /\ Shown(r, m, i) => l[i] = l[i - 1] + 1
              /\ ~Shown(r, m, i) => l[i] = l[i - 1]
              /\ Shown(r, m, i) <=> Shown(f, h, x + i)
  <2> DEFINE j == x + i
             u == j - 1
             v == i - 1
  <2>1. i \in 0..y /\ v \in 0..y /\ x + v = u /\ j \in 1..n /\ j \in Nat
    BY <1>7, <1>2
  <2>2. m[i] = h[j] /\ m[v] = h[u] /\ l[i] = k[j] - k[x] /\ l[v] = k[u] - k[x]
    <3> HIDE DEF u, v
    <3> QED BY <2>1
  <2>3. r[i] = f[j]
    BY <1>8
  <2>4. k[j] \in Nat /\ k[u] \in Nat /\ k[x] \in Nat
    <3> HIDE DEF u, v
    <3> QED BY <1>11, <2>1
  <2> HIDE DEF l, m
  <2>5. /\ f[j] = Newline => h[j] = "code"
        /\ f[j] = Comment => h[j] = "comment"
        /\ f[j] \notin {Newline, Comment} => h[j] = h[u]
        /\ Shown(f, h, j) => k[j] = k[u] + 1
        /\ ~Shown(f, h, j) => k[j] = k[u]
    <3> HIDE DEF j
    <3> QED BY <1>9, <2>1
  <2>6. Shown(r, m, i) <=> Shown(f, h, j)
    <3> HIDE DEF j
    <3> QED BY <2>2, <2>3 DEF Shown, u, v
  <2> HIDE DEF j, u
  <2>7. Shown(f, h, j) => l[i] = l[v] + 1
    BY <2>2, <2>4, <2>5
  <2>8. ~Shown(f, h, j) => l[i] = l[v]
    BY <2>2, <2>4, <2>5
  <2> QED BY <2>2, <2>3, <2>5, <2>6, <2>7, <2>8 DEF j
<1>14. Scan(r, "code", l, m)
  <2> HIDE DEF l, m
  <2> QED BY <1>8, <1>12, <1>13 DEF Scan
<1>15. l[y] = b - a + 1 /\ m[y] = "code"
  <2>1. y \in 0..y /\ a \in Nat /\ b \in Nat
    BY <1>2, <1>7
  <2>2. l[y] = k[q] - k[x] /\ m[y] = h[q]
    BY <1>7, <2>1
  <2> QED BY <1>6, <1>10, <2>1, <2>2
<1>16. ASSUME NEW i \in 1..y, Shown(r, m, i) PROVE r[i] = Source[a - 1 + l[i]]
  <2> DEFINE j == x + i
  <2>1. j \in 1..n /\ i \in 0..y /\ Shown(f, h, j) /\ r[i] = f[j]
    <3>1. j \in 1..n /\ i \in 0..y
      BY <1>2, <1>7
    <3> HIDE DEF l, m
    <3> QED BY <1>8, <1>13, <1>16, <3>1
  <2>2. Tokens(f)[k[j]] = f[j]
    <3> HIDE DEF j, l, m
    <3> QED BY <1>4, <2>1 DEF Reads
  <2>3. k[j] = a - 1 + l[i]
    <3>1. l[i] = k[j] - k[x] /\ k[j] \in Nat /\ a \in Nat
      BY <1>2, <1>11, <2>1
    <3> HIDE DEF l, j
    <3> QED BY <1>10, <3>1
  <2> HIDE DEF l, m, j
  <2> QED BY <1>2, <2>1, <2>2, <2>3
<1> HIDE DEF l, m
<1>17. KeptBy(f, r, a, b, {}, l, m)
  <2>1. Faithful(r, a, l, m)
    BY <1>8, <1>15, <1>16 DEF Faithful
  <2>2. ~Broken(f, {})
    BY DEF Broken
  <2> QED BY <1>8, <1>14, <1>15, <2>1, <2>2 DEF KeptBy
<1>18. Kept(f, r, a, b, {})
  BY <1>8, <1>17 DEF Kept
<1> QED BY <1>18 DEF r, p, q, place

-------------------------------------------------------------------------------
(* Children follow each other.                                                 *)
KidsInOrder(kids) == \A i, j \in DOMAIN kids : i < j => Node[kids[i]].last < Node[kids[j]].first

(* For each is right behind the one before and what is between them.           *)
LEMMA TilesInOrder ==
    ASSUME NEW n \in DOMAIN Node, NEW between \in Seq(STRING), NEW from, NEW to,
           Tiled(Node[n].kids, between, from, to)
    PROVE  KidsInOrder(Node[n].kids)
<1> DEFINE kids == Node[n].kids
           z == Len(kids)
           S == {j \in 0..z : \A i \in 1..(j - 1) : Node[kids[i]].last < Node[kids[j]].first}
<1>1. kids \in Seq(Nat) /\ z \in Nat /\ DOMAIN kids = 1..z /\ Len(between) \in Nat
  BY NodesPlaced DEF NodeFacts
<1>2. \A i \in 1..z : /\ Node[kids[i]].first \in Nat /\ Node[kids[i]].last \in Nat
                      /\ Node[kids[i]].first <= Node[kids[i]].last
  <2>1. \A i \in 1..z : kids[i] \in DOMAIN Node /\ Placed(kids[i])
    BY <1>1, NodesPlaced DEF NodeFacts
  <2> HIDE DEF kids
  <2> QED BY <2>1, NodesPlaced DEF NodeFacts, Placed
<1>3. \A i \in 1..(z - 1) : Node[kids[i + 1]].first = Node[kids[i]].last + Len(between) + 1
  BY DEF Tiled
<1> HIDE DEF kids, z
<1>4. 0 \in S
  BY <1>1
<1>5. ASSUME NEW j \in 0..(z - 1), j \in S PROVE j + 1 \in S
  <2>1. j + 1 \in 1..z /\ j + 1 \in 0..z
    BY <1>1
  <2>2. ASSUME NEW i \in 1..((j + 1) - 1) PROVE Node[kids[i]].last < Node[kids[j + 1]].first
    <3>1. i \in 1..z /\ j \in 1..(z - 1) /\ j \in 1..z /\ (i = j \/ i \in 1..(j - 1))
      BY <1>1, <2>1
    <3> DEFINE u == Node[kids[j]].first
               v == Node[kids[j]].last
               w == Node[kids[j + 1]].first
               x == Node[kids[i]].last
               y == Len(between)
    <3>2. u \in Nat /\ v \in Nat /\ u <= v /\ w = v + y + 1 /\ y \in Nat /\ x \in Nat
      BY <1>1, <1>2, <1>3, <3>1
    <3>3. i = j => x = v
      OBVIOUS
    <3>4. i \in 1..(j - 1) => x < u
      BY <1>5
    <3> HIDE DEF u, v, w, x, y
    <3>5. x < w
      BY <3>1, <3>2, <3>3, <3>4
    <3> QED BY <3>5 DEF x, w
  <2> QED BY <2>1, <2>2
<1> HIDE DEF S
<1>6. \A j \in 0..z : j \in S
  BY <1>1, <1>4, <1>5, UpTo
<1>7. ASSUME NEW i \in 1..z, NEW j \in 1..z, i < j PROVE Node[kids[i]].last < Node[kids[j]].first
  <2>1. j \in 0..z /\ i \in 1..(j - 1)
    BY <1>1, <1>7
  <2> QED BY <1>6, <2>1 DEF S
<1> QED BY <1>1, <1>7 DEF KidsInOrder, kids

(* One of X at every place, where there is any, place by place.                *)
From(X, p) == {c \in X : c.from = p}
Placewise(X, n) == [p \in 1..n |-> IF From(X, p) = {} THEN <<>> ELSE <<CHOOSE c \in From(X, p) : TRUE>>]

(* s has those of X up to p in order.                                          *)
Ordered(s, X, p) ==
    /\ s \in Seq(X)
    /\ \A c \in X : c.from <= p <=> \E i \in 1..Len(s) : s[i] = c
    /\ \A i, j \in 1..Len(s) : i < j => s[i].from < s[j].from

(* If there is one at most at every place, all are there, in order.            *)
LEMMA OrderedByPlace ==
    ASSUME NEW n \in Nat, NEW X, \A c \in X : c.from \in 1..n, \A c, d \in X : c.from = d.from => c = d
    PROVE  Ordered(FlattenSeq(Placewise(X, n)), X, n)
<1> DEFINE s == Placewise(X, n)
<1>1. ASSUME NEW p \in 1..n
      PROVE  /\ s[p] \in Seq(X)
             /\ s[p] = <<>> => From(X, p) = {}
             /\ s[p] # <<>> => \E c \in X : c.from = p /\ s[p] = <<c>>
  <2>1. s[p] = IF From(X, p) = {} THEN <<>> ELSE <<CHOOSE c \in From(X, p) : TRUE>>
    BY DEF Placewise
  <2>2. CASE From(X, p) = {}
    BY <2>1, <2>2
  <2>3. CASE From(X, p) # {}
    <3> DEFINE c == CHOOSE c \in From(X, p) : TRUE
    <3>1. c \in From(X, p) /\ s[p] = <<c>>
      BY <2>1, <2>3
    <3> HIDE DEF c, s
    <3>2. c \in X /\ c.from = p /\ <<c>> # <<>> /\ <<c>> \in Seq(X)
      BY <3>1 DEF From
    <3> QED BY <3>1, <3>2
  <2> QED BY <2>2, <2>3
<1>2. s \in Seq(Seq(X)) /\ Len(s) = n
  <2> DEFINE P == Seq(X)
  <2>1. s = [p \in 1..n |-> s[p]]
    BY DEF Placewise
  <2>2. \A p \in 1..n : s[p] \in P
    BY <1>1
  <2> HIDE DEF s, P
  <2>3. s \in [1..n -> P]
    BY <2>1, <2>2
  <2>4. s \in Seq(P) /\ Len(s) = n
    BY <2>3
  <2> QED BY <2>4 DEF P
<1> HIDE DEF s
<1>3. PICK acc : Flat(acc, s, X)
  BY <1>2, Flattens
<1>4. /\ acc \in [0..n -> Seq(X)] /\ acc[0] = <<>> /\ FlattenSeq(s) = acc[n]
      /\ \A p \in 1..n : acc[p] = acc[p - 1] \o s[p]
  BY <1>2, <1>3 DEF Flat
<1> DEFINE S == {p \in 0..n : Ordered(acc[p], X, p)}
<1>5. 0 \in S
  <2>1. acc[0] = <<>> /\ 0 \in 0..n /\ \A c \in X : ~(c.from <= 0)
    BY <1>4
  <2>2. <<>> \in Seq(X) /\ 1..Len(<<>>) = {}
    OBVIOUS
  <2>3. Ordered(<<>>, X, 0)
    BY <2>1, <2>2 DEF Ordered
  <2> QED BY <2>1, <2>3
<1>6. ASSUME NEW p \in 0..(n - 1), p \in S PROVE p + 1 \in S
  <2> DEFINE q == p + 1
             x == acc[p]
             y == acc[q]
  <2>1. q \in 1..n /\ q \in 0..n /\ p \in 0..n /\ q - 1 = p /\ p \in Nat
    OBVIOUS
  <2>2. x \in Seq(X) /\ y = x \o s[q] /\ s[q] \in Seq(X)
    <3> HIDE DEF q
    <3> QED BY <1>1, <1>4, <2>1
  <2>3. Ordered(x, X, p)
    BY <1>6
  <2>4. \A c \in X : c.from <= q <=> c.from <= p \/ c.from = q
    BY <2>1
  <2>5. CASE s[q] = <<>>
    <3>1. From(X, q) = {}
      <4> HIDE DEF q
      <4> QED BY <1>1, <2>1, <2>5
    <3> HIDE DEF q, x, y
    <3>2. y = x
      BY <2>2, <2>5
    <3>3. \A c \in X : c.from # q
      BY <3>1 DEF From
    <3>4. Ordered(y, X, q)
      BY <2>3, <2>4, <3>2, <3>3 DEF Ordered
    <3> QED BY <2>1, <3>4 DEF q, y
  <2>6. CASE s[q] # <<>>
    <3> HIDE DEF q, x, y
    <3>1. PICK d \in X : d.from = q /\ s[q] = <<d>>
      BY <1>1, <2>1, <2>6
    <3>2. /\ y \in Seq(X) /\ Len(y) = Len(x) + 1 /\ y[Len(x) + 1] = d /\ Len(x) \in Nat
          /\ \A i \in 1..Len(x) : y[i] = x[i] /\ x[i] \in X
      BY <2>2, <3>1
    <3>3. /\ \A c \in X : c.from <= p <=> \E i \in 1..Len(x) : x[i] = c
          /\ \A i, j \in 1..Len(x) : i < j => x[i].from < x[j].from
      BY <2>3 DEF Ordered
    <3>4. ASSUME NEW c \in X PROVE c.from <= q <=> \E i \in 1..Len(y) : y[i] = c
      <4>1. ASSUME c.from <= p PROVE \E i \in 1..Len(y) : y[i] = c
        <5>1. PICK i \in 1..Len(x) : x[i] = c
          BY <3>3, <4>1
        <5>2. i \in 1..Len(y) /\ y[i] = c
          BY <3>2, <5>1
        <5> QED BY <5>2
      <4>2. ASSUME c.from = q PROVE \E i \in 1..Len(y) : y[i] = c
        <5>1. c = d /\ Len(x) + 1 \in 1..Len(y)
          BY <3>1, <3>2, <4>2
        <5> QED BY <3>2, <5>1
      <4>3. ASSUME NEW i \in 1..Len(y), y[i] = c PROVE c.from <= q
        <5>1. CASE i = Len(x) + 1
          BY <2>1, <2>4, <3>1, <3>2, <4>3, <5>1
        <5>2. CASE i \in 1..Len(x)
          <6>1. x[i] = c
            BY <3>2, <4>3, <5>2
          <6> QED BY <2>4, <3>3, <5>2, <6>1
        <5> QED BY <3>2, <5>1, <5>2
      <4> QED BY <2>4, <4>1, <4>2, <4>3
    <3>5. ASSUME NEW i \in 1..Len(y), NEW j \in 1..Len(y), i < j PROVE y[i].from < y[j].from
      <4>1. i \in 1..Len(x) /\ y[i] = x[i] /\ x[i] \in X
        BY <3>2, <3>5
      <4>2. x[i].from <= p /\ x[i].from \in Nat
        <5>1. x[i].from <= p
          BY <3>3, <4>1
        <5> QED BY <4>1, <5>1
      <4>3. CASE j = Len(x) + 1
        <5>1. y[j].from = q
          BY <3>1, <3>2, <4>3
        <5> QED BY <2>1, <4>1, <4>2, <5>1
      <4>4. CASE j \in 1..Len(x)
        BY <3>2, <3>3, <3>5, <4>1, <4>4
      <4> QED BY <3>2, <4>3, <4>4
    <3>6. Ordered(y, X, q)
      BY <3>2, <3>4, <3>5 DEF Ordered
    <3> QED BY <2>1, <3>6 DEF q, y
  <2> QED BY <2>5, <2>6
<1> HIDE DEF S
<1>7. n \in S
  <2>1. \A p \in 0..n : p \in S
    BY <1>5, <1>6, UpTo
  <2> QED BY <2>1
<1> QED BY <1>4, <1>7 DEF S, s

-------------------------------------------------------------------------------
(* The children of a node: its kids, and the comments outside these.           *)
Kid(f, k) ==
    [kind |-> Node[k].kind, node |-> k, from |-> Place(f)[Node[k].first], to |-> Place(f)[Node[k].last]]
Note(p) == [kind |-> "comment", node |-> NoNode, from |-> p, to |-> p]
Kids(f, n) == {Kid(f, k) : k \in ToSet(Node[n].kids)}
Span(f, n) == IF n = Root THEN DOMAIN f ELSE Place(f)[Node[n].first]..Place(f)[Node[n].last]
Outside(f, n) == {p \in Span(f, n) : f[p] = Comment /\ \A k \in Kids(f, n) : p < k.from \/ k.to < p}
Children(f, n) == Kids(f, n) \cup {Note(p) : p \in Outside(f, n)}

ChildFits(f, n, c) ==
    /\ c.from \in 1..Len(f)
    /\ \/ f[c.from] # Comment /\ \E j \in DOMAIN Node[n].kids : c = Kid(f, Node[n].kids[j])
       \/ f[c.from] = Comment /\ c = Note(c.from) /\ c.from \in Outside(f, n)
ChildrenListed(f, n) ==
    /\ Ordered(NamedChildren(f, n), Children(f, n), Len(f))
    /\ \A c \in Children(f, n) : ChildFits(f, n, c)
    /\ \A i, j \in DOMAIN Node[n].kids :
          i < j => Place(f)[Node[Node[n].kids[i]].first] < Place(f)[Node[Node[n].kids[j]].first]

(* NamedChildren lists them in order.                                          *)
LEMMA NamedChildrenListed ==
    ASSUME NEW f \in Seq(Ink), Parses(f), NEW n \in DOMAIN Node, KidsInOrder(Node[n].kids)
    PROVE  ChildrenListed(f, n)
<1> DEFINE kids == Node[n].kids
           place == Place(f)
           X == Children(f, n)
<1>1. PlacesOK(f) /\ NodeFacts(n)
  BY PlacesInOrder, NodesPlaced
<1>2. Len(f) \in Nat /\ DOMAIN f = 1..Len(f) /\ Len(Source) \in Nat
  BY <1>1 DEF PlacesOK
<1>3. ASSUME NEW j \in DOMAIN kids
      PROVE  /\ Node[kids[j]].first \in 1..Len(Source) /\ Node[kids[j]].last \in 1..Len(Source)
             /\ place[Node[kids[j]].first] \in 1..Len(f) /\ f[place[Node[kids[j]].first]] # Comment
             /\ Node[kids[j]].first <= Node[kids[j]].last
  <2>1. kids[j] \in DOMAIN Node /\ Placed(kids[j])
    BY <1>1 DEF NodeFacts
  <2> HIDE DEF kids
  <2>2. Node[kids[j]].first \in Nat /\ Node[kids[j]].last \in Nat
    BY <2>1, NodesPlaced DEF NodeFacts
  <2>3. Node[kids[j]].first \in 1..Len(Source) /\ Node[kids[j]].last \in 1..Len(Source)
    BY <1>2, <2>1, <2>2 DEF Placed
  <2> QED BY <1>1, <2>1, <2>3 DEF PlacesOK, Placed
<1>4. ASSUME NEW i \in DOMAIN kids, NEW j \in DOMAIN kids, i < j
      PROVE  place[Node[kids[i]].first] < place[Node[kids[j]].first]
  <2>1. Node[kids[i]].first < Node[kids[j]].first
    <3>1. Node[kids[i]].last < Node[kids[j]].first
      BY <1>4 DEF KidsInOrder
    <3>2. /\ Node[kids[i]].first \in 1..Len(Source) /\ Node[kids[i]].last \in 1..Len(Source)
          /\ Node[kids[j]].first \in 1..Len(Source) /\ Node[kids[i]].first <= Node[kids[i]].last
      BY <1>3
    <3> HIDE DEF kids
    <3> QED BY <1>2, <3>1, <3>2
  <2> QED BY <1>1, <1>3, <2>1 DEF PlacesOK
<1>5. ASSUME NEW c \in X PROVE ChildFits(f, n, c)
  <2>1. CASE c \in Kids(f, n)
    <3>1. PICK j \in DOMAIN kids : c = Kid(f, kids[j])
      BY <2>1 DEF Kids, ToSet
    <3>2. c.from = place[Node[kids[j]].first]
      BY <3>1 DEF Kid
    <3> QED BY <1>3, <3>1, <3>2 DEF ChildFits
  <2>2. CASE c \in {Note(p) : p \in Outside(f, n)}
    <3>1. PICK p \in Outside(f, n) : c = Note(p)
      BY <2>2
    <3>2. c.from = p /\ f[p] = Comment
      BY <3>1 DEF Note, Outside
    <3>3. p \in 1..Len(f)
      <4>1. CASE n = Root
        BY <1>2, <3>1, <4>1 DEF Outside, Span
      <4>2. CASE n # Root
        <5>1. Node[n].first \in 1..Len(Source) /\ Node[n].last \in 1..Len(Source)
          BY <1>1, <1>2, <4>2 DEF NodeFacts, Placed
        <5>2. place[Node[n].first] \in 1..Len(f) /\ place[Node[n].last] \in 1..Len(f)
          BY <1>1, <5>1 DEF PlacesOK
        <5>3. p \in place[Node[n].first]..place[Node[n].last]
          BY <3>1, <4>2 DEF Outside, Span
        <5> HIDE DEF place
        <5> QED BY <1>2, <5>2, <5>3
      <4> QED BY <4>1, <4>2
    <3> QED BY <3>1, <3>2, <3>3 DEF ChildFits
  <2> QED BY <2>1, <2>2 DEF Children
<1>6. ASSUME NEW c \in X, NEW d \in X, c.from = d.from PROVE c = d
  <2>1. ChildFits(f, n, c) /\ ChildFits(f, n, d)
    BY <1>5
  <2>2. CASE f[c.from] = Comment
    BY <1>6, <2>1, <2>2 DEF ChildFits
  <2>3. CASE f[c.from] # Comment
    <3>1. PICK i \in DOMAIN kids : c = Kid(f, kids[i])
      BY <2>1, <2>3 DEF ChildFits
    <3>2. PICK j \in DOMAIN kids : d = Kid(f, kids[j])
      BY <1>6, <2>1, <2>3 DEF ChildFits
    <3>3. place[Node[kids[i]].first] = place[Node[kids[j]].first]
      BY <1>6, <3>1, <3>2 DEF Kid
    <3>4. place[Node[kids[i]].first] \in 1..Len(f)
      BY <1>3
    <3>5. i \in Nat /\ j \in Nat
      <4>1. kids \in Seq(Nat)
        BY <1>1 DEF NodeFacts
      <4> HIDE DEF kids
      <4> QED BY <4>1
    <3>6. ~(i < j) /\ ~(j < i)
      <4>1. ~(place[Node[kids[i]].first] < place[Node[kids[j]].first])
        BY <1>2, <3>3, <3>4
      <4>2. ~(place[Node[kids[j]].first] < place[Node[kids[i]].first])
        BY <1>2, <3>3, <3>4
      <4> QED BY <1>4, <4>1, <4>2
    <3>7. i = j
      BY <3>5, <3>6
    <3> QED BY <3>1, <3>2, <3>7
  <2> QED BY <2>2, <2>3
<1>7. NamedChildren(f, n) = FlattenSeq(Placewise(X, Len(f)))
  BY <1>2 DEF NamedChildren, Placewise, From, Children, Kids, Kid, Note, Outside, Span
<1>8. Ordered(FlattenSeq(Placewise(X, Len(f))), X, Len(f))
  <2>1. \A c \in X : c.from \in 1..Len(f)
    BY <1>5 DEF ChildFits
  <2> HIDE DEF X
  <2> QED BY <1>2, <1>6, <2>1, OrderedByPlace
<1> QED BY <1>4, <1>5, <1>7, <1>8 DEF ChildrenListed

-------------------------------------------------------------------------------
(* What the grammar says of the children of n.                                 *)
ChildrenAre(n, kind, between, from, to) ==
    /\ \A j \in DOMAIN Node[n].kids : Node[Node[n].kids[j]].kind \in kind
    /\ Tiled(Node[n].kids, between, from, to)
KindsOf(n) == [i \in DOMAIN Node[n].kids |-> Node[Node[n].kids[i]].kind]

(* As Grammar has it.                                                          *)
LEMMA ChildrenOf ==
    ASSUME NEW n \in DOMAIN Node, NEW kind, NEW between, NEW from, NEW to,
           ToSet(KindsOf(n)) \subseteq kind, Tiled(Node[n].kids, between, from, to)
    PROVE  ChildrenAre(n, kind, between, from, to)
<1>1. ASSUME NEW j \in DOMAIN Node[n].kids PROVE Node[Node[n].kids[j]].kind \in kind
  <2>1. DOMAIN KindsOf(n) = DOMAIN Node[n].kids /\ KindsOf(n)[j] = Node[Node[n].kids[j]].kind
    BY DEF KindsOf
  <2>2. KindsOf(n)[j] \in ToSet(KindsOf(n))
    BY <2>1 DEF ToSet
  <2> QED BY <2>1, <2>2
<1> QED BY <1>1 DEF ChildrenAre

(* As many kinds as kids.                                                      *)
LEMMA KindsCounted ==
    ASSUME NEW n \in DOMAIN Node
    PROVE  Len(KindsOf(n)) = Len(Node[n].kids) /\ Len(Node[n].kids) \in Nat
<1> DEFINE kids == Node[n].kids
<1>1. kids \in Seq(Nat)
  BY NodesPlaced DEF NodeFacts
<1> HIDE DEF kids
<1>2. [i \in DOMAIN kids |-> Node[kids[i]].kind] \in [1..Len(kids) -> {Node[kids[i]].kind : i \in DOMAIN kids}]
  BY <1>1
<1>3. Len([i \in DOMAIN kids |-> Node[kids[i]].kind]) = Len(kids)
  BY <1>1
<1> QED BY <1>1, <1>3 DEF KindsOf, kids

(* What a file and a node of each kind are made of.                            *)
FileFits(n) == ChildrenAre(n, {"model_header", "module_header", "type_definition", "condition"}, <<>>, 1, Len(Source))
TypeFits(n) ==
    /\ Len(Node[n].kids) <= 1 /\ ChildrenAre(n, {"relations_block"}, <<>>, Node[n].name + 1, Node[n].last)
    /\ \/ Node[n].name = Node[n].first + 1 /\ Source[Node[n].first] = "type"
       \/ Node[n].name = Node[n].first + 2 /\ Source[Node[n].first] = "extend" /\ Source[Node[n].first + 1] = "type"
BlockFits(n) ==
    ChildrenAre(n, {"relation_definition"}, <<>>, Node[n].first + 1, Node[n].last) /\ Source[Node[n].first] = "relations"
RelationFits(n) ==
    /\ Len(Node[n].kids) = 1 /\ ChildrenAre(n, RelationDef, <<>>, Node[n].first + 3, Node[n].last)
    /\ Source[Node[n].first] = "define" /\ Node[n].name = Node[n].first + 1 /\ Source[Node[n].first + 2] = ":"
OperatorFits(n, operator) == ChildrenAre(n, Operand, <<operator>>, Node[n].first, Node[n].last)
GroupFits(n) ==
    /\ Len(Node[n].kids) = 1 /\ ChildrenAre(n, RelationDef, <<>>, Node[n].first + 1, Node[n].last - 1)
    /\ Source[Node[n].first] = "(" /\ Source[Node[n].last] = ")"
AssignmentFits(n) ==
    /\ ChildrenAre(n, {"type_restriction"}, <<",">>, Node[n].first + 1, Node[n].last - 1)
    /\ Source[Node[n].first] = "[" /\ Source[Node[n].last] = "]"
ConditionFits(n) ==
    /\ ChildrenAre(n, {"parameter"}, <<",">>, Node[n].first + 3, Node[n].last - 2)
    /\ Source[Node[n].first] = "condition" /\ Node[n].name = Node[n].first + 1 /\ Source[Node[n].first + 2] = "("
    /\ Source[Node[n].last - 1] = ")" /\ Source[Node[n].last] = Braces
ParameterFits(n) ==
    /\ Len(Node[n].kids) = 1 /\ ChildrenAre(n, {"parameter_type"}, <<>>, Node[n].first + 2, Node[n].last)
    /\ Node[n].name = Node[n].first /\ Source[Node[n].first + 1] = ":"
NodeFits(n) ==
    /\ Node[n].kind = "source_file" => FileFits(n)
    /\ Node[n].kind = "type_definition" => TypeFits(n)
    /\ Node[n].kind = "relations_block" => BlockFits(n)
    /\ Node[n].kind = "relation_definition" => RelationFits(n)
    /\ Node[n].kind = "union" => OperatorFits(n, "or")
    /\ Node[n].kind = "intersection" => OperatorFits(n, "and")
    /\ Node[n].kind = "exclusion" => OperatorFits(n, "but not")
    /\ Node[n].kind = "grouping" => GroupFits(n)
    /\ Node[n].kind = "direct_assignment" => AssignmentFits(n)
    /\ Node[n].kind = "condition" => ConditionFits(n)
    /\ Node[n].kind = "parameter" => ParameterFits(n)
    /\ Node[n].kind \in {"model_header", "module_header", "computed_relation", "tupleset_relation",
                         "wildcard", "relation_suffix", "condition_suffix", "parameter_type"}
        => Node[n].kids = <<>>

(* All nodes are made so.                                                      *)
LEMMA NodesFit ==
    ASSUME NEW n \in DOMAIN Node
    PROVE  NodeFits(n)
<1> DEFINE node == Node[n]
           are(kind, between, from, to) ==
               ToSet(KindsOf(n)) \subseteq kind /\ Tiled(node.kids, between, from, to)
<1>1. Grammar(n)
  BY SyntaxAssumption
<1>2. ASSUME NEW kind, NEW between, NEW from, NEW to, are(kind, between, from, to)
      PROVE  ChildrenAre(n, kind, between, from, to)
  BY <1>2, ChildrenOf
<1>3. Len(KindsOf(n)) = Len(node.kids)
  BY KindsCounted
<1>4. node.kind = "source_file" => FileFits(n)
  <2>1. node.kind = "source_file"
        => are({"model_header", "module_header", "type_definition", "condition"}, <<>>, 1, Len(Source))
    BY <1>1 DEF Grammar, KindsOf
  <2> HIDE DEF are, node
  <2> QED BY <1>2, <2>1 DEF FileFits
<1>5. node.kind = "type_definition" => TypeFits(n)
  <2>1. node.kind = "type_definition" =>
          /\ Len(KindsOf(n)) <= 1 /\ are({"relations_block"}, <<>>, node.name + 1, node.last)
          /\ \/ node.name = node.first + 1 /\ Source[node.first] = "type"
             \/ node.name = node.first + 2 /\ Source[node.first] = "extend" /\ Source[node.first + 1] = "type"
    BY <1>1 DEF Grammar, KindsOf
  <2> HIDE DEF are
  <2> QED BY <1>2, <1>3, <2>1 DEF TypeFits
<1>6. node.kind = "relations_block" => BlockFits(n)
  <2>1. node.kind = "relations_block"
        => are({"relation_definition"}, <<>>, node.first + 1, node.last) /\ Source[node.first] = "relations"
    BY <1>1 DEF Grammar, KindsOf
  <2> HIDE DEF are
  <2> QED BY <1>2, <2>1 DEF BlockFits
<1>7. node.kind = "relation_definition" => RelationFits(n)
  <2>1. node.kind = "relation_definition" =>
          /\ Len(KindsOf(n)) = 1 /\ are(RelationDef, <<>>, node.first + 3, node.last)
          /\ Source[node.first] = "define" /\ node.name = node.first + 1 /\ Source[node.first + 2] = ":"
    BY <1>1 DEF Grammar, KindsOf
  <2> HIDE DEF are
  <2> QED BY <1>2, <1>3, <2>1 DEF RelationFits
<1>8. /\ node.kind = "union" => OperatorFits(n, "or")
      /\ node.kind = "intersection" => OperatorFits(n, "and")
      /\ node.kind = "exclusion" => OperatorFits(n, "but not")
  <2>1. /\ node.kind = "union" => are(Operand, <<"or">>, node.first, node.last)
        /\ node.kind = "intersection" => are(Operand, <<"and">>, node.first, node.last)
        /\ node.kind = "exclusion" => are(Operand, <<"but not">>, node.first, node.last)
    BY <1>1 DEF Grammar, KindsOf
  <2> HIDE DEF are
  <2> QED BY <1>2, <2>1 DEF OperatorFits
<1>9. node.kind = "grouping" => GroupFits(n)
  <2>1. node.kind = "grouping" =>
          /\ Len(KindsOf(n)) = 1 /\ are(RelationDef, <<>>, node.first + 1, node.last - 1)
          /\ Source[node.first] = "(" /\ Source[node.last] = ")"
    BY <1>1 DEF Grammar, KindsOf
  <2> HIDE DEF are
  <2> QED BY <1>2, <1>3, <2>1 DEF GroupFits
<1>10. node.kind = "direct_assignment" => AssignmentFits(n)
  <2>1. node.kind = "direct_assignment" =>
          /\ are({"type_restriction"}, <<",">>, node.first + 1, node.last - 1)
          /\ Source[node.first] = "[" /\ Source[node.last] = "]"
    BY <1>1 DEF Grammar, KindsOf
  <2> HIDE DEF are
  <2> QED BY <1>2, <2>1 DEF AssignmentFits
<1>11. node.kind = "condition" => ConditionFits(n)
  <2>1. node.kind = "condition" =>
          /\ are({"parameter"}, <<",">>, node.first + 3, node.last - 2)
          /\ Source[node.first] = "condition" /\ node.name = node.first + 1 /\ Source[node.first + 2] = "("
          /\ Source[node.last - 1] = ")" /\ Source[node.last] = Braces
    BY <1>1 DEF Grammar, KindsOf
  <2> HIDE DEF are
  <2> QED BY <1>2, <2>1 DEF ConditionFits
<1>12. node.kind = "parameter" => ParameterFits(n)
  <2>1. node.kind = "parameter" =>
          /\ Len(KindsOf(n)) = 1 /\ are({"parameter_type"}, <<>>, node.first + 2, node.last)
          /\ node.name = node.first /\ Source[node.first + 1] = ":"
    BY <1>1 DEF Grammar, KindsOf
  <2> HIDE DEF are
  <2> QED BY <1>2, <1>3, <2>1 DEF ParameterFits
<1>13. node.kind \in {"model_header", "module_header", "computed_relation", "tupleset_relation",
                      "wildcard", "relation_suffix", "condition_suffix", "parameter_type"}
        => node.kids = <<>>
  BY <1>1 DEF Grammar
<1> QED BY <1>4, <1>5, <1>6, <1>7, <1>8, <1>9, <1>10, <1>11, <1>12, <1>13 DEF NodeFits

-------------------------------------------------------------------------------
(* What is written piece by piece: the pieces s are made of the tokens up to   *)
(* those at e and of the nodes H.                                              *)
PiecesKept(f, s, e, H) ==
    /\ e \in [0..Len(s) -> Nat]
    /\ \A i \in 1..Len(s) : \E d \in Nat : d = e[i - 1] + 1 /\ Kept(f, s[i], d, e[i], H[i])
Union(H, i) == UNION {H[j] : j \in 1..i}

(* It is made of those of all pieces.                                          *)
LEMMA PiecesFlatten ==
    ASSUME NEW f, NEW s \in Seq(Seq(Ink)), NEW e, NEW H, PiecesKept(f, s, e, H),
           NEW a \in Nat, a = e[0] + 1
    PROVE  Kept(f, FlattenSeq(s), a, e[Len(s)], Union(H, Len(s)))
<1> DEFINE n == Len(s)
<1>1. PICK acc : Flat(acc, s, Ink)
  BY Flattens
<1>2. n \in Nat /\ e \in [0..n -> Nat]
  BY DEF PiecesKept
<1>3. acc[0] = <<>> /\ FlattenSeq(s) = acc[n] /\ \A i \in 1..n : acc[i] = acc[i - 1] \o s[i]
  BY <1>1 DEF Flat
<1>4. \A i \in 1..n : \E d \in Nat : d = e[i - 1] + 1 /\ Kept(f, s[i], d, e[i], H[i])
  BY DEF PiecesKept
<1> DEFINE S == {i \in 0..n : Kept(f, acc[i], a, e[i], Union(H, i))}
<1> HIDE DEF n
<1>5. 0 \in S
  <2>1. e[0] \in Nat /\ 0 \in 0..n /\ acc[0] \in LayoutPieces
    BY <1>2, <1>3 DEF LayoutPieces
  <2>2. Kept(f, acc[0], a, e[0], {})
    BY <2>1, LayoutKept
  <2>3. Union(H, 0) = {}
    BY DEF Union
  <2> QED BY <2>1, <2>2, <2>3
<1>6. ASSUME NEW i \in 0..(n - 1), i \in S PROVE i + 1 \in S
  <2> DEFINE q == i + 1
  <2>1. q \in 1..n /\ q \in 0..n /\ i \in 0..n /\ q - 1 = i /\ 1..q = 1..i \cup {q}
    BY <1>2
  <2>2. acc[q] = acc[i] \o s[q] /\ e[q] \in Nat /\ e[i] \in Nat
    <3> HIDE DEF q
    <3> QED BY <1>2, <1>3, <2>1
  <2>3. PICK d \in Nat : d = e[i] + 1 /\ Kept(f, s[q], d, e[q], H[q])
    <3> HIDE DEF q
    <3> QED BY <1>4, <2>1
  <2>4. Union(H, q) = Union(H, i) \cup H[q]
    <3> HIDE DEF q
    <3> QED BY <2>1 DEF Union
  <2>5. Kept(f, acc[i], a, e[i], Union(H, i))
    BY <1>6
  <2> HIDE DEF q, S
  <2>6. Kept(f, acc[i] \o s[q], a, e[q], Union(H, i) \cup H[q])
    BY <2>2, <2>3, <2>5, KeptJoin
  <2> QED BY <2>1, <2>2, <2>4, <2>6 DEF S, q
<1> HIDE DEF S
<1>7. n \in S
  <2>1. \A i \in 0..n : i \in S
    BY <1>2, <1>5, <1>6, UpTo
  <2> QED BY <1>2, <2>1
<1> QED BY <1>3, <1>7 DEF S, n

(* The parts written for the children of a node.                               *)
PartsKept(f, n, parts) ==
    /\ DOMAIN parts = DOMAIN Node[n].kids
    /\ \A i \in DOMAIN Node[n].kids :
          Kept(f, parts[i], Node[Node[n].kids[i]].first, Node[Node[n].kids[i]].last, Sub(Node[n].kids[i]))

(* One token by itself.                                                        *)
LEMMA TokenKept ==
    ASSUME NEW f, NEW a \in 1..Len(Source)
    PROVE  Kept(f, <<Source[a]>>, a, a, {}) /\ Source[a] \in STRING /\ a \in Nat
<1>1. Source \in Seq(STRING)
  BY SyntaxAssumption
<1> DEFINE r == <<Source[a]>>
<1>2. /\ a \in Nat /\ 1 <= a /\ a <= Len(Source) /\ r \in Seq(STRING) /\ Len(r) = a - a + 1
      /\ \A p \in 1..Len(r) : r[p] = Source[a - 1 + p]
  <2>1. Source[a] \in STRING /\ Len(Source) \in Nat
    BY <1>1
  <2>2. \A p \in 1..1 : p = 1 /\ a - 1 + p = a
    OBVIOUS
  <2> QED BY <2>1, <2>2
<1> HIDE DEF r
<1>3. Kept(f, r, a, a, {})
  BY <1>2, TextKept
<1>4. Source[a] \in STRING
  BY <1>1
<1> QED BY <1>2, <1>3, <1>4 DEF r

(* Join keeps what its parts keep, and the tokens between them.                *)
LEMMA JoinKept ==
    ASSUME NEW f, NEW n \in DOMAIN Node, NEW sep, NEW a \in Nat, NEW b \in Nat, 1 <= a,
           Tiled(Node[n].kids, <<sep>>, a, b), NEW parts, PartsKept(f, n, parts)
    PROVE  Kept(f, Join(parts, <<sep>>), a, b, Below(n))
<1> DEFINE kids == Node[n].kids
           z == Len(kids)
           s == [i \in DOMAIN parts |-> IF i = 1 THEN parts[i] ELSE <<sep>> \o parts[i]]
           first(i) == Node[kids[i]].first
           last(i) == Node[kids[i]].last
           e == [i \in 0..z |-> IF i = 0 THEN a - 1 ELSE last(i)]
           H == [i \in DOMAIN kids |-> Sub(kids[i])]
<1>1. kids \in Seq(Nat) /\ z \in Nat /\ DOMAIN kids = 1..z
  BY NodesPlaced DEF NodeFacts
<1>2. \A i \in 1..z : Kept(f, parts[i], first(i), last(i), Sub(kids[i])) /\ parts[i] \in Seq(Ink)
  BY <1>1 DEF PartsKept, Kept
<1>3. \A i \in 1..z : /\ first(i) \in Nat /\ last(i) \in Nat /\ last(i) \in 1..Len(Source)
                      /\ 1 <= first(i) /\ first(i) <= last(i)
  <2>1. \A i \in 1..z : kids[i] \in DOMAIN Node /\ Placed(kids[i])
    BY <1>1, NodesPlaced DEF NodeFacts
  <2> HIDE DEF kids
  <2>2. Len(Source) \in Nat
    BY SyntaxAssumption
  <2>3. \A i \in 1..z : first(i) \in Nat /\ last(i) \in Nat
    BY <2>1, NodesPlaced DEF NodeFacts
  <2> QED BY <2>1, <2>2, <2>3 DEF Placed
<1>4. /\ z = 0 => a = b + 1
      /\ z # 0 => first(1) = a /\ last(z) = b
      /\ \A i \in 1..(z - 1) : first(i + 1) = last(i) + 2 /\ Source[last(i) + 1] = sep
  <2>1. Len(<<sep>>) = 1 /\ 1 \in DOMAIN <<sep>> /\ <<sep>>[1] = sep
    OBVIOUS
  <2>2. z = 0 <=> kids = <<>>
    BY <1>1
  <2>3. /\ kids = <<>> => a = b + 1
        /\ kids # <<>> => first(1) = a /\ last(z) = b
        /\ \A i \in 1..(z - 1) :
              /\ first(i + 1) = last(i) + Len(<<sep>>) + 1
              /\ \A j \in DOMAIN <<sep>> : Source[last(i) + j] = <<sep>>[j]
    BY DEF Tiled
  <2>4. \A i \in 1..(z - 1) : last(i) \in Nat
    BY <1>1, <1>3
  <2> HIDE DEF kids, z
  <2>5. ASSUME NEW i \in 1..(z - 1) PROVE first(i + 1) = last(i) + 2 /\ Source[last(i) + 1] = sep
    <3>1. first(i + 1) = last(i) + Len(<<sep>>) + 1 /\ Source[last(i) + 1] = sep
      BY <2>1, <2>3
    <3> QED BY <2>1, <2>4, <3>1
  <2> QED BY <2>2, <2>3, <2>5
<1> HIDE DEF kids, z
<1>5. DOMAIN parts = 1..z
  BY <1>1 DEF PartsKept, kids
<1>6. ASSUME NEW i \in 1..z
      PROVE  \E d \in Nat : d = e[i - 1] + 1 /\ Kept(f, s[i], d, last(i), Sub(kids[i]))
  <2>1. CASE i = 1
    <3>1. s[i] = parts[i] /\ e[i - 1] = a - 1 /\ first(i) = a /\ z # 0
      BY <1>1, <1>4, <1>5, <2>1
    <3>2. Kept(f, s[i], a, last(i), Sub(kids[i])) /\ a = e[i - 1] + 1
      BY <1>2, <3>1
    <3> QED BY <3>2
  <2>2. CASE i # 1
    <3> DEFINE u == last(i - 1)
               v == u + 1
    <3>1. i - 1 \in 1..(z - 1) /\ i - 1 \in 1..z /\ i - 1 \in 0..z /\ i - 1 # 0 /\ (i - 1) + 1 = i
      BY <1>1, <2>2
    <3>2. u \in Nat /\ e[i - 1] = u /\ s[i] = <<sep>> \o parts[i]
      BY <1>3, <1>5, <2>2, <3>1
    <3>3. first(i) = u + 2 /\ Source[v] = sep
      BY <1>4, <3>1
    <3> HIDE DEF e, s, u
    <3>4. v \in Nat /\ v \in 1..Len(Source) /\ first(i) = v + 1
      <4>1. first(i) \in Nat /\ last(i) \in Nat /\ last(i) \in 1..Len(Source) /\ first(i) <= last(i)
        BY <1>3
      <4> DEFINE w == first(i)
                 x == last(i)
      <4>2. w \in Nat /\ x \in 1..Len(Source) /\ w <= x /\ w = u + 2
        BY <3>3, <4>1
      <4> HIDE DEF w, x
      <4>3. Len(Source) \in Nat
        BY SyntaxAssumption
      <4>4. v \in Nat /\ v \in 1..Len(Source) /\ w = v + 1
        BY <3>2, <4>2, <4>3
      <4> QED BY <4>4 DEF w
    <3> HIDE DEF v
    <3>5. Kept(f, <<sep>>, v, v, {})
      <4>1. Kept(f, <<Source[v]>>, v, v, {})
        BY <3>4, TokenKept
      <4> QED BY <3>3, <4>1
    <3> DEFINE w == first(i)
               x == last(i)
    <3>6. w \in Nat /\ x \in Nat /\ w = v + 1 /\ Kept(f, parts[i], w, x, Sub(kids[i]))
      BY <1>2, <1>3, <3>4
    <3> HIDE DEF w, x
    <3>7. Kept(f, <<sep>> \o parts[i], v, x, {} \cup Sub(kids[i]))
      BY <3>4, <3>5, <3>6, KeptJoin
    <3>8. {} \cup Sub(kids[i]) = Sub(kids[i])
      OBVIOUS
    <3>9. Kept(f, s[i], v, x, Sub(kids[i])) /\ v = e[i - 1] + 1
      BY <3>2, <3>7, <3>8 DEF v
    <3> QED BY <3>4, <3>9 DEF x
  <2> QED BY <2>1, <2>2
<1>7. s \in Seq(Seq(Ink)) /\ Len(s) = z
  <2> DEFINE P == Seq(Ink)
  <2>1. \A i \in 1..z : s[i] \in P
    <3>1. \A i \in 1..z : \E d \in Nat : Kept(f, s[i], d, last(i), Sub(kids[i]))
      BY <1>6
    <3> HIDE DEF s
    <3> QED BY <3>1 DEF Kept
  <2>2. s = [i \in 1..z |-> s[i]]
    BY <1>5
  <2> HIDE DEF s, P
  <2>3. s \in [1..z -> P]
    BY <2>1, <2>2
  <2>4. s \in Seq(P) /\ Len(s) = z
    BY <1>1, <2>3
  <2> QED BY <2>4 DEF P
<1>8. PiecesKept(f, s, e, H)
  <2>1. e \in [0..z -> Nat]
    <3>1. \A i \in 0..z : i # 0 => last(i) \in Nat
      BY <1>1, <1>3
    <3> QED BY <3>1
  <2>2. \A i \in 1..z : e[i] = last(i) /\ H[i] = Sub(kids[i])
    BY <1>1
  <2> HIDE DEF s, e, H
  <2> QED BY <1>6, <1>7, <2>1, <2>2 DEF PiecesKept
<1>9. e[0] = a - 1 /\ e[z] = b
  <2>1. 0 \in 0..z /\ z \in 0..z
    BY <1>1
  <2> QED BY <1>4, <2>1
<1>10. Union(H, z) = Below(n)
  BY <1>1 DEF Union, Below, kids
<1>11. Join(parts, <<sep>>) = FlattenSeq(s)
  BY DEF Join
<1> HIDE DEF s, e, H
<1>12. Kept(f, FlattenSeq(s), a, e[z], Union(H, z))
  <2>1. a = e[0] + 1
    BY <1>9
  <2> QED BY <1>7, <1>8, <2>1, PiecesFlatten
<1> QED BY <1>9, <1>10, <1>11, <1>12

-------------------------------------------------------------------------------
(* Numbers that are there with all before them are those up to one of them.    *)
LEMMA InitialSegment ==
    ASSUME NEW z \in Nat, NEW D \in SUBSET (1..z), \A i \in D : \A j \in 1..z : j < i => j \in D
    PROVE  \E m \in 0..z : \A j \in 1..z : j <= m <=> j \in D
<1>1. CASE D = 1..z
  BY <1>1
<1>2. CASE D # 1..z
  <2> DEFINE S == (1..z) \ D
  <2>1. PICK l \in S : \A m \in S : l <= m
    <3>1. S \in SUBSET Nat
      OBVIOUS
    <3>2. PICK x : x \in S
      BY <1>2
    <3> HIDE DEF S
    <3> QED BY <3>1, <3>2, LeastOf
  <2>2. l \in 1..z /\ l \notin D /\ l - 1 \in 0..z
    BY <2>1
  <2>3. ASSUME NEW j \in 1..z PROVE j <= l - 1 <=> j \in D
    <3>1. j <= l - 1 => j \in D
      BY <2>1, <2>2
    <3>2. j \in D => ~(l < j) /\ l # j
      BY <2>2
    <3> QED BY <2>2, <3>1, <3>2
  <2> QED BY <2>2, <2>3
<1> QED BY <1>1, <1>2

(* What is written for the children of a node, comments included: s.           *)
ChildrenKept(f, n, s) ==
    LET C == NamedChildren(f, n)
    IN  /\ s = [i \in 1..Len(C) |-> s[i]]
        /\ \A i \in 1..Len(C) :
              /\ C[i].kind = "comment" => s[i] \in LayoutPieces
              /\ \A j \in DOMAIN Node[n].kids : C[i] = Kid(f, Node[n].kids[j]) =>
                    Kept(f, s[i], Node[Node[n].kids[j]].first, Node[Node[n].kids[j]].last, Sub(Node[n].kids[j]))

(* The children of n written by the i-th of them.                              *)
Written(f, n, i) ==
    {j \in DOMAIN Node[n].kids : \E x \in 1..i : NamedChildren(f, n)[x] = Kid(f, Node[n].kids[j])}

(* They are all those before one of them.                                      *)
LEMMA WrittenInOrder ==
    ASSUME NEW f, NEW n \in DOMAIN Node, ChildrenListed(f, n), NEW i \in 0..Len(NamedChildren(f, n))
    PROVE  \E m \in 0..Len(Node[n].kids) : \A j \in 1..Len(Node[n].kids) : j <= m <=> j \in Written(f, n, i)
<1> DEFINE kids == Node[n].kids
           z == Len(kids)
           C == NamedChildren(f, n)
           D == Written(f, n, i)
<1>1. z \in Nat /\ DOMAIN kids = 1..z
  <2>1. kids \in Seq(Nat)
    BY NodesPlaced DEF NodeFacts
  <2> HIDE DEF kids
  <2> QED BY <2>1
<1>2. Ordered(C, Children(f, n), Len(f)) /\ \A c \in Children(f, n) : ChildFits(f, n, c)
  BY DEF ChildrenListed
<1>3. Len(C) \in Nat
  BY <1>2 DEF Ordered
<1>4. D \in SUBSET (1..z)
  BY <1>1 DEF Written
<1>5. ASSUME NEW j \in 1..z PROVE Kid(f, kids[j]) \in Children(f, n) /\ Kid(f, kids[j]).from \in Nat
  <2>1. kids[j] \in ToSet(kids)
    BY <1>1 DEF ToSet
  <2>2. Kid(f, kids[j]) \in Children(f, n)
    BY <2>1 DEF Children, Kids
  <2> QED BY <1>2, <2>2 DEF ChildFits
<1> HIDE DEF kids, z, C
<1>6. ASSUME NEW k \in D, NEW j \in 1..z, j < k PROVE j \in D
  <2>1. PICK x \in 1..i : C[x] = Kid(f, kids[k])
    BY <1>4 DEF Written, kids, C
  <2>2. PICK y \in 1..Len(C) : C[y] = Kid(f, kids[j])
    <3>1. Kid(f, kids[j]) \in Children(f, n) /\ Kid(f, kids[j]).from <= Len(f)
      <4>1. Kid(f, kids[j]) \in Children(f, n)
        BY <1>5
      <4>2. ChildFits(f, n, Kid(f, kids[j]))
        BY <1>2, <4>1
      <4> QED BY <4>1, <4>2 DEF ChildFits
    <3> QED BY <1>2, <3>1 DEF Ordered
  <2>3. C[y].from < C[x].from
    <3>1. Place(f)[Node[kids[j]].first] < Place(f)[Node[kids[k]].first]
      <4>1. j \in DOMAIN kids /\ k \in DOMAIN kids
        BY <1>1, <1>4
      <4> QED BY <1>6, <4>1 DEF ChildrenListed, kids
    <3> QED BY <2>1, <2>2, <3>1 DEF Kid
  <2>4. y <= x
    <3>1. x \in 1..Len(C) /\ k \in 1..z
      BY <1>3, <1>4, <2>1 DEF C
    <3>2. x < y => C[x].from < C[y].from
      BY <1>2, <3>1 DEF Ordered
    <3>3. C[x].from \in Nat /\ C[y].from \in Nat
      BY <1>5, <2>1, <2>2, <3>1
    <3> QED BY <1>3, <2>3, <3>1, <3>2, <3>3
  <2>5. y \in 1..i
    BY <2>4, <2>1
  <2> QED BY <1>1, <2>2, <2>5 DEF Written, kids, C
<1> HIDE DEF D
<1>7. \E m \in 0..z : \A j \in 1..z : j <= m <=> j \in D
  BY <1>1, <1>4, <1>6, InitialSegment
<1> QED BY <1>7 DEF D, z, kids

(* Children written one after the other keep what they keep.                   *)
LEMMA ChildrenFlatten ==
    ASSUME NEW f, NEW n \in DOMAIN Node, ChildrenListed(f, n), NEW a \in Nat, NEW b \in Nat, 1 <= a,
           Tiled(Node[n].kids, <<>>, a, b), \A j \in DOMAIN Node[n].kids : Node[Node[n].kids[j]].kind # "comment",
           NEW s, ChildrenKept(f, n, s)
    PROVE  Kept(f, FlattenSeq(s), a, b, Below(n))
<1> DEFINE kids == Node[n].kids
           z == Len(kids)
           C == NamedChildren(f, n)
           y == Len(C)
           first(i) == Node[kids[i]].first
           last(i) == Node[kids[i]].last
           D(i) == Written(f, n, i)
           Up(m, i) == \A j \in 1..z : j <= m <=> j \in D(i)
           w == [i \in 0..y |-> CHOOSE m \in 0..z : Up(m, i)]
           e == [i \in 0..y |-> IF w[i] = 0 THEN a - 1 ELSE last(w[i])]
           H == [i \in 1..y |-> IF C[i].kind = "comment" THEN {} ELSE Sub(C[i].node)]
<1>1. z \in Nat /\ DOMAIN kids = 1..z
  <2>1. kids \in Seq(Nat)
    BY NodesPlaced DEF NodeFacts
  <2> HIDE DEF kids
  <2> QED BY <2>1
<1>2. /\ Ordered(C, Children(f, n), Len(f)) /\ \A c \in Children(f, n) : ChildFits(f, n, c)
      /\ y \in Nat
  <2>1. Ordered(C, Children(f, n), Len(f)) /\ \A c \in Children(f, n) : ChildFits(f, n, c)
    BY DEF ChildrenListed
  <2> QED BY <2>1 DEF Ordered
<1>3. \A i \in 1..z : first(i) \in Nat /\ last(i) \in Nat
  <2>1. \A i \in 1..z : kids[i] \in DOMAIN Node
    BY <1>1, NodesPlaced DEF NodeFacts
  <2> HIDE DEF kids
  <2> QED BY <2>1, NodesPlaced DEF NodeFacts
<1>4. /\ z = 0 => a = b + 1
      /\ z # 0 => first(1) = a /\ last(z) = b
      /\ \A i \in 1..(z - 1) : first(i + 1) = last(i) + 1
  <2>1. kids = <<>> <=> z = 0
    <3>1. kids \in Seq(Nat)
      BY NodesPlaced DEF NodeFacts
    <3> HIDE DEF kids
    <3> QED BY <3>1
  <2>2. /\ kids = <<>> => a = b + 1
        /\ kids # <<>> => first(1) = a /\ last(z) = b
        /\ \A i \in 1..(z - 1) : first(i + 1) = last(i) + Len(<<>>) + 1
    BY DEF Tiled
  <2>3. \A i \in 1..(z - 1) : i \in 1..z
    BY <1>1
  <2> HIDE DEF kids, z
  <2> QED BY <1>3, <2>1, <2>2, <2>3
<1>5. ASSUME NEW i \in 1..y PROVE C[i] \in Children(f, n) /\ ChildFits(f, n, C[i]) /\ C[i].from \in Nat
  <2>1. C[i] \in Children(f, n)
    BY <1>2 DEF Ordered
  <2> QED BY <1>2, <2>1 DEF ChildFits
<1>6. \A i \in 0..y : w[i] \in 0..z /\ Up(w[i], i)
  <2>1. ASSUME NEW i \in 0..y PROVE w[i] \in 0..z /\ Up(w[i], i)
    <3>1. \E m \in 0..z : Up(m, i)
      BY WrittenInOrder
    <3> HIDE DEF z, y, C, Up
    <3> QED BY <3>1
  <2> QED BY <2>1
<1> HIDE DEF w
<1>7. ASSUME NEW i \in 1..y, NEW x \in 1..y, C[i] = C[x] PROVE i = x
  <2>1. ~(i < x) /\ ~(x < i)
    <3>1. (i < x => C[i].from < C[x].from) /\ (x < i => C[x].from < C[i].from)
      BY <1>2 DEF Ordered
    <3> QED BY <1>5, <1>7, <3>1
  <2> QED BY <1>2, <2>1
<1>8. \A i \in 1..y : i - 1 \in 0..y /\ i \in 0..y /\ 1..i = 1..(i - 1) \cup {i}
  BY <1>2
<1>9. ASSUME NEW i \in 1..y, NEW j \in 1..z, C[i] = Kid(f, kids[j]) PROVE w[i] = j /\ w[i - 1] = j - 1
  <2>1. j \in D(i) /\ j \notin D(i - 1)
    <3>1. j \in D(i)
      BY <1>1, <1>8, <1>9 DEF Written
    <3>2. ASSUME NEW x \in 1..(i - 1), C[x] = Kid(f, kids[j]) PROVE FALSE
      <4>1. x \in 1..y /\ x # i
        BY <1>2
      <4> QED BY <1>7, <1>9, <3>2, <4>1
    <3> QED BY <3>1, <3>2 DEF Written
  <2>2. ASSUME NEW l \in D(i), l # j PROVE l \in D(i - 1)
    <3>1. l \in 1..z /\ l \in DOMAIN kids
      BY <1>1, <2>2 DEF Written
    <3>2. PICK x \in 1..i : C[x] = Kid(f, kids[l])
      BY <2>2 DEF Written
    <3>3. x # i
      <4>1. kids[l] # kids[j]
        <5>1. /\ l < j => Place(f)[first(l)] < Place(f)[first(j)]
              /\ j < l => Place(f)[first(j)] < Place(f)[first(l)]
          BY <1>1, <3>1 DEF ChildrenListed
        <5>2. l < j \/ j < l
          BY <1>1, <2>2, <3>1
        <5>3. Place(f)[first(j)] \in Nat
          BY <1>5, <1>9 DEF Kid
        <5> QED BY <5>1, <5>2, <5>3
      <4> QED BY <1>9, <3>2, <4>1 DEF Kid
    <3>4. x \in 1..(i - 1)
      BY <1>8, <3>2, <3>3
    <3> QED BY <1>1, <3>1, <3>2, <3>4 DEF Written
  <2>3. Up(w[i], i) /\ Up(w[i - 1], i - 1) /\ w[i] \in 0..z /\ w[i - 1] \in 0..z
    BY <1>6, <1>8
  <2> DEFINE u == w[i]
             v == w[i - 1]
             E == D(i)
             F == D(i - 1)
  <2>4. /\ u \in 0..z /\ v \in 0..z /\ j \in 1..z /\ j \in E /\ j \notin F /\ \A l \in E : l # j => l \in F
        /\ \A l \in 1..z : l <= u <=> l \in E
        /\ \A l \in 1..z : l <= v <=> l \in F
    BY <2>1, <2>2, <2>3
  <2> HIDE DEF u, v, E, F, D
  <2>5. j <= u /\ ~(j <= v)
    BY <2>4
  <2>6. u = j
    <3>1. ASSUME u # j PROVE FALSE
      <4>1. u \in 1..z /\ u \in E
        BY <1>1, <2>4, <2>5
      <4>2. u \in F
        BY <2>4, <3>1, <4>1
      <4>3. u <= v
        BY <2>4, <4>1, <4>2
      <4> QED BY <1>1, <2>4, <2>5, <4>3
    <3> QED BY <3>1
  <2>7. v = j - 1
    <3>1. CASE j = 1
      BY <1>1, <2>4, <2>5, <3>1
    <3>2. CASE j # 1
      <4> DEFINE l == j - 1
      <4>1. l \in 1..z /\ l <= u /\ l # j
        BY <1>1, <2>4, <2>5, <3>2
      <4> HIDE DEF l
      <4>2. l \in F
        BY <2>4, <4>1
      <4>3. l <= v
        BY <2>4, <4>1, <4>2
      <4> QED BY <1>1, <2>4, <2>5, <4>1, <4>3 DEF l
    <3> QED BY <3>1, <3>2
  <2> QED BY <2>6, <2>7 DEF u, v
<1>10. ASSUME NEW i \in 1..y, C[i] \notin Kids(f, n) PROVE w[i] = w[i - 1]
  <2>1. D(i) = D(i - 1)
    <3>1. \A j \in 1..z : C[i] # Kid(f, kids[j])
      <4>1. \A j \in 1..z : kids[j] \in ToSet(kids)
        BY <1>1 DEF ToSet
      <4> QED BY <1>10, <4>1 DEF Kids
    <3> QED BY <1>1, <1>8, <3>1 DEF Written
  <2> DEFINE u == w[i]
             v == w[i - 1]
  <2>2. u \in 0..z /\ v \in 0..z /\ \A l \in 1..z : l <= u <=> l <= v
    BY <1>6, <1>8, <2>1
  <2> HIDE DEF u, v
  <2>3. u = v
    BY <1>1, <2>2
  <2> QED BY <2>3 DEF u, v
<1>11. w[0] = 0
  <2>1. D(0) = {} /\ 0 \in 0..y
    BY <1>2 DEF Written
  <2>2. w[0] \in 0..z /\ \A l \in 1..z : ~(l <= w[0])
    BY <1>6, <2>1
  <2> DEFINE u == w[0]
  <2>3. u \in 0..z /\ \A l \in 1..z : ~(l <= u)
    BY <2>2
  <2> HIDE DEF u
  <2>4. u = 0
    BY <1>1, <2>3
  <2> QED BY <2>4 DEF u
<1>12. w[y] = z
  <2>1. ASSUME NEW j \in 1..z PROVE j \in D(y)
    <3>1. Kid(f, kids[j]) \in Children(f, n)
      <4>1. kids[j] \in ToSet(kids)
        BY <1>1 DEF ToSet
      <4> QED BY <4>1 DEF Children, Kids
    <3>2. Kid(f, kids[j]).from <= Len(f)
      <4>1. ChildFits(f, n, Kid(f, kids[j]))
        BY <1>2, <3>1
      <4> QED BY <4>1 DEF ChildFits
    <3>3. \E x \in 1..y : C[x] = Kid(f, kids[j])
      BY <1>2, <3>1, <3>2 DEF Ordered
    <3> QED BY <1>1, <3>3 DEF Written
  <2>2. y \in 0..y
    BY <1>2
  <2> DEFINE u == w[y]
  <2>3. u \in 0..z /\ \A l \in 1..z : l <= u
    BY <1>6, <2>1, <2>2
  <2> HIDE DEF u
  <2>4. u = z
    BY <1>1, <2>3
  <2> QED BY <2>4 DEF u
<1>13. ASSUME NEW i \in 1..y
       PROVE  \/ \E j \in 1..z : C[i] = Kid(f, kids[j]) /\ C[i].kind # "comment"
              \/ C[i] \notin Kids(f, n) /\ C[i].kind = "comment"
  <2>1. CASE C[i] \in Kids(f, n)
    <3>1. PICK j \in 1..z : C[i] = Kid(f, kids[j])
      BY <1>1, <2>1 DEF Kids, ToSet
    <3>2. C[i].kind = Node[kids[j]].kind
      BY <3>1 DEF Kid
    <3> QED BY <1>1, <3>1, <3>2
  <2>2. CASE C[i] \notin Kids(f, n)
    <3>1. C[i] \in {Note(p) : p \in Outside(f, n)}
      BY <1>5, <2>2 DEF Children
    <3> QED BY <2>2, <3>1 DEF Note
  <2> QED BY <2>1, <2>2
<1>14. \A i \in 0..y : e[i] = (IF w[i] = 0 THEN a - 1 ELSE last(w[i])) /\ e[i] \in Nat
  <2>1. \A i \in 0..y : w[i] # 0 => w[i] \in 1..z
    BY <1>1, <1>6
  <2> QED BY <1>3, <2>1
<1>15. s = [i \in 1..y |-> s[i]]
  BY DEF ChildrenKept
<1>16. \A i \in 1..y :
          /\ C[i].kind = "comment" => s[i] \in LayoutPieces
          /\ \A j \in 1..z : C[i] = Kid(f, kids[j]) => Kept(f, s[i], first(j), last(j), Sub(kids[j]))
  BY <1>1 DEF ChildrenKept
<1>17. \A i \in 1..y : H[i] = IF C[i].kind = "comment" THEN {} ELSE Sub(C[i].node)
  OBVIOUS
<1>18. e = [i \in 0..y |-> e[i]]
  OBVIOUS
<1> HIDE DEF kids, C, D, e, H, z, y
<1>19. ASSUME NEW i \in 1..y PROVE \E d \in Nat : d = e[i - 1] + 1 /\ Kept(f, s[i], d, e[i], H[i])
  <2>1. i \in 0..y /\ i - 1 \in 0..y
    BY <1>8
  <2>2. CASE \E j \in 1..z : C[i] = Kid(f, kids[j]) /\ C[i].kind # "comment"
    <3>1. PICK j \in 1..z : C[i] = Kid(f, kids[j]) /\ C[i].kind # "comment"
      BY <2>2
    <3>2. w[i] = j /\ w[i - 1] = j - 1
      BY <1>9, <3>1
    <3>3. e[i] = last(j) /\ H[i] = Sub(kids[j])
      BY <1>14, <1>17, <2>1, <3>1, <3>2 DEF Kid
    <3>4. first(j) = e[i - 1] + 1
      <4>1. CASE j = 1
        <5>1. e[i - 1] = a - 1 /\ first(j) = a
          BY <1>4, <1>14, <2>1, <3>2, <4>1
        <5> QED BY <5>1
      <4>2. CASE j # 1
        <5> DEFINE l == j - 1
        <5>1. l \in 1..(z - 1) /\ l # 0 /\ l + 1 = j
          BY <1>1, <4>2
        <5>2. w[i - 1] = l
          BY <3>2
        <5> HIDE DEF l
        <5>3. e[i - 1] = last(l)
          BY <1>14, <2>1, <5>1, <5>2
        <5> QED BY <1>4, <5>1, <5>3
      <4> QED BY <4>1, <4>2
    <3>5. Kept(f, s[i], first(j), last(j), Sub(kids[j])) /\ first(j) \in Nat
      BY <1>3, <1>16, <3>1
    <3> QED BY <3>3, <3>4, <3>5
  <2>3. CASE C[i] \notin Kids(f, n) /\ C[i].kind = "comment"
    <3>1. w[i] = w[i - 1]
      BY <1>10, <2>3
    <3>2. e[i] = e[i - 1] /\ e[i] \in Nat /\ H[i] = {} /\ s[i] \in LayoutPieces
      BY <1>14, <1>16, <1>17, <2>1, <2>3, <3>1
    <3> DEFINE u == e[i]
               d == u + 1
    <3>3. u \in Nat /\ d \in Nat /\ d = u + 1
      BY <3>2
    <3> HIDE DEF u, d
    <3>4. Kept(f, s[i], d, u, {})
      BY <3>2, <3>3, LayoutKept
    <3> QED BY <3>2, <3>3, <3>4 DEF u
  <2> QED BY <1>13, <2>2, <2>3
<1>20. s \in Seq(Seq(Ink)) /\ Len(s) = y
  <2> DEFINE P == Seq(Ink)
  <2>1. \A i \in 1..y : s[i] \in P
    BY <1>19 DEF Kept
  <2> HIDE DEF P
  <2>2. s \in [1..y -> P]
    BY <1>15, <2>1
  <2>3. s \in Seq(P) /\ Len(s) = y
    BY <1>2, <2>2
  <2> QED BY <2>3 DEF P
<1>21. PiecesKept(f, s, e, H)
  <2>1. e \in [0..y -> Nat]
    BY <1>14, <1>18
  <2> QED BY <1>19, <1>20, <2>1 DEF PiecesKept
<1>22. a = e[0] + 1 /\ e[y] = b
  <2>1. 0 \in 0..y /\ y \in 0..y
    BY <1>2
  <2>2. e[0] = a - 1
    BY <1>11, <1>14, <2>1
  <2>3. e[y] = IF z = 0 THEN a - 1 ELSE last(z)
    BY <1>12, <1>14, <2>1
  <2> QED BY <1>4, <2>2, <2>3
<1>23. Union(H, y) = Below(n)
  <2>1. ASSUME NEW i \in 1..y, NEW g \in H[i] PROVE g \in Below(n)
    <3>1. C[i].kind # "comment"
      BY <1>17, <2>1
    <3>2. PICK j \in 1..z : C[i] = Kid(f, kids[j])
      BY <1>13, <3>1
    <3>3. H[i] = Sub(kids[j])
      BY <1>17, <3>1, <3>2 DEF Kid
    <3> QED BY <1>1, <2>1, <3>3 DEF Below, kids
  <2>2. ASSUME NEW j \in 1..z, NEW g \in Sub(kids[j]) PROVE g \in Union(H, y)
    <3>1. j \in D(y)
      <4>1. y \in 0..y /\ Up(w[y], y)
        BY <1>2, <1>6
      <4> QED BY <1>1, <1>12, <4>1
    <3>2. PICK i \in 1..y : C[i] = Kid(f, kids[j])
      BY <3>1 DEF D, Written, C, kids
    <3>3. C[i].kind # "comment"
      <4>1. C[i].kind = Node[kids[j]].kind
        BY <3>2 DEF Kid
      <4> QED BY <1>1, <4>1 DEF kids
    <3>4. H[i] = Sub(kids[j])
      BY <1>17, <3>2, <3>3 DEF Kid
    <3> QED BY <2>2, <3>4 DEF Union
  <2> QED BY <1>1, <2>1, <2>2 DEF Union, Below, kids
<1>24. Kept(f, FlattenSeq(s), a, e[y], Union(H, y))
  BY <1>20, <1>21, <1>22, PiecesFlatten
<1> QED BY <1>22, <1>23, <1>24

-------------------------------------------------------------------------------
(* What a group opens with is what NamedChild(0) returns.                      *)
LEMMA GroupsOpen ==
    ASSUME NEW f \in Seq(Ink), Parses(f), NEW n \in DOMAIN Node, Node[n].kind = "grouping"
    PROVE  NamedChildren(f, n)[1].kind = "comment" <=> Opens(f, n)
<1> DEFINE k == Node[n].kids[1]
           C == NamedChildren(f, n)
           place == Place(f)
<1>1. GroupFits(n) /\ NodeFacts(n) /\ PlacesOK(f)
  BY NodesFit, NodesPlaced, PlacesInOrder DEF NodeFits
<1>2. /\ Node[n].kids \in Seq(Nat) /\ Len(Node[n].kids) = 1 /\ DOMAIN Node[n].kids = {1}
      /\ Node[n].first \in Nat /\ Node[n].last \in Nat
  <2> DEFINE kids == Node[n].kids
  <2>1. kids \in Seq(Nat) /\ Len(kids) = 1 /\ Node[n].first \in Nat /\ Node[n].last \in Nat
    BY <1>1 DEF GroupFits, NodeFacts
  <2> HIDE DEF kids
  <2>2. DOMAIN kids = {1}
    BY <2>1
  <2> QED BY <2>1, <2>2 DEF kids
<1>3. n # Root /\ Placed(n)
  BY <1>1, SyntaxAssumption DEF NodeFacts
<1>4. /\ k \in DOMAIN Node /\ Placed(k) /\ Node[k].first \in Nat /\ Node[k].last \in Nat
      /\ Node[k].kind \in RelationDef /\ Node[k].first = Node[n].first + 1 /\ Node[k].last = Node[n].last - 1
  <2>1. k \in DOMAIN Node /\ Placed(k) /\ Node[k].kind \in RelationDef
    BY <1>1, <1>2 DEF NodeFacts, GroupFits, ChildrenAre
  <2>2. Tiled(Node[n].kids, <<>>, Node[n].first + 1, Node[n].last - 1)
    BY <1>1 DEF GroupFits, ChildrenAre
  <2>3. Node[n].kids # <<>>
    <3> DEFINE kids == Node[n].kids
    <3>1. kids \in Seq(Nat) /\ DOMAIN kids = {1}
      BY <1>2
    <3> HIDE DEF kids
    <3>2. kids # <<>>
      BY <3>1
    <3> QED BY <3>2 DEF kids
  <2>4. Node[k].first = Node[n].first + 1 /\ Node[k].last = Node[n].last - 1
    BY <1>2, <2>2, <2>3 DEF Tiled
  <2> HIDE DEF k
  <2> QED BY <2>1, <2>4, NodesPlaced DEF NodeFacts
<1>5. ChildrenListed(f, n)
  <2>1. KidsInOrder(Node[n].kids)
    BY <1>2 DEF KidsInOrder
  <2> QED BY <2>1, NamedChildrenListed
<1> HIDE DEF C
<1>6. /\ Ordered(C, Children(f, n), Len(f)) /\ \A c \in Children(f, n) : ChildFits(f, n, c)
      /\ Len(f) \in Nat /\ Len(C) \in Nat
  <2>1. Ordered(C, Children(f, n), Len(f)) /\ \A c \in Children(f, n) : ChildFits(f, n, c)
    BY <1>5 DEF ChildrenListed, C
  <2> QED BY <1>1, <2>1 DEF PlacesOK, Ordered
<1>7. Kids(f, n) = {Kid(f, k)}
  <2>1. ToSet(Node[n].kids) = {k}
    BY <1>2 DEF ToSet
  <2> QED BY <2>1 DEF Kids
<1>8. Kid(f, k).kind # "comment" /\ Kid(f, k).from = place[Node[k].first] /\ Kid(f, k).to = place[Node[k].last]
  BY <1>4 DEF Kid, RelationDef, Operand
<1>9. /\ place[Node[n].first] \in Nat /\ place[Node[n].last] \in Nat
      /\ place[Node[k].first] \in Nat /\ place[Node[k].last] \in Nat
      /\ place[Node[k].first] < place[Node[n].last] /\ f[place[Node[k].first]] # Comment
  <2> DEFINE u == Node[n].first
             v == Node[n].last
             w == Node[k].first
             x == Node[k].last
  <2>1. u \in 1..Len(Source) /\ v \in 1..Len(Source) /\ w \in 1..Len(Source) /\ x \in 1..Len(Source) /\ w < v
    BY <1>1, <1>2, <1>3, <1>4 DEF Placed, PlacesOK
  <2> HIDE DEF u, v, w, x
  <2>2. /\ place[u] \in Nat /\ place[v] \in Nat /\ place[w] \in Nat /\ place[x] \in Nat
        /\ place[w] < place[v] /\ f[place[w]] # Comment
    BY <1>1, <2>1 DEF PlacesOK
  <2> QED BY <2>2 DEF u, v, w, x
<1>10. Span(f, n) = place[Node[n].first]..place[Node[n].last]
  BY <1>3 DEF Span
<1>11. ASSUME NEW c \in Children(f, n)
       PROVE  \E i \in 1..Len(C) : C[i] = c /\ (i # 1 => C[1].from < c.from /\ C[1] \in Children(f, n)) /\ 1 \in 1..Len(C)
  <2>1. c.from <= Len(f)
    BY <1>6 DEF ChildFits
  <2>2. PICK i \in 1..Len(C) : C[i] = c
    BY <1>6, <2>1 DEF Ordered
  <2>3. 1 \in 1..Len(C) /\ (i # 1 => 1 < i)
    BY <1>6, <2>2
  <2>4. i # 1 => C[1].from < c.from
    BY <1>6, <2>2, <2>3 DEF Ordered
  <2>5. C[1] \in Children(f, n)
    BY <1>6, <2>3 DEF Ordered
  <2> QED BY <2>2, <2>3, <2>4, <2>5
<1>12. ASSUME Opens(f, n) PROVE C[1].kind = "comment"
  <2>1. PICK p \in place[Node[n].first]..place[Node[k].first] : f[p] = Comment
    BY <1>12 DEF Opens
  <2>2. p < place[Node[k].first] /\ p \in Span(f, n) /\ p \in Nat
    <3>1. p # place[Node[k].first]
      BY <1>9, <2>1
    <3> DEFINE u == place[Node[n].first]
               v == place[Node[n].last]
               w == place[Node[k].first]
    <3>2. u \in Nat /\ v \in Nat /\ w \in Nat /\ w < v /\ p \in u..w /\ p # w
      BY <1>9, <2>1, <3>1
    <3> HIDE DEF u, v, w
    <3>3. p < w /\ p \in u..v /\ p \in Nat
      BY <3>2
    <3> QED BY <1>10, <3>3 DEF u, v, w
  <2>3. p \in Outside(f, n)
    BY <1>7, <1>8, <2>1, <2>2 DEF Outside
  <2>4. Note(p) \in Children(f, n) /\ Note(p).from = p /\ Note(p).kind = "comment"
    BY <2>3 DEF Children, Note
  <2>5. PICK i \in 1..Len(C) : C[i] = Note(p) /\ (i # 1 => C[1].from < p /\ C[1] \in Children(f, n)) /\ 1 \in 1..Len(C)
    BY <1>11, <2>4
  <2>6. CASE i = 1
    BY <2>4, <2>5, <2>6
  <2>7. CASE i # 1
    <3>1. C[1].from < p /\ C[1] \in Children(f, n) /\ C[1].from \in Nat
      BY <1>6, <2>5, <2>7 DEF ChildFits
    <3>2. C[1] # Kid(f, k)
      BY <1>8, <1>9, <2>2, <3>1
    <3>3. C[1] \in {Note(q) : q \in Outside(f, n)}
      BY <1>7, <3>1, <3>2 DEF Children
    <3> QED BY <3>3 DEF Note
  <2> QED BY <2>6, <2>7
<1>13. ASSUME C[1].kind = "comment" PROVE Opens(f, n)
  <2>1. Kid(f, k) \in Children(f, n)
    BY <1>7 DEF Children
  <2>2. PICK i \in 1..Len(C) :
          C[i] = Kid(f, k) /\ (i # 1 => C[1].from < Kid(f, k).from /\ C[1] \in Children(f, n)) /\ 1 \in 1..Len(C)
    BY <1>11, <2>1
  <2>3. i # 1
    BY <1>8, <1>13, <2>2
  <2>4. C[1].from < place[Node[k].first] /\ C[1] \in Children(f, n)
    BY <1>8, <2>2, <2>3
  <2>5. ChildFits(f, n, C[1]) /\ C[1] # Kid(f, k)
    BY <1>6, <1>8, <1>13, <2>4
  <2>6. f[C[1].from] = Comment /\ C[1].from \in Outside(f, n)
    <3>1. \A j \in DOMAIN Node[n].kids : C[1] # Kid(f, Node[n].kids[j])
      BY <1>2, <2>5
    <3> QED BY <2>5, <3>1 DEF ChildFits
  <2>7. C[1].from \in place[Node[n].first]..place[Node[n].last]
    BY <1>10, <2>6 DEF Outside
  <2>8. C[1].from \in place[Node[n].first]..place[Node[k].first]
    <3> DEFINE u == place[Node[n].first]
               v == place[Node[n].last]
               w == place[Node[k].first]
               x == C[1].from
    <3>1. u \in Nat /\ v \in Nat /\ w \in Nat /\ x \in u..v /\ x < w
      BY <1>9, <2>4, <2>7
    <3> HIDE DEF u, v, w, x
    <3>2. x \in u..w
      BY <3>1
    <3> QED BY <3>2 DEF u, w, x
  <2> QED BY <2>6, <2>8 DEF Opens
<1> QED BY <1>12, <1>13 DEF C

-------------------------------------------------------------------------------
(* The first child of a kind, where there is one at most.                      *)
LEMMA NamedChildIs ==
    ASSUME NEW n \in DOMAIN Node, NEW kind
    PROVE  /\ (\A i \in DOMAIN Node[n].kids : KindsOf(n)[i] # kind) => NamedChild(n, kind) = NoNode
           /\ \A i \in DOMAIN Node[n].kids :
                 (\A j \in DOMAIN Node[n].kids : KindsOf(n)[j] = kind <=> j = i) => NamedChild(n, kind) = Node[n].kids[i]
<1> DEFINE kids == Node[n].kids
           found == {i \in DOMAIN kids : Node[kids[i]].kind = kind}
<1>1. kids \in Seq(Nat)
  BY NodesPlaced DEF NodeFacts
<1>2. \A i \in DOMAIN kids : KindsOf(n)[i] = Node[kids[i]].kind /\ i \in Nat
  <2>1. \A i \in DOMAIN kids : i \in Nat
    <3> HIDE DEF kids
    <3> QED BY <1>1
  <2> QED BY <2>1 DEF KindsOf
<1>3. NamedChild(n, kind) = IF found = {} THEN NoNode ELSE kids[Least(found)]
  BY DEF NamedChild
<1> HIDE DEF kids
<1>4. ASSUME \A i \in DOMAIN kids : KindsOf(n)[i] # kind PROVE NamedChild(n, kind) = NoNode
  BY <1>2, <1>3, <1>4
<1>5. ASSUME NEW i \in DOMAIN kids, \A j \in DOMAIN kids : KindsOf(n)[j] = kind <=> j = i
      PROVE  NamedChild(n, kind) = kids[i]
  <2>1. found = {i} /\ i \in Nat
    BY <1>2, <1>5
  <2>2. Least({i}) = i
    BY <2>1 DEF Least
  <2> QED BY <1>3, <2>1, <2>2
<1> QED BY <1>4, <1>5 DEF kids

(* The suffix of a kind stands between u and v, or there is none.              *)
SuffixAt(n, kind, u, v) ==
    LET k == NamedChild(n, kind)
    IN  IF k = NoNode THEN v = u
        ELSE k \in DOMAIN Node /\ Node[k].kind = kind /\ Node[k].first = u + 1 /\ Node[k].last = v
SuffixesAt(n, u, v) ==
    /\ SuffixAt(n, "wildcard", Node[n].first, u)
    /\ SuffixAt(n, "relation_suffix", u, v)
    /\ SuffixAt(n, "condition_suffix", v, Node[n].last)
SuffixKinds == {"wildcard", "relation_suffix", "condition_suffix"}

(* The suffixes of a restriction stand in this order.                          *)
LEMMA SuffixesInOrder ==
    ASSUME NEW n \in DOMAIN Node, Node[n].kind = "type_restriction"
    PROVE  /\ \E u, v \in Nat : SuffixesAt(n, u, v)
           /\ ChildrenAre(n, SuffixKinds, <<>>, Node[n].first + 1, Node[n].last)
           /\ Node[n].name = Node[n].first
<1> DEFINE kids == Node[n].kids
           a == Node[n].first
           b == Node[n].last
           kinds == KindsOf(n)
           w == "wildcard"
           r == "relation_suffix"
           c == "condition_suffix"
           first(i) == Node[kids[i]].first
           last(i) == Node[kids[i]].last
<1>1. /\ Node[n].name = a /\ Tiled(kids, <<>>, a + 1, b)
      /\ kinds \in {<<>>, <<w>>, <<r>>, <<c>>, <<w, c>>, <<r, c>>}
  <2>1. Grammar(n)
    BY SyntaxAssumption
  <2> QED BY <2>1 DEF Grammar, KindsOf
<1>2. kids \in Seq(Nat) /\ a \in Nat /\ b \in Nat
  BY NodesPlaced DEF NodeFacts
<1>3. \A i \in DOMAIN kids :
        /\ kids[i] \in DOMAIN Node /\ kids[i] # NoNode /\ Node[kids[i]].kind = kinds[i]
        /\ first(i) \in Nat /\ last(i) \in Nat
  <2>1. \A i \in DOMAIN kids : kids[i] \in DOMAIN Node /\ n < kids[i] /\ n \in Nat
    BY NodesPlaced DEF NodeFacts
  <2>2. \A i \in DOMAIN kids : kids[i] \in Nat /\ kids[i] # NoNode
    <3>1. \A i \in DOMAIN kids : kids[i] \in Nat
      <4> HIDE DEF kids
      <4> QED BY <1>2
    <3> HIDE DEF kids
    <3> QED BY <2>1, <3>1 DEF NoNode
  <2>3. \A i \in DOMAIN kids : Node[kids[i]].kind = kinds[i]
    BY DEF KindsOf
  <2> HIDE DEF kids
  <2> QED BY <2>1, <2>2, <2>3, NodesPlaced DEF NodeFacts
<1>4. DOMAIN kinds = DOMAIN kids
  BY DEF KindsOf
<1>5. /\ kids = <<>> => a + 1 = b + 1
      /\ kids # <<>> => first(1) = a + 1 /\ last(Len(kids)) = b
      /\ \A i \in 1..(Len(kids) - 1) : first(i + 1) = last(i) + Len(<<>>) + 1
  BY <1>1 DEF Tiled
<1>6. /\ \A kind : (\A i \in DOMAIN kids : kinds[i] # kind) => NamedChild(n, kind) = NoNode
      /\ \A kind : \A i \in DOMAIN kids : (\A j \in DOMAIN kids : kinds[j] = kind <=> j = i) => NamedChild(n, kind) = kids[i]
  BY NamedChildIs
<1> HIDE DEF kids, kinds, a, b
<1>7. ASSUME kinds = <<>> PROVE \E u, v \in Nat : SuffixesAt(n, u, v)
  <2>1. kids = <<>> /\ DOMAIN kids = {}
    BY <1>2, <1>4, <1>7
  <2>2. NamedChild(n, w) = NoNode /\ NamedChild(n, r) = NoNode /\ NamedChild(n, c) = NoNode /\ b = a
    BY <1>2, <1>5, <1>6, <2>1
  <2>3. SuffixesAt(n, a, a)
    BY <2>2 DEF SuffixesAt, SuffixAt, a, b
  <2> QED BY <1>2, <2>3
<1>8. ASSUME NEW s \in SuffixKinds, kinds = <<s>> PROVE \E u, v \in Nat : SuffixesAt(n, u, v)
  <2>1. DOMAIN kids = {1} /\ kids # <<>> /\ Len(kids) = 1 /\ kinds[1] = s
    <3>1. DOMAIN kids = {1} /\ kinds[1] = s
      BY <1>4, <1>8
    <3>2. Len(kids) = 1
      <4>1. DOMAIN kids = 1..Len(kids) /\ Len(kids) \in Nat
        BY <1>2
      <4>2. 1 \in 1..Len(kids) /\ ~(2 \in 1..Len(kids))
        BY <3>1, <4>1
      <4> QED BY <4>1, <4>2
    <3>3. kids # <<>>
      BY <3>2
    <3> QED BY <3>1, <3>2, <3>3
  <2>2. NamedChild(n, s) = kids[1] /\ \A kind : kind # s => NamedChild(n, kind) = NoNode
    BY <1>6, <2>1
  <2>3. first(1) = a + 1 /\ last(1) = b /\ kids[1] \in DOMAIN Node /\ kids[1] # NoNode /\ Node[kids[1]].kind = s
    BY <1>3, <1>5, <2>1
  <2>4. CASE s = w
    <3>1. SuffixesAt(n, b, b)
      BY <2>2, <2>3, <2>4 DEF SuffixesAt, SuffixAt, a, b
    <3> QED BY <1>2, <3>1
  <2>5. CASE s = r
    <3>1. SuffixesAt(n, a, b)
      BY <2>2, <2>3, <2>5 DEF SuffixesAt, SuffixAt, a, b
    <3> QED BY <1>2, <3>1
  <2>6. CASE s = c
    <3>1. SuffixesAt(n, a, a)
      BY <2>2, <2>3, <2>6 DEF SuffixesAt, SuffixAt, a, b
    <3> QED BY <1>2, <3>1
  <2> QED BY <2>4, <2>5, <2>6 DEF SuffixKinds
<1>9. ASSUME NEW s \in {w, r}, kinds = <<s, c>> PROVE \E u, v \in Nat : SuffixesAt(n, u, v)
  <2>1. DOMAIN kids = {1, 2} /\ kids # <<>> /\ Len(kids) = 2 /\ kinds[1] = s /\ kinds[2] = c /\ s # c
    <3>1. DOMAIN kids = {1, 2} /\ kinds[1] = s /\ kinds[2] = c
      BY <1>4, <1>9
    <3>2. Len(kids) = 2
      <4>1. DOMAIN kids = 1..Len(kids) /\ Len(kids) \in Nat
        BY <1>2
      <4>2. 2 \in 1..Len(kids) /\ ~(3 \in 1..Len(kids))
        BY <3>1, <4>1
      <4> QED BY <4>1, <4>2
    <3> QED BY <1>2, <3>1, <3>2
  <2>2. NamedChild(n, s) = kids[1] /\ NamedChild(n, c) = kids[2] /\ \A kind : kind \notin {s, c} => NamedChild(n, kind) = NoNode
    BY <1>6, <2>1
  <2>3. first(1) = a + 1 /\ first(2) = last(1) + 1 /\ last(2) = b /\ last(1) \in Nat
    <3>1. 1 \in 1..(Len(kids) - 1)
      BY <2>1
    <3>2. first(1 + 1) = last(1) + Len(<<>>) + 1
      BY <1>5, <3>1
    <3> QED BY <1>3, <1>5, <2>1, <3>2
  <2>4. /\ kids[1] \in DOMAIN Node /\ kids[1] # NoNode /\ Node[kids[1]].kind = s
        /\ kids[2] \in DOMAIN Node /\ kids[2] # NoNode /\ Node[kids[2]].kind = c
    BY <1>3, <2>1
  <2>5. CASE s = w
    <3>1. SuffixesAt(n, last(1), last(1))
      BY <2>2, <2>3, <2>4, <2>5 DEF SuffixesAt, SuffixAt, a, b
    <3> QED BY <2>3, <3>1
  <2>6. CASE s = r
    <3>1. SuffixesAt(n, a, last(1))
      BY <2>2, <2>3, <2>4, <2>6 DEF SuffixesAt, SuffixAt, a, b
    <3> QED BY <1>2, <2>3, <3>1
  <2> QED BY <2>5, <2>6
<1>10. \E u, v \in Nat : SuffixesAt(n, u, v)
  BY <1>1, <1>7, <1>8, <1>9 DEF SuffixKinds
<1>11. ChildrenAre(n, SuffixKinds, <<>>, a + 1, b)
  <2>1. ASSUME NEW j \in DOMAIN kids PROVE kinds[j] \in SuffixKinds
    BY <1>1, <1>4 DEF SuffixKinds
  <2> QED BY <1>1, <1>3, <2>1 DEF ChildrenAre, kids
<1> QED BY <1>1, <1>10, <1>11 DEF a, b

-------------------------------------------------------------------------------
(* Two members make a sequence.                                                *)
LEMMA Paired ==
    ASSUME NEW T, NEW x \in T, NEW y \in T
    PROVE  <<x, y>> \in Seq(T) /\ Len(<<x, y>>) = 2 /\ <<x>> \o <<y>> = <<x, y>>
<1> DEFINE r == <<x>> \o <<y>>
           t == [i \in 1..2 |-> IF i = 1 THEN x ELSE y]
<1>1. r \in Seq(T) /\ Len(r) = 2 /\ r[1] = x /\ r[2] = y
  OBVIOUS
<1>2. <<x, y>> = t /\ t \in Seq(T)
  OBVIOUS
<1> HIDE DEF r
<1>3. r = <<r[1], r[2]>>
  BY <1>1
<1>4. r = <<x, y>>
  BY <1>1, <1>3
<1> QED BY <1>1, <1>2, <1>4 DEF r

(* Two tokens that stand next to each other, as they are.                      *)
LEMMA PairKept ==
    ASSUME NEW f, NEW a \in 1..Len(Source), NEW b \in 1..Len(Source), b = a + 1
    PROVE  Kept(f, <<Source[a], Source[b]>>, a, b, {})
<1> DEFINE x == Source[a]
           y == Source[b]
           r == <<x, y>>
<1>1. x \in STRING /\ y \in STRING /\ a \in Nat /\ b \in Nat /\ Len(Source) \in Nat
  BY TokenKept, SourceTyped
<1>2. r \in Seq(STRING) /\ Len(r) = 2 /\ r[1] = x /\ r[2] = y
  <2>1. x \in STRING /\ y \in STRING
    BY <1>1
  <2> HIDE DEF x, y
  <2> QED BY <2>1, Paired
<1>3. \A p \in 1..2 : (p = 1 /\ a - 1 + p = a) \/ (p = 2 /\ a - 1 + p = b)
  BY <1>1
<1>4. \A p \in 1..Len(r) : r[p] = Source[a - 1 + p]
  <2> HIDE DEF r
  <2> QED BY <1>2, <1>3 DEF x, y
<1> HIDE DEF r
<1>5. 1 <= a /\ b <= Len(Source) /\ Len(r) = b - a + 1
  BY <1>1, <1>2
<1>6. Kept(f, r, a, b, {})
  BY <1>1, <1>2, <1>4, <1>5, TextKept
<1> QED BY <1>6 DEF r, x, y

(* What is written for a suffix of a restriction.                              *)
SuffixText(n, kind) ==
    LET k == NamedChild(n, kind)
    IN  IF k = NoNode THEN <<>>
        ELSE CASE kind = "wildcard"         -> <<":", "*">>
               [] kind = "relation_suffix"  -> <<"#">> \o Name(k)
               [] kind = "condition_suffix" -> <<"with">> \o Name(k)

(* It is its tokens.                                                           *)
LEMMA SuffixKept ==
    ASSUME NEW f, NEW n \in DOMAIN Node, NEW kind \in SuffixKinds, NEW u \in Nat, NEW v \in Nat,
           SuffixAt(n, kind, u, v), NEW d \in Nat, d = u + 1
    PROVE  Kept(f, SuffixText(n, kind), d, v, {})
<1> DEFINE k == NamedChild(n, kind)
<1>1. CASE k = NoNode
  <2>1. SuffixText(n, kind) = <<>> /\ v = u
    BY <1>1 DEF SuffixText, SuffixAt
  <2>2. <<>> \in LayoutPieces
    BY DEF LayoutPieces
  <2> QED BY <2>1, <2>2, LayoutKept
<1>2. CASE k # NoNode
  <2>1. k \in DOMAIN Node /\ Node[k].kind = kind /\ Node[k].first = u + 1 /\ Node[k].last = v
    BY <1>2 DEF SuffixAt
  <2> DEFINE a == Node[k].first
             b == Node[k].last
  <2>2. Grammar(k) /\ NodeFacts(k)
    BY <2>1, SyntaxAssumption, NodesPlaced
  <2>3. b = a + 1 /\ (kind # "wildcard" => Node[k].name = b)
        /\ (kind = "wildcard" => Source[a] = ":" /\ Source[b] = "*")
        /\ (kind = "relation_suffix" => Source[a] = "#")
        /\ (kind = "condition_suffix" => Source[a] = "with")
    BY <2>1, <2>2 DEF Grammar, SuffixKinds
  <2>4. k # Root
    BY <2>1, SyntaxAssumption DEF SuffixKinds
  <2>5. a \in 1..Len(Source) /\ b \in 1..Len(Source)
    <3>1. a \in Nat /\ b \in Nat /\ 1 <= a /\ a <= b /\ b <= Len(Source) /\ Len(Source) \in Nat
      BY <2>2, <2>4, SourceTyped DEF NodeFacts, Placed
    <3> HIDE DEF a, b
    <3> QED BY <3>1
  <2> HIDE DEF k, a, b
  <2>6. Kept(f, <<Source[a], Source[b]>>, a, b, {})
    BY <2>3, <2>5, PairKept
  <2>7. SuffixText(n, kind) = <<Source[a], Source[b]>>
    <3>1. CASE kind = "wildcard"
      BY <1>2, <2>3, <3>1 DEF SuffixText, k
    <3>2. CASE kind = "relation_suffix"
      <4>1. Name(k) = <<Source[b]>>
        BY <2>3, <3>2 DEF Name
      <4>2. SuffixText(n, kind) = <<"#">> \o <<Source[b]>>
        BY <1>2, <3>2, <4>1 DEF SuffixText, k
      <4> QED BY <2>3, <3>2, <4>2
    <3>3. CASE kind = "condition_suffix"
      <4>1. Name(k) = <<Source[b]>>
        BY <2>3, <3>3 DEF Name
      <4>2. SuffixText(n, kind) = <<"with">> \o <<Source[b]>>
        BY <1>2, <3>3, <4>1 DEF SuffixText, k
      <4> QED BY <2>3, <3>3, <4>2
    <3> QED BY <3>1, <3>2, <3>3 DEF SuffixKinds
  <2> QED BY <2>1, <2>6, <2>7 DEF a, b
<1> QED BY <1>1, <1>2

(* Those of its own and of its children only hold no group.                    *)
LEMMA RestrictionsHoldNoGroup ==
    ASSUME NEW f, NEW n \in DOMAIN Node, Node[n].kind = "type_restriction"
    PROVE  \A g \in Sub(n) : ~Opens(f, g)
<1>1. Sub(n) = {n} \cup Below(n)
  BY SubSplits
<1>2. ASSUME NEW i \in DOMAIN Node[n].kids, NEW g \in Sub(Node[n].kids[i]) PROVE Node[g].kind \in SuffixKinds
  <2> DEFINE k == Node[n].kids[i]
  <2>1. k \in DOMAIN Node /\ Node[k].kind \in SuffixKinds
    BY SuffixesInOrder, NodesPlaced DEF ChildrenAre, NodeFacts
  <2> HIDE DEF k
  <2>2. Node[k].kids = <<>>
    BY <2>1, NodesFit DEF NodeFits, SuffixKinds
  <2>3. Below(k) = {}
    <3>1. DOMAIN Node[k].kids = {}
      BY <2>2
    <3> QED BY <3>1 DEF Below
  <2>4. Sub(k) = {k}
    BY <2>1, <2>3, SubSplits
  <2> QED BY <1>2, <2>1, <2>4 DEF k
<1>3. ASSUME NEW g \in Sub(n) PROVE Node[g].kind # "grouping"
  <2>1. CASE g = n
    BY <2>1
  <2>2. CASE g # n
    BY <1>1, <1>2, <1>3, <2>2 DEF Below, SuffixKinds
  <2> QED BY <2>1, <2>2
<1> QED BY <1>3 DEF Opens

(* A restriction keeps its tokens.                                             *)
LEMMA RestrictionKept ==
    ASSUME NEW f, NEW n \in DOMAIN Node, Node[n].kind = "type_restriction"
    PROVE  Kept(f, RenderRestriction(n), Node[n].first, Node[n].last, Sub(n))
<1> DEFINE a == Node[n].first
           b == Node[n].last
           W == SuffixText(n, "wildcard")
           R == SuffixText(n, "relation_suffix")
           C == SuffixText(n, "condition_suffix")
<1>1. PICK u, v \in Nat : SuffixesAt(n, u, v)
  BY SuffixesInOrder
<1>2. a \in Nat /\ b \in Nat /\ a \in 1..Len(Source)
  <2>1. n # Root
    BY SyntaxAssumption
  <2>2. a \in Nat /\ b \in Nat /\ 1 <= a /\ a <= b /\ b <= Len(Source) /\ Len(Source) \in Nat
    BY <2>1, NodesPlaced, SourceTyped DEF NodeFacts, Placed
  <2> HIDE DEF a, b
  <2> QED BY <2>2
<1>3. Name(n) = <<Source[a]>>
  BY SuffixesInOrder DEF Name
<1>4. RenderRestriction(n) = Name(n) \o W \o R \o C
  BY DEF RenderRestriction, SuffixText
<1>5. SuffixAt(n, "wildcard", a, u) /\ SuffixAt(n, "relation_suffix", u, v) /\ SuffixAt(n, "condition_suffix", v, b)
  BY <1>1 DEF SuffixesAt
<1> DEFINE x == a + 1
           y == u + 1
           z == v + 1
<1>6. x \in Nat /\ y \in Nat /\ z \in Nat
  BY <1>1, <1>2
<1>7. "wildcard" \in SuffixKinds /\ "relation_suffix" \in SuffixKinds /\ "condition_suffix" \in SuffixKinds
  BY DEF SuffixKinds
<1> HIDE DEF a, b
<1>8. x = a + 1 /\ y = u + 1 /\ z = v + 1
  OBVIOUS
<1> HIDE DEF x, y, z
<1>9. Kept(f, W, x, u, {})
  BY <1>1, <1>2, <1>5, <1>6, <1>7, <1>8, SuffixKept
<1>10. Kept(f, R, y, v, {})
  BY <1>1, <1>5, <1>6, <1>7, <1>8, SuffixKept
<1>11. Kept(f, C, z, b, {})
  BY <1>1, <1>2, <1>5, <1>6, <1>7, <1>8, SuffixKept
<1> HIDE DEF W, R, C
<1>12. Kept(f, Name(n), a, a, {})
  BY <1>2, <1>3, TokenKept
<1>13. Kept(f, Name(n) \o W, a, u, {} \cup {})
  BY <1>1, <1>2, <1>6, <1>8, <1>9, <1>12, KeptJoin
<1>14. Kept(f, Name(n) \o W \o R, a, v, ({} \cup {}) \cup {})
  BY <1>1, <1>2, <1>6, <1>8, <1>10, <1>13, KeptJoin
<1>15. Kept(f, Name(n) \o W \o R \o C, a, b, (({} \cup {}) \cup {}) \cup {})
  BY <1>1, <1>2, <1>6, <1>8, <1>11, <1>14, KeptJoin
<1>16. Kept(f, RenderRestriction(n), a, b, {} \cup Sub(n))
  <2>1. (({} \cup {}) \cup {}) \cup {} = {}
    OBVIOUS
  <2>2. Kept(f, RenderRestriction(n), a, b, {})
    BY <1>4, <1>15, <2>1
  <2> QED BY <2>2, KeptMore, RestrictionsHoldNoGroup
<1>17. {} \cup Sub(n) = Sub(n)
  OBVIOUS
<1> QED BY <1>16, <1>17 DEF a, b

-------------------------------------------------------------------------------
(* Every node but the root has a first and a last token.                       *)
InSource(n) ==
    /\ Node[n].first \in Nat /\ Node[n].last \in Nat /\ Len(Source) \in Nat
    /\ 1 <= Node[n].first /\ Node[n].first <= Node[n].last /\ Node[n].last <= Len(Source)
    /\ Node[n].first \in 1..Len(Source) /\ Node[n].last \in 1..Len(Source)

(* For the root alone may be empty.                                            *)
LEMMA NodesInSource ==
    ASSUME NEW n \in DOMAIN Node, Node[n].kind # "source_file"
    PROVE  InSource(n)
<1> DEFINE a == Node[n].first
           b == Node[n].last
<1>1. n # Root
  BY SyntaxAssumption
<1>2. a \in Nat /\ b \in Nat /\ 1 <= a /\ a <= b /\ b <= Len(Source) /\ Len(Source) \in Nat
  BY <1>1, NodesPlaced, SourceTyped DEF NodeFacts, Placed
<1> HIDE DEF a, b
<1>3. a \in 1..Len(Source) /\ b \in 1..Len(Source)
  BY <1>2
<1> QED BY <1>2, <1>3 DEF InSource, a, b

(* Only groups may begin with a comment in the wrong place.                    *)
LEMMA KeptWithSelf ==
    ASSUME NEW f, NEW r, NEW a, NEW b, NEW n \in DOMAIN Node, Node[n].kind # "grouping",
           Kept(f, r, a, b, Below(n))
    PROVE  Kept(f, r, a, b, Sub(n))
<1>1. \A m \in {n} : ~Opens(f, m)
  BY DEF Opens
<1>2. Kept(f, r, a, b, Below(n) \cup {n})
  BY <1>1, KeptMore
<1>3. Below(n) \cup {n} = Sub(n)
  BY SubSplits
<1> QED BY <1>2, <1>3

(* A node without children, written as its tokens.                             *)
LEMMA LeafKept ==
    ASSUME NEW f, NEW r, NEW a, NEW b, NEW n \in DOMAIN Node, Node[n].kids = <<>>, Node[n].kind # "grouping",
           Kept(f, r, a, b, {})
    PROVE  Kept(f, r, a, b, Sub(n))
<1>1. DOMAIN Node[n].kids = {}
  OBVIOUS
<1>2. Below(n) = {}
  BY <1>1 DEF Below
<1> QED BY <1>2, KeptWithSelf

(* Between a token in front and a token behind.                                *)
LEMMA WrapKept ==
    ASSUME NEW f, NEW a \in 1..Len(Source), NEW b \in 1..Len(Source), NEW c \in Nat, NEW d \in Nat,
           c = a + 1, b = d + 1, NEW r, NEW G, Kept(f, r, c, d, G)
    PROVE  Kept(f, <<Source[a]>> \o r \o <<Source[b]>>, a, b, G)
<1> DEFINE x == <<Source[a]>>
           y == <<Source[b]>>
<1>1. Kept(f, x, a, a, {}) /\ Kept(f, y, b, b, {}) /\ a \in Nat /\ b \in Nat
  BY TokenKept
<1> HIDE DEF x, y
<1>2. Kept(f, x \o r, a, d, {} \cup G)
  BY <1>1, KeptJoin
<1>3. Kept(f, x \o r \o y, a, b, ({} \cup G) \cup {})
  BY <1>1, <1>2, KeptJoin
<1>4. ({} \cup G) \cup {} = G
  OBVIOUS
<1> QED BY <1>3, <1>4 DEF x, y

(* A comment behind the opening parenthesis takes the closing one with it.     *)
LEMMA OpenedKept ==
    ASSUME NEW f, NEW a \in 1..Len(Source), NEW b \in 1..Len(Source), a < b, NEW G, Broken(f, G)
    PROVE  Kept(f, <<Source[a]>> \o <<Comment>> \o <<Source[b]>>, a, b, G)
<1> DEFINE x == Source[a]
           y == Source[b]
           u == <<x>> \o <<Comment>>
           r == u \o <<y>>
<1>1. a \in Nat /\ b \in Nat
  BY SourceTyped
<1>2. x \in ToSet(Source) /\ y \in ToSet(Source) /\ Comment \in Ink
  <2>1. DOMAIN Source = 1..Len(Source)
    BY SourceTyped
  <2> QED BY <2>1 DEF ToSet, Ink
<1>3. x \in Ink /\ y \in Ink /\ x \notin {Newline, Comment} /\ y \notin {Newline, Comment}
  <2>1. {Newline, Comment} \cap ToSet(Source) = {}
    BY SyntaxAssumption
  <2> QED BY <1>2, <2>1 DEF Ink
<1> HIDE DEF x, y
<1>4. u \in Seq(Ink) /\ Len(u) = 2 /\ u[1] = x /\ u[2] = Comment
  <2>1. u = <<x, Comment>> /\ u \in Seq(Ink)
    BY <1>2, <1>3, Paired
  <2> QED BY <2>1
<1> HIDE DEF u
<1>5. r \in Seq(Ink) /\ Len(r) = 3 /\ r[1] = x /\ r[2] = Comment /\ r[3] = y
  <2> DEFINE t == <<y>>
  <2>1. t \in Seq(Ink) /\ Len(t) = 1 /\ t[1] = y
    BY <1>3
  <2> HIDE DEF t
  <2>2. Joined(u, t, Ink)
    BY <1>4, <2>1, SequencesJoin
  <2>3. r \in Seq(Ink) /\ Len(r) = 3
    BY <1>4, <2>1, <2>2 DEF Joined, t
  <2>4. 1 \in 1..Len(u) /\ 2 \in 1..Len(u) /\ 1 \in 1..Len(t) /\ Len(u) + 1 = 3
    BY <1>4, <2>1
  <2>5. r[1] = u[1] /\ r[2] = u[2] /\ r[3] = t[1]
    BY <2>2, <2>4 DEF Joined, t
  <2> QED BY <1>4, <2>1, <2>3, <2>5
<1> HIDE DEF r
<1>6. PICK k, h : Scan(r, "code", k, h)
  BY <1>5, ScanExists DEF Modes
<1>7. Comment # Newline
  BY SyntaxAssumption
<1>8. k[0] = 0 /\ h[0] = "code" /\ 1 \in 1..Len(r) /\ 2 \in 1..Len(r) /\ 3 \in 1..Len(r)
  BY <1>5, <1>6 DEF Scan
<1>9. k[1] = 1
  BY <1>3, <1>5, <1>6, <1>8 DEF Scan, Shown
<1>10. k[2] = 1 /\ h[2] = "comment"
  BY <1>5, <1>6, <1>8, <1>9, <1>7 DEF Scan, Shown
<1>11. k[3] = 1
  BY <1>5, <1>6, <1>8, <1>10 DEF Scan, Shown
<1>12. KeptBy(f, r, a, b, G, k, h)
  BY <1>1, <1>5, <1>6, <1>11 DEF KeptBy
<1> QED BY <1>5, <1>12 DEF Kept, r, u, x, y

(* A group keeps its tokens, and those of what it encloses, unless it begins   *)
(* with a comment.                                                             *)
LEMMA GroupKept ==
    ASSUME NEW f \in Seq(Ink), Parses(f), NEW n \in DOMAIN Node, Node[n].kind = "grouping",
           NEW parts, PartsKept(f, n, parts)
    PROVE  Kept(f, RenderNode(f, n, parts), Node[n].first, Node[n].last, Sub(n))
<1> DEFINE a == Node[n].first
           b == Node[n].last
           c == a + 1
           d == b - 1
           k == Node[n].kids[1]
           q == parts[1]
<1>1. GroupFits(n) /\ InSource(n)
  BY NodesFit, NodesInSource DEF NodeFits
<1>2. DOMAIN Node[n].kids = {1} /\ Node[n].kids # <<>>
  <2> DEFINE kids == Node[n].kids
  <2>1. kids \in Seq(Nat) /\ Len(kids) = 1
    BY <1>1, NodesPlaced DEF GroupFits, NodeFacts
  <2> HIDE DEF kids
  <2>2. DOMAIN kids = 1..Len(kids)
    BY <2>1
  <2>3. DOMAIN kids = {1}
    BY <2>1, <2>2
  <2>4. kids # <<>>
    <3>1. DOMAIN << >> = {}
      OBVIOUS
    <3> QED BY <2>3, <3>1
  <2> QED BY <2>3, <2>4 DEF kids
<1>3. k \in DOMAIN Node /\ Node[k].first = c /\ Node[k].last = d /\ Node[k].kind \in RelationDef
  <2>1. k \in DOMAIN Node /\ Node[k].kind \in RelationDef
    BY <1>1, <1>2, NodesPlaced DEF GroupFits, ChildrenAre, NodeFacts
  <2>2. Tiled(Node[n].kids, <<>>, c, d) /\ Len(Node[n].kids) = 1
    BY <1>1 DEF GroupFits, ChildrenAre
  <2> QED BY <1>2, <2>1, <2>2 DEF Tiled
<1>4. InSource(k)
  BY <1>3, NodesInSource DEF RelationDef, Operand
<1>5. a < b /\ c \in Nat /\ d \in Nat /\ a \in 1..Len(Source) /\ b \in 1..Len(Source) /\ c = a + 1 /\ b = d + 1
  <2>1. a \in Nat /\ b \in Nat /\ a \in 1..Len(Source) /\ b \in 1..Len(Source)
    BY <1>1 DEF InSource
  <2>2. Node[k].first <= Node[k].last
    BY <1>4 DEF InSource
  <2>3. a + 1 <= b - 1
    BY <1>3, <2>2
  <2> HIDE DEF a, b
  <2> QED BY <2>1, <2>3
<1>6. Kept(f, q, c, d, Sub(k))
  BY <1>2, <1>3 DEF PartsKept
<1>7. Below(n) = Sub(k) /\ Sub(n) = {n} \cup Sub(k)
  BY <1>2, SubSplits DEF Below
<1>8. Source[a] = "(" /\ Source[b] = ")"
  BY <1>1 DEF GroupFits
<1>9. CASE Opens(f, n)
  <2>1. RenderNode(f, n, parts) = <<"(">> \o <<Comment>> \o <<")">>
    BY <1>9, GroupsOpen DEF RenderNode
  <2>2. Broken(f, Sub(n))
    BY <1>7, <1>9 DEF Broken
  <2>3. Kept(f, <<Source[a]>> \o <<Comment>> \o <<Source[b]>>, a, b, Sub(n))
    BY <1>5, <2>2, OpenedKept
  <2> QED BY <1>8, <2>1, <2>3
<1>10. CASE ~Opens(f, n)
  <2>1. RenderNode(f, n, parts) = <<"(">> \o q \o <<")">>
    BY <1>10, GroupsOpen DEF RenderNode
  <2> HIDE DEF a, b, c, d, q, k
  <2>2. Kept(f, <<Source[a]>> \o q \o <<Source[b]>>, a, b, Sub(k))
    BY <1>5, <1>6, WrapKept
  <2>3. \A m \in {n} : ~Opens(f, m)
    BY <1>10
  <2>4. Kept(f, <<Source[a]>> \o q \o <<Source[b]>>, a, b, Sub(k) \cup {n})
    BY <2>2, <2>3, KeptMore
  <2>5. Sub(k) \cup {n} = Sub(n)
    BY <1>7
  <2> QED BY <1>8, <2>1, <2>4, <2>5 DEF a, b
<1> QED BY <1>9, <1>10

(* So does every other expression.                                             *)
ExprKinds == RelationDef \cup {"type_restriction"}

LEMMA NodeKept ==
    ASSUME NEW f \in Seq(Ink), Parses(f), NEW n \in DOMAIN Node, Node[n].kind \in ExprKinds,
           NEW parts, Node[n].kind # "type_restriction" => PartsKept(f, n, parts)
    PROVE  Kept(f, RenderNode(f, n, parts), Node[n].first, Node[n].last, Sub(n))
<1> DEFINE a == Node[n].first
           b == Node[n].last
           kind == Node[n].kind
           text == RenderNode(f, n, parts)
<1>1. InSource(n) /\ NodeFits(n) /\ Grammar(n)
  BY NodesInSource, NodesFit, SyntaxAssumption DEF ExprKinds, RelationDef, Operand
<1>2. a \in Nat /\ b \in Nat /\ 1 <= a /\ a \in 1..Len(Source) /\ b \in 1..Len(Source)
  BY <1>1 DEF InSource
<1>3. ASSUME NEW operator, OperatorFits(n, operator), kind \in {"union", "intersection", "exclusion"},
             text = Join(parts, <<operator>>)
      PROVE  Kept(f, text, a, b, Sub(n))
  <2>1. Tiled(Node[n].kids, <<operator>>, a, b) /\ PartsKept(f, n, parts)
    BY <1>3 DEF OperatorFits, ChildrenAre
  <2>2. Kept(f, Join(parts, <<operator>>), a, b, Below(n))
    BY <1>2, <2>1, JoinKept
  <2> QED BY <1>3, <2>2, KeptWithSelf
<1>4. CASE kind = "union"
  BY <1>1, <1>3, <1>4 DEF NodeFits, RenderNode
<1>5. CASE kind = "intersection"
  BY <1>1, <1>3, <1>5 DEF NodeFits, RenderNode
<1>6. CASE kind = "exclusion"
  BY <1>1, <1>3, <1>6 DEF NodeFits, RenderNode
<1>7. CASE kind = "grouping"
  BY <1>7, GroupKept
<1>8. CASE kind = "computed_relation"
  <2>1. Node[n].name = a /\ b = a /\ text = Name(n)
    BY <1>1, <1>8 DEF Grammar, RenderNode
  <2>2. Kept(f, text, a, b, {})
    BY <1>2, <2>1, TokenKept DEF Name
  <2>3. Node[n].kids = <<>>
    BY <1>1, <1>8 DEF NodeFits
  <2> QED BY <1>8, <2>2, <2>3, LeafKept
<1>9. CASE kind = "tupleset_relation"
  <2>1. /\ Node[n].name = a /\ b = a + 2 /\ Source[a + 1] = "from"
        /\ text = Name(n) \o <<"from", Source[b]>>
    BY <1>1, <1>9 DEF Grammar, RenderNode
  <2> DEFINE c == a + 1
  <2>2. c \in 1..Len(Source) /\ b = c + 1 /\ c \in Nat /\ c = a + 1
    <3>1. Len(Source) \in Nat
      BY SourceTyped
    <3> HIDE DEF a, b
    <3> QED BY <1>2, <2>1, <3>1
  <2>3. Source[c] = "from"
    BY <2>1
  <2>4. Kept(f, Name(n), a, a, {})
    BY <1>2, <2>1, TokenKept DEF Name
  <2> HIDE DEF c, a, b
  <2>5. Kept(f, <<Source[c], Source[b]>>, c, b, {})
    BY <1>2, <2>2, PairKept
  <2>6. Kept(f, Name(n) \o <<Source[c], Source[b]>>, a, b, {} \cup {})
    BY <1>2, <2>2, <2>4, <2>5, KeptJoin
  <2>7. Kept(f, text, a, b, {})
    <3>1. {} \cup {} = {}
      OBVIOUS
    <3> QED BY <2>1, <2>3, <2>6, <3>1 DEF a, b
  <2>8. Node[n].kids = <<>>
    BY <1>1, <1>9 DEF NodeFits
  <2> QED BY <1>9, <2>7, <2>8, LeafKept DEF a, b
<1>10. CASE kind = "direct_assignment"
  <2>1. AssignmentFits(n) /\ text = <<"[">> \o Join(parts, <<",">>) \o <<"]">> /\ PartsKept(f, n, parts)
    BY <1>1, <1>10 DEF NodeFits, RenderNode
  <2> DEFINE c == a + 1
             d == b - 1
             r == Join(parts, <<",">>)
  <2>2. Tiled(Node[n].kids, <<",">>, c, d) /\ Source[a] = "[" /\ Source[b] = "]"
    BY <2>1 DEF AssignmentFits, ChildrenAre
  <2>3. c \in Nat /\ d \in Nat /\ 1 <= c /\ c = a + 1 /\ b = d + 1
    <3> HIDE DEF a, b
    <3>1. Len(Source) \in Nat
      BY SourceTyped
    <3> QED BY <1>2, <3>1
  <2>4. Kept(f, r, c, d, Below(n))
    BY <2>1, <2>2, <2>3, JoinKept
  <2> HIDE DEF a, b, c, d, r
  <2>5. Kept(f, <<Source[a]>> \o r \o <<Source[b]>>, a, b, Below(n))
    BY <1>2, <2>3, <2>4, WrapKept
  <2>6. Kept(f, text, a, b, Below(n))
    BY <2>1, <2>2, <2>5 DEF r, a, b
  <2> QED BY <1>10, <2>6, KeptWithSelf DEF a, b
<1>11. CASE kind = "type_restriction"
  BY <1>11, RestrictionKept DEF RenderNode
<1> QED BY <1>4, <1>5, <1>6, <1>7, <1>8, <1>9, <1>10, <1>11 DEF ExprKinds, RelationDef, Operand

-------------------------------------------------------------------------------
(* The texts of a node's children, of those of all nodes.                      *)
Parts(h, n) == [i \in DOMAIN Node[n].kids |-> h[Node[n].kids[i]]]
Rendered(f, h) == h = [n \in DOMAIN Node |-> RenderNode(f, n, Parts(h, n))]

(* Children are behind their parents, so that texts of those at the end are    *)
(* enough to go on with.                                                       *)
LEMMA PartsBehind ==
    ASSUME NEW n \in DOMAIN Node, NEW h, NEW g, \A k \in DOMAIN Node : n < k => h[k] = g[k]
    PROVE  Parts(h, n) = Parts(g, n)
<1> DEFINE kids == Node[n].kids
<1>1. \A i \in DOMAIN kids : kids[i] \in DOMAIN Node /\ n < kids[i]
  BY NodesPlaced DEF NodeFacts
<1>2. \A i \in DOMAIN kids : h[kids[i]] = g[kids[i]]
  BY <1>1
<1> QED BY <1>2 DEF Parts

(* Every node is written, from the last one up to the root.                    *)
LEMMA RenderExists ==
    ASSUME NEW f
    PROVE  \E h : Rendered(f, h)
<1> DEFINE N == Len(Node)
           Done(h, i) == \A n \in DOMAIN Node : N - i < n => h[n] = RenderNode(f, n, Parts(h, n))
           S == {i \in 0..N : \E h : h = [n \in DOMAIN Node |-> h[n]] /\ Done(h, i)}
<1>1. N \in Nat /\ DOMAIN Node = 1..N
  <2> DEFINE P == [kind : STRING, first : Nat, last : Nat, name : Nat, kids : Seq(Nat)]
  <2>1. Node \in Seq(P)
    BY SyntaxAssumption
  <2> HIDE DEF P
  <2> QED BY <2>1
<1> HIDE DEF N
<1>2. 0 \in S
  <2> DEFINE h == [n \in DOMAIN Node |-> n]
  <2>1. h = [n \in DOMAIN Node |-> h[n]]
    OBVIOUS
  <2>2. Done(h, 0)
    BY <1>1
  <2> HIDE DEF h
  <2> QED BY <1>1, <2>1, <2>2
<1>3. ASSUME NEW i \in 0..(N - 1), i \in S PROVE i + 1 \in S
  <2>1. PICK h : h = [n \in DOMAIN Node |-> h[n]] /\ Done(h, i)
    BY <1>3
  <2> DEFINE m == N - i
             t == RenderNode(f, m, Parts(h, m))
             g == [n \in DOMAIN Node |-> IF n = m THEN t ELSE h[n]]
  <2>2. m \in DOMAIN Node /\ m \in Nat
    BY <1>1
  <2>3. \A n \in DOMAIN Node : N - (i + 1) < n => n = m \/ N - i < n
    BY <1>1
  <2>4. N - i = m /\ i + 1 \in 0..N
    BY <1>1
  <2> HIDE DEF m, t
  <2>5. g = [n \in DOMAIN Node |-> g[n]] /\ g[m] = t /\ \A n \in DOMAIN Node : n # m => g[n] = h[n]
    BY <2>2
  <2> HIDE DEF g
  <2>6. ASSUME NEW n \in DOMAIN Node, m <= n PROVE Parts(g, n) = Parts(h, n)
    <3>1. \A k \in DOMAIN Node : n < k => g[k] = h[k]
      BY <1>1, <2>2, <2>5, <2>6
    <3> QED BY <3>1, PartsBehind
  <2>7. ASSUME NEW n \in DOMAIN Node, N - (i + 1) < n PROVE g[n] = RenderNode(f, n, Parts(g, n))
    <3>1. CASE n = m
      <4>1. Parts(g, n) = Parts(h, m)
        BY <2>2, <2>6, <3>1
      <4> QED BY <2>5, <3>1, <4>1 DEF t
    <3>2. CASE n # m
      <4>1. m < n
        BY <2>3, <2>4, <2>7, <3>2
      <4>2. Parts(g, n) = Parts(h, n)
        BY <1>1, <2>2, <2>6, <4>1
      <4>3. g[n] = h[n] /\ h[n] = RenderNode(f, n, Parts(h, n))
        BY <2>1, <2>4, <2>5, <3>2, <4>1
      <4> QED BY <4>2, <4>3
    <3> QED BY <3>1, <3>2
  <2>8. Done(g, i + 1)
    BY <2>7
  <2> QED BY <2>4, <2>5, <2>8
<1> HIDE DEF S
<1>4. N \in S
  <2>1. \A i \in 0..N : i \in S
    BY <1>1, <1>2, <1>3, UpTo
  <2> QED BY <1>1, <2>1
<1>5. PICK h : h = [n \in DOMAIN Node |-> h[n]] /\ Done(h, N)
  BY <1>4 DEF S
<1>6. \A n \in DOMAIN Node : N - N < n
  BY <1>1
<1>7. \A n \in DOMAIN Node : h[n] = RenderNode(f, n, Parts(h, n))
  BY <1>5, <1>6
<1> QED BY <1>5, <1>7 DEF Rendered

(* The children of an expression are expressions.                              *)
LEMMA PartsOfExpressions ==
    ASSUME NEW n \in DOMAIN Node, Node[n].kind \in RelationDef, NEW i \in DOMAIN Node[n].kids
    PROVE  Node[n].kids[i] \in DOMAIN Node /\ Node[Node[n].kids[i]].kind \in ExprKinds
<1> DEFINE k == Node[n].kids[i]
<1>1. NodeFits(n) /\ k \in DOMAIN Node
  BY NodesFit, NodesPlaced DEF NodeFacts
<1>2. Node[n].kids # <<>>
  <2>1. DOMAIN << >> = {}
    OBVIOUS
  <2> QED BY <2>1
<1>3. CASE Node[n].kind \in {"union", "intersection", "exclusion"}
  BY <1>1, <1>3 DEF NodeFits, OperatorFits, ChildrenAre, ExprKinds, RelationDef
<1>4. CASE Node[n].kind = "grouping"
  BY <1>1, <1>4 DEF NodeFits, GroupFits, ChildrenAre, ExprKinds
<1>5. CASE Node[n].kind = "direct_assignment"
  BY <1>1, <1>5 DEF NodeFits, AssignmentFits, ChildrenAre, ExprKinds
<1>6. CASE Node[n].kind \in {"computed_relation", "tupleset_relation"}
  BY <1>1, <1>2, <1>6 DEF NodeFits
<1> QED BY <1>1, <1>3, <1>4, <1>5, <1>6 DEF RelationDef, Operand

(* What is written of an expression keeps its tokens.                          *)
LEMMA ExpressionsKept ==
    ASSUME NEW f \in Seq(Ink), Parses(f), NEW expr \in DOMAIN Node, Node[expr].kind \in ExprKinds
    PROVE  Kept(f, RenderExpr(f, expr), Node[expr].first, Node[expr].last, Sub(expr))
<1> DEFINE N == Len(Node)
           h == CHOOSE g : g = [n \in DOMAIN Node |-> RenderNode(f, n, Parts(g, n))]
           Holds(n) == Kept(f, h[n], Node[n].first, Node[n].last, Sub(n))
           S == {i \in 0..N : \A n \in DOMAIN Node : N - i < n /\ Node[n].kind \in ExprKinds => Holds(n)}
<1>1. N \in Nat /\ DOMAIN Node = 1..N
  <2> DEFINE P == [kind : STRING, first : Nat, last : Nat, name : Nat, kids : Seq(Nat)]
  <2>1. Node \in Seq(P)
    BY SyntaxAssumption
  <2> HIDE DEF P
  <2> QED BY <2>1
<1>2. RenderExpr(f, expr) = h[expr]
  BY DEF RenderExpr, Parts
<1>3. h = [n \in DOMAIN Node |-> RenderNode(f, n, Parts(h, n))]
  BY RenderExists DEF Rendered
<1> HIDE DEF h, N
<1>4. 0 \in S
  BY <1>1
<1>5. ASSUME NEW i \in 0..(N - 1), i \in S PROVE i + 1 \in S
  <2>1. \A n \in DOMAIN Node : N - i < n /\ Node[n].kind \in ExprKinds => Holds(n)
    BY <1>5
  <2>2. i + 1 \in 0..N
    BY <1>1
  <2> HIDE DEF Holds
  <2>3. ASSUME NEW n \in DOMAIN Node, N - (i + 1) < n, Node[n].kind \in ExprKinds PROVE Holds(n)
    <3>1. ASSUME Node[n].kind # "type_restriction" PROVE PartsKept(f, n, Parts(h, n))
      <4>1. ASSUME NEW j \in DOMAIN Node[n].kids PROVE Holds(Node[n].kids[j])
        <5> DEFINE k == Node[n].kids[j]
        <5>1. k \in DOMAIN Node /\ Node[k].kind \in ExprKinds
          BY <2>3, <3>1, PartsOfExpressions DEF ExprKinds
        <5>2. n < k
          BY NodesPlaced DEF NodeFacts
        <5> HIDE DEF k
        <5>3. N - i < k
          BY <1>1, <2>3, <5>1, <5>2
        <5>4. Holds(k)
          BY <2>1, <5>1, <5>3
        <5> QED BY <5>4 DEF k
      <4>2. DOMAIN Parts(h, n) = DOMAIN Node[n].kids
        BY DEF Parts
      <4>3. \A j \in DOMAIN Node[n].kids : Parts(h, n)[j] = h[Node[n].kids[j]]
        BY DEF Parts
      <4> QED BY <4>1, <4>2, <4>3 DEF PartsKept, Holds
    <3>2. Kept(f, RenderNode(f, n, Parts(h, n)), Node[n].first, Node[n].last, Sub(n))
      BY <2>3, <3>1, NodeKept
    <3>3. h[n] = RenderNode(f, n, Parts(h, n))
      BY <1>3
    <3> QED BY <3>2, <3>3 DEF Holds
  <2> QED BY <2>2, <2>3
<1> HIDE DEF S, Holds
<1>6. N \in S
  <2>1. \A i \in 0..N : i \in S
    BY <1>1, <1>4, <1>5, UpTo
  <2> QED BY <1>1, <2>1
<1>7. N - N < expr
  BY <1>1
<1>8. Holds(expr)
  BY <1>6, <1>7 DEF S
<1> QED BY <1>2, <1>8 DEF Holds

-------------------------------------------------------------------------------
(* Three members make a sequence.                                              *)
LEMMA Tripled ==
    ASSUME NEW T, NEW x \in T, NEW y \in T, NEW z \in T
    PROVE  /\ <<x, y, z>> \in Seq(T)
           /\ <<x, y>> \o <<z>> = <<x, y, z>> /\ <<x>> \o <<y, z>> = <<x, y, z>>
<1> DEFINE u == <<x, y>>
           v == <<z>>
           w == <<y, z>>
           r == u \o v
           s == <<x>> \o w
           t == [i \in 1..3 |-> IF i = 1 THEN x ELSE IF i = 2 THEN y ELSE z]
<1>1. u \in Seq(T) /\ Len(u) = 2 /\ u[1] = x /\ u[2] = y /\ w \in Seq(T) /\ Len(w) = 2 /\ w[1] = y /\ w[2] = z
  BY Paired
<1>2. v \in Seq(T) /\ Len(v) = 1 /\ v[1] = z /\ <<x>> \in Seq(T)
  OBVIOUS
<1> HIDE DEF u, v, w
<1>3. r \in Seq(T) /\ Len(r) = 3 /\ r[1] = x /\ r[2] = y /\ r[3] = z
  <2>1. Joined(u, v, T)
    BY <1>1, <1>2, SequencesJoin
  <2>2. 1 \in 1..Len(u) /\ 2 \in 1..Len(u) /\ 1 \in 1..Len(v) /\ Len(u) + 1 = 3 /\ Len(u) + Len(v) = 3
    BY <1>1, <1>2
  <2>3. r[1] = u[1] /\ r[2] = u[2] /\ r[3] = v[1] /\ r \in Seq(T) /\ Len(r) = 3
    BY <2>1, <2>2 DEF Joined
  <2> QED BY <1>1, <1>2, <2>3
<1>4. s \in Seq(T) /\ Len(s) = 3 /\ s[1] = x /\ s[2] = y /\ s[3] = z
  <2> DEFINE q == <<x>>
  <2>1. q \in Seq(T) /\ Len(q) = 1 /\ q[1] = x
    OBVIOUS
  <2> HIDE DEF q
  <2>2. Joined(q, w, T)
    BY <1>1, <2>1, SequencesJoin
  <2>3. 1 \in 1..Len(q) /\ 1 \in 1..Len(w) /\ 2 \in 1..Len(w) /\ Len(q) + 1 = 2 /\ Len(q) + 2 = 3 /\ Len(q) + Len(w) = 3
    BY <1>1, <2>1
  <2>4. s[1] = q[1] /\ s[2] = w[1] /\ s[3] = w[2] /\ s \in Seq(T) /\ Len(s) = 3
    BY <2>2, <2>3 DEF Joined, q
  <2> QED BY <1>1, <2>1, <2>4
<1>5. <<x, y, z>> = t /\ t \in Seq(T)
  OBVIOUS
<1> HIDE DEF r, s
<1>6. r = <<r[1], r[2], r[3]>> /\ s = <<s[1], s[2], s[3]>>
  BY <1>3, <1>4
<1>7. r = <<x, y, z>> /\ s = <<x, y, z>>
  BY <1>3, <1>4, <1>6
<1> QED BY <1>5, <1>7 DEF r, s, u, v, w

(* With the token that follows.                                                *)
LEMMA KeptWithToken ==
    ASSUME NEW f, NEW r, NEW a \in Nat, NEW b \in Nat, NEW G, Kept(f, r, a, b, G),
           NEW c \in 1..Len(Source), c = b + 1
    PROVE  Kept(f, r \o <<Source[c]>>, a, c, G)
<1> DEFINE x == <<Source[c]>>
<1>1. Kept(f, x, c, c, {}) /\ c \in Nat
  BY TokenKept
<1> HIDE DEF x
<1>2. Kept(f, r \o x, a, c, G \cup {})
  BY <1>1, KeptJoin
<1>3. G \cup {} = G
  OBVIOUS
<1> QED BY <1>2, <1>3 DEF x

(* With line ends and comments in front or behind.                             *)
LEMMA KeptWithLayout ==
    ASSUME NEW f, NEW r, NEW a \in Nat, NEW b \in Nat, 1 <= a, NEW G, Kept(f, r, a, b, G),
           NEW l \in LayoutPieces
    PROVE  Kept(f, r \o l, a, b, G) /\ Kept(f, l \o r, a, b, G)
<1> DEFINE c == a - 1
           d == b + 1
<1>1. c \in Nat /\ d \in Nat /\ d = b + 1 /\ a = c + 1
  OBVIOUS
<1> HIDE DEF c, d
<1>2. Kept(f, l, a, c, {}) /\ Kept(f, l, d, b, {})
  BY <1>1, LayoutKept
<1>3. Kept(f, r \o l, a, b, G \cup {})
  BY <1>1, <1>2, KeptJoin
<1>4. Kept(f, l \o r, a, b, {} \cup G)
  BY <1>1, <1>2, KeptJoin
<1>5. G \cup {} = G /\ {} \cup G = G
  OBVIOUS
<1> QED BY <1>3, <1>4, <1>5

(* A comment on a line of its own is layout, with a blank line or without.     *)
LEMMA CommentLines ==
    ASSUME NEW l \in {<<>>, <<Newline>>}
    PROVE  /\ l \in LayoutPieces /\ <<Newline>> \in LayoutPieces
           /\ l \o <<Comment>> \o <<Newline>> \in LayoutPieces /\ l \o <<Comment, Newline>> \in LayoutPieces
<1> DEFINE c == <<Comment>>
           e == <<Newline>>
           x == <<Comment, Newline>>
<1>1. Comment \in Ink /\ Newline \in Ink
  BY DEF Ink
<1>2. c \in Seq(Ink) /\ e \in Seq(Ink) /\ x \in Seq(Ink)
  BY <1>1, Paired
<1>3. CASE l = <<>>
  <2>1. \A y \in Seq(Ink) : <<>> \o y = y
    OBVIOUS
  <2>2. l \o c = c /\ l \o x = x
    BY <1>2, <1>3, <2>1
  <2>3. c \o e = x
    BY <1>1, Paired
  <2> QED BY <1>3, <2>2, <2>3 DEF LayoutPieces
<1>4. CASE l = <<Newline>>
  <2>1. l \o c = <<Newline, Comment>> /\ l \o x = <<Newline, Comment, Newline>>
    <3>1. <<Newline>> \o c = <<Newline, Comment>>
      BY <1>1, Paired
    <3>2. <<Newline>> \o x = <<Newline, Comment, Newline>>
      BY <1>1, Tripled
    <3> QED BY <1>4, <3>1, <3>2
  <2>2. <<Newline, Comment>> \o e = <<Newline, Comment, Newline>>
    BY <1>1, Tripled
  <2>3. l \o c \o e = <<Newline, Comment, Newline>>
    BY <2>1, <2>2
  <2> QED BY <1>4, <2>1, <2>3 DEF LayoutPieces
<1> QED BY <1>3, <1>4

(* A blank line is one line end or none.                                       *)
LEMMA BlankLines == \A f, C, i : BlankLine(f, C, i) \in {<<>>, <<Newline>>}
  BY DEF BlankLine

(* A node's only child.                                                        *)
OnlyKid(n, k, from, to) ==
    /\ DOMAIN Node[n].kids = {1} /\ Node[n].kids # <<>> /\ Node[n].kids[1] = k
    /\ k \in DOMAIN Node /\ Node[k].first = from /\ Node[k].last = to
    /\ Below(n) = Sub(k)

(* It makes up the node.                                                       *)
LEMMA OneKid ==
    ASSUME NEW n \in DOMAIN Node, Len(Node[n].kids) = 1, NEW from, NEW to, NEW between,
           Tiled(Node[n].kids, between, from, to)
    PROVE  OnlyKid(n, Node[n].kids[1], from, to)
<1> DEFINE kids == Node[n].kids
<1>1. kids \in Seq(Nat) /\ Len(kids) = 1
  BY NodesPlaced DEF NodeFacts
<1>2. DOMAIN kids = {1} /\ kids # <<>>
  <2> HIDE DEF kids
  <2>1. DOMAIN kids = 1..Len(kids)
    BY <1>1
  <2>2. DOMAIN kids = {1}
    BY <1>1, <2>1
  <2>3. DOMAIN << >> = {}
    OBVIOUS
  <2> QED BY <2>2, <2>3
<1>3. kids[1] \in DOMAIN Node
  BY <1>2, NodesPlaced DEF NodeFacts
<1>4. Node[kids[1]].first = from /\ Node[kids[1]].last = to
  BY <1>1, <1>2 DEF Tiled
<1>5. Below(n) = Sub(kids[1])
  BY <1>2 DEF Below
<1> QED BY <1>2, <1>3, <1>4, <1>5 DEF OnlyKid

-------------------------------------------------------------------------------
(* A relation keeps its tokens.                                                *)
LEMMA RelationKept ==
    ASSUME NEW f \in Seq(Ink), Parses(f), NEW n \in DOMAIN Node, Node[n].kind = "relation_definition"
    PROVE  Kept(f, RenderRelation(f, n), Node[n].first, Node[n].last, Sub(n))
<1> DEFINE a == Node[n].first
           b == Node[n].last
           c == a + 1
           d == a + 2
           e == a + 3
           k == Node[n].kids[1]
           r == RenderExpr(f, k)
<1>1. RelationFits(n) /\ InSource(n)
  BY NodesFit, NodesInSource DEF NodeFits
<1>2. OnlyKid(n, k, e, b)
  BY <1>1, OneKid DEF RelationFits, ChildrenAre
<1>3. Node[k].kind \in RelationDef
  BY <1>1, <1>2 DEF RelationFits, ChildrenAre, OnlyKid
<1>4. InSource(k)
  BY <1>2, <1>3, NodesInSource DEF OnlyKid, RelationDef, Operand
<1>5. Kept(f, r, e, b, Below(n))
  BY <1>2, <1>3, ExpressionsKept DEF OnlyKid, ExprKinds
<1>6. Source[a] = "define" /\ Name(n) = <<Source[c]>> /\ Source[d] = ":"
  BY <1>1 DEF RelationFits, Name
<1>7. a \in 1..Len(Source) /\ a \in Nat /\ b \in Nat /\ Len(Source) \in Nat /\ e <= Len(Source)
  BY <1>1, <1>2, <1>4 DEF InSource, OnlyKid
<1>8. c \in 1..Len(Source) /\ d \in 1..Len(Source) /\ c = a + 1 /\ d = c + 1 /\ e = d + 1 /\ e \in Nat /\ d \in Nat /\ c \in Nat
  <2> HIDE DEF a
  <2> QED BY <1>7
<1> HIDE DEF a, b, c, d, e, r
<1>9. Kept(f, <<Source[a]>>, a, a, {})
  BY <1>7, TokenKept
<1>10. Kept(f, <<Source[a]>> \o <<Source[c]>>, a, c, {})
  BY <1>7, <1>8, <1>9, KeptWithToken
<1>11. Kept(f, <<Source[a]>> \o <<Source[c]>> \o <<Source[d]>>, a, d, {})
  BY <1>7, <1>8, <1>10, KeptWithToken
<1>12. Kept(f, <<Source[a]>> \o <<Source[c]>> \o <<Source[d]>> \o r, a, b, {} \cup Below(n))
  BY <1>5, <1>7, <1>8, <1>11, KeptJoin
<1>13. {} \cup Below(n) = Below(n)
  OBVIOUS
<1>14. RenderRelation(f, n) = <<Source[a]>> \o <<Source[c]>> \o <<Source[d]>> \o r
  BY <1>6 DEF RenderRelation, r, k
<1>15. Kept(f, RenderRelation(f, n), a, b, Below(n))
  BY <1>12, <1>13, <1>14
<1> QED BY <1>15, KeptWithSelf DEF a, b

(* So does a block of relations.                                               *)
LEMMA BlockKept ==
    ASSUME NEW f \in Seq(Ink), Parses(f), NEW n \in DOMAIN Node, Node[n].kind = "relations_block"
    PROVE  Kept(f, RenderBlock(f, n), Node[n].first, Node[n].last, Sub(n))
<1> DEFINE a == Node[n].first
           b == Node[n].last
           c == a + 1
           kids == Node[n].kids
           C == NamedChildren(f, n)
           line(x) == IF x.kind = "comment" THEN <<Comment>> ELSE RenderRelation(f, x.node)
           s == [i \in DOMAIN C |-> BlankLine(f, C, i) \o line(C[i]) \o <<Newline>>]
<1>1. BlockFits(n) /\ InSource(n)
  BY NodesFit, NodesInSource DEF NodeFits
<1>2. /\ \A j \in DOMAIN kids : kids[j] \in DOMAIN Node /\ Node[kids[j]].kind = "relation_definition"
      /\ Tiled(kids, <<>>, c, b) /\ Source[a] = "relations"
  BY <1>1, NodesPlaced DEF BlockFits, ChildrenAre, NodeFacts
<1>3. ChildrenListed(f, n)
  <2>1. <<>> \in Seq(STRING)
    OBVIOUS
  <2>2. KidsInOrder(kids)
    BY <1>2, <2>1, TilesInOrder
  <2> QED BY <2>2, NamedChildrenListed
<1>4. a \in 1..Len(Source) /\ a \in Nat /\ 1 <= a /\ b \in Nat /\ c \in Nat /\ c = a + 1 /\ 1 <= c
  BY <1>1 DEF InSource
<1>5. DOMAIN C = 1..Len(C)
  <2>1. C \in Seq(Children(f, n))
    BY <1>3 DEF ChildrenListed, Ordered
  <2> HIDE DEF C
  <2> QED BY <2>1
<1>6. ChildrenKept(f, n, s)
  <2>1. s = [i \in 1..Len(C) |-> s[i]] /\ \A i \in 1..Len(C) : s[i] = BlankLine(f, C, i) \o line(C[i]) \o <<Newline>>
    BY <1>5
  <2>2. ASSUME NEW i \in 1..Len(C), C[i].kind = "comment" PROVE s[i] \in LayoutPieces
    <3>1. s[i] = BlankLine(f, C, i) \o <<Comment>> \o <<Newline>>
      BY <2>1, <2>2
    <3> QED BY <3>1, BlankLines, CommentLines
  <2>3. ASSUME NEW i \in 1..Len(C), NEW j \in DOMAIN kids, C[i] = Kid(f, kids[j])
        PROVE  Kept(f, s[i], Node[kids[j]].first, Node[kids[j]].last, Sub(kids[j]))
    <3> DEFINE k == kids[j]
               r == RenderRelation(f, k)
               l == BlankLine(f, C, i)
    <3>1. k \in DOMAIN Node /\ Node[k].kind = "relation_definition" /\ C[i].kind = Node[k].kind /\ C[i].node = k
      BY <1>2, <2>3 DEF Kid
    <3>2. s[i] = l \o r \o <<Newline>>
      BY <2>1, <3>1
    <3>3. l \in LayoutPieces /\ <<Newline>> \in LayoutPieces
      BY BlankLines, CommentLines
    <3> HIDE DEF k, l
    <3>4. Kept(f, r, Node[k].first, Node[k].last, Sub(k)) /\ InSource(k)
      BY <3>1, RelationKept, NodesInSource
    <3> HIDE DEF r
    <3>5. Kept(f, l \o r, Node[k].first, Node[k].last, Sub(k))
      BY <3>3, <3>4, KeptWithLayout DEF InSource
    <3>6. Kept(f, l \o r \o <<Newline>>, Node[k].first, Node[k].last, Sub(k))
      BY <3>3, <3>4, <3>5, KeptWithLayout DEF InSource
    <3> QED BY <3>2, <3>6 DEF k
  <2> HIDE DEF s
  <2> QED BY <2>1, <2>2, <2>3 DEF ChildrenKept
<1>7. RenderBlock(f, n) = <<"relations", Newline>> \o FlattenSeq(s)
  BY DEF RenderBlock
<1> HIDE DEF s
<1>8. Kept(f, FlattenSeq(s), c, b, Below(n))
  <2>1. \A j \in DOMAIN kids : Node[kids[j]].kind # "comment"
    BY <1>2
  <2> HIDE DEF a, b, c
  <2> QED BY <1>2, <1>3, <1>4, <1>6, <2>1, ChildrenFlatten
<1>9. Kept(f, <<"relations", Newline>>, a, a, {})
  <2>1. Kept(f, <<Source[a]>>, a, a, {})
    BY <1>4, TokenKept
  <2>2. Kept(f, <<Source[a]>> \o <<Newline>>, a, a, {})
    BY <1>4, <2>1, KeptWithLayout, CommentLines
  <2>3. <<Source[a]>> \o <<Newline>> = <<"relations", Newline>>
    <3> DEFINE T == {"relations", Newline}
    <3>1. <<"relations">> \o <<Newline>> = <<"relations", Newline>>
      <4>1. "relations" \in T /\ Newline \in T
        OBVIOUS
      <4> HIDE DEF T
      <4> QED BY <4>1, Paired
    <3> QED BY <1>2, <3>1
  <2> QED BY <2>2, <2>3
<1> HIDE DEF a, b, c
<1>10. Kept(f, <<"relations", Newline>> \o FlattenSeq(s), a, b, {} \cup Below(n))
  BY <1>4, <1>8, <1>9, KeptJoin
<1>11. {} \cup Below(n) = Below(n)
  OBVIOUS
<1>12. Kept(f, RenderBlock(f, n), a, b, Below(n))
  BY <1>7, <1>10, <1>11
<1> QED BY <1>12, KeptWithSelf DEF a, b

(* And a type, with its block or without.                                      *)
LEMMA TypeKept ==
    ASSUME NEW f \in Seq(Ink), Parses(f), NEW n \in DOMAIN Node, Node[n].kind = "type_definition"
    PROVE  Kept(f, RenderType(f, n), Node[n].first, Node[n].last, Sub(n))
<1> DEFINE a == Node[n].first
           b == Node[n].last
           m == Node[n].name
           e == m + 1
           kids == Node[n].kids
           block == NamedChild(n, "relations_block")
           extend == IF Source[a] = "extend" THEN <<"extend">> ELSE <<>>
           head == extend \o <<"type">> \o Name(n)
           rest == IF block = NoNode THEN <<>> ELSE RenderBlock(f, block)
<1>1. TypeFits(n) /\ InSource(n) /\ kids \in Seq(Nat)
  BY NodesFit, NodesInSource, NodesPlaced DEF NodeFits, NodeFacts
<1>2. a \in Nat /\ b \in Nat /\ m \in Nat /\ a \in 1..Len(Source) /\ 1 <= a /\ b <= Len(Source) /\ Len(Source) \in Nat
  BY <1>1, NodesPlaced DEF InSource, NodeFacts
<1>3. RenderType(f, n) = head \o <<Newline>> \o rest
  BY DEF RenderType
<1>4. e \in Nat /\ e = m + 1
  BY <1>2
<1>5. Kept(f, rest, e, b, Below(n)) /\ m \in 1..Len(Source)
  <2>1. CASE kids = <<>>
    <3>1. e = b + 1 /\ DOMAIN kids = {}
      BY <1>1, <2>1 DEF TypeFits, ChildrenAre, Tiled
    <3>2. block = NoNode /\ Below(n) = {}
      BY <3>1, NamedChildIs DEF Below
    <3>3. <<>> \in LayoutPieces
      BY DEF LayoutPieces
    <3>4. m \in 1..Len(Source)
      <4>1. a <= m
        BY <1>1, <1>2 DEF TypeFits
      <4> HIDE DEF a, b, m
      <4> QED BY <1>2, <1>4, <3>1, <4>1
    <3>5. rest = <<>>
      BY <3>2
    <3> HIDE DEF rest, a, b, m, e
    <3>6. Kept(f, rest, e, b, {})
      BY <1>2, <1>4, <3>1, <3>3, <3>5, LayoutKept
    <3> QED BY <3>2, <3>4, <3>6
  <2>2. CASE kids # <<>>
    <3>1. Len(kids) = 1
      <4>1. Len(kids) <= 1
        BY <1>1 DEF TypeFits
      <4> HIDE DEF kids
      <4>2. Len(kids) \in Nat /\ Len(kids) # 0
        BY <1>1, <2>2
      <4>3. \A z \in Nat : z # 0 /\ z <= 1 => z = 1
        OBVIOUS
      <4> QED BY <4>1, <4>2, <4>3
    <3>2. OnlyKid(n, kids[1], e, b) /\ Node[kids[1]].kind = "relations_block"
      <4>1. OnlyKid(n, kids[1], e, b)
        BY <1>1, <3>1, OneKid DEF TypeFits, ChildrenAre
      <4> QED BY <1>1, <4>1 DEF TypeFits, ChildrenAre, OnlyKid
    <3>3. block = kids[1]
      <4>1. 1 \in DOMAIN kids /\ DOMAIN kids = {1} /\ KindsOf(n)[1] = "relations_block"
        BY <3>2 DEF OnlyKid, KindsOf
      <4>2. \A j \in DOMAIN kids : KindsOf(n)[j] = "relations_block" <=> j = 1
        BY <4>1
      <4> QED BY <4>1, <4>2, NamedChildIs
    <3>4. kids[1] # NoNode
      <4>1. n < kids[1] /\ n \in Nat /\ kids[1] \in Nat
        BY <3>2, NodesPlaced DEF OnlyKid, NodeFacts
      <4> QED BY <4>1 DEF NoNode
    <3>5. Kept(f, rest, e, b, Below(n)) /\ InSource(kids[1])
      BY <3>2, <3>3, <3>4, BlockKept, NodesInSource DEF OnlyKid
    <3>6. m \in 1..Len(Source)
      <4>1. a <= m /\ e <= Len(Source)
        BY <1>1, <1>2, <3>2, <3>5 DEF TypeFits, InSource, OnlyKid
      <4> HIDE DEF a, b, m
      <4> QED BY <1>2, <1>4, <4>1
    <3> QED BY <3>5, <3>6
  <2> QED BY <2>1, <2>2
<1>6. Kept(f, head, a, m, {})
  <2>1. CASE m = a + 1 /\ Source[a] = "type"
    <3>1. extend = <<>>
      BY <2>1
    <3>2. Kept(f, <<Source[a]>>, a, a, {})
      BY <1>2, TokenKept
    <3>3. Kept(f, <<Source[a]>> \o <<Source[m]>>, a, m, {})
      BY <1>2, <1>5, <2>1, <3>2, KeptWithToken
    <3>4. head = <<Source[a]>> \o <<Source[m]>>
      <4>1. <<>> \o <<"type">> = <<"type">>
        OBVIOUS
      <4> QED BY <2>1, <3>1, <4>1 DEF Name
    <3> QED BY <3>3, <3>4
  <2>2. CASE m = a + 2 /\ Source[a] = "extend" /\ Source[a + 1] = "type"
    <3> DEFINE c == a + 1
    <3>1. c \in 1..Len(Source) /\ c = a + 1 /\ m = c + 1 /\ c \in Nat /\ Source[c] = "type"
      <4> HIDE DEF a, m
      <4> QED BY <1>2, <1>5, <2>2
    <3>2. Kept(f, <<Source[a]>>, a, a, {})
      BY <1>2, TokenKept
    <3> HIDE DEF c
    <3>3. Kept(f, <<Source[a]>> \o <<Source[c]>>, a, c, {})
      BY <1>2, <3>1, <3>2, KeptWithToken
    <3>4. Kept(f, <<Source[a]>> \o <<Source[c]>> \o <<Source[m]>>, a, m, {})
      BY <1>2, <1>5, <3>1, <3>3, KeptWithToken
    <3> QED BY <2>2, <3>1, <3>4 DEF Name
  <2> QED BY <1>1, <2>1, <2>2 DEF TypeFits
<1> HIDE DEF head, rest, a, b, e, m
<1>7. Kept(f, head \o <<Newline>>, a, m, {})
  BY <1>2, <1>6, KeptWithLayout, CommentLines
<1>8. Kept(f, head \o <<Newline>> \o rest, a, b, {} \cup Below(n))
  BY <1>2, <1>4, <1>5, <1>7, KeptJoin
<1>9. {} \cup Below(n) = Below(n)
  OBVIOUS
<1>10. Kept(f, RenderType(f, n), a, b, Below(n))
  BY <1>3, <1>8, <1>9
<1> QED BY <1>10, KeptWithSelf DEF a, b

-------------------------------------------------------------------------------
(* A parameter of a condition keeps its tokens.                                *)
RenderParameter(f, n) == Name(n) \o <<":">> \o Raw(f, Node[n].kids[1])

LEMMA ParameterKept ==
    ASSUME NEW f \in Seq(Ink), Parses(f), NEW n \in DOMAIN Node, Node[n].kind = "parameter"
    PROVE  Kept(f, RenderParameter(f, n), Node[n].first, Node[n].last, Sub(n))
<1> DEFINE a == Node[n].first
           b == Node[n].last
           c == a + 1
           d == a + 2
           k == Node[n].kids[1]
           r == Raw(f, k)
<1>1. ParameterFits(n) /\ InSource(n)
  BY NodesFit, NodesInSource DEF NodeFits
<1>2. OnlyKid(n, k, d, b) /\ Node[k].kind = "parameter_type"
  <2>1. OnlyKid(n, k, d, b)
    BY <1>1, OneKid DEF ParameterFits, ChildrenAre
  <2> QED BY <1>1, <2>1 DEF ParameterFits, ChildrenAre, OnlyKid
<1>3. InSource(k) /\ k \in DOMAIN Node
  BY <1>2, NodesInSource DEF OnlyKid
<1>4. Kept(f, r, d, b, Below(n))
  <2>1. Kept(f, r, Node[k].first, Node[k].last, {})
    BY <1>3, RawKept DEF InSource, Raw
  <2>2. Node[k].kids = <<>>
    BY <1>2, <1>3, NodesFit DEF NodeFits
  <2>3. Kept(f, r, Node[k].first, Node[k].last, Sub(k))
    BY <1>2, <1>3, <2>1, <2>2, LeafKept
  <2> QED BY <1>2, <2>3 DEF OnlyKid
<1>5. a \in 1..Len(Source) /\ a \in Nat /\ b \in Nat /\ d <= Len(Source) /\ Len(Source) \in Nat
  BY <1>1, <1>2, <1>3 DEF InSource, OnlyKid
<1>6. c \in 1..Len(Source) /\ c \in Nat /\ d \in Nat /\ c = a + 1 /\ d = c + 1
  <2> HIDE DEF a
  <2> QED BY <1>5
<1>7. Name(n) = <<Source[a]>> /\ Source[c] = ":"
  BY <1>1 DEF ParameterFits, Name
<1> HIDE DEF a, b, c, d, r
<1>8. Kept(f, <<Source[a]>>, a, a, {})
  BY <1>5, TokenKept
<1>9. Kept(f, <<Source[a]>> \o <<Source[c]>>, a, c, {})
  BY <1>5, <1>6, <1>8, KeptWithToken
<1>10. Kept(f, <<Source[a]>> \o <<Source[c]>> \o r, a, b, {} \cup Below(n))
  BY <1>4, <1>5, <1>6, <1>9, KeptJoin
<1>11. {} \cup Below(n) = Below(n)
  OBVIOUS
<1>12. RenderParameter(f, n) = <<Source[a]>> \o <<Source[c]>> \o r
  BY <1>7 DEF RenderParameter, r, k
<1>13. Kept(f, RenderParameter(f, n), a, b, Below(n))
  BY <1>10, <1>11, <1>12
<1> QED BY <1>13, KeptWithSelf DEF a, b

(* So does a condition; there are five tokens in it besides its parameters.    *)
LEMMA ConditionKept ==
    ASSUME NEW f \in Seq(Ink), Parses(f), NEW n \in DOMAIN Node, Node[n].kind = "condition"
    PROVE  Kept(f, RenderCondition(f, n), Node[n].first, Node[n].last, Sub(n))
<1> DEFINE a == Node[n].first
           b == Node[n].last
           c == a + 1
           d == a + 2
           from == a + 3
           to == b - 2
           y == b - 1
           kids == Node[n].kids
           parts == [i \in DOMAIN kids |-> RenderParameter(f, kids[i])]
           r == Join(parts, <<",">>)
           text == <<Source[a]>> \o <<Source[c]>> \o <<Source[d]>> \o r
<1>1. ConditionFits(n) /\ InSource(n) /\ kids \in Seq(Nat)
  BY NodesFit, NodesInSource, NodesPlaced DEF NodeFits, NodeFacts
<1>2. /\ \A j \in DOMAIN kids : kids[j] \in DOMAIN Node /\ Node[kids[j]].kind = "parameter" /\ InSource(kids[j])
      /\ Tiled(kids, <<",">>, from, to)
  <2>1. \A j \in DOMAIN kids : kids[j] \in DOMAIN Node /\ Node[kids[j]].kind = "parameter"
    BY <1>1, NodesPlaced DEF ConditionFits, ChildrenAre, NodeFacts
  <2>2. \A j \in DOMAIN kids : InSource(kids[j])
    BY <2>1, NodesInSource
  <2> QED BY <1>1, <2>1, <2>2 DEF ConditionFits, ChildrenAre
<1>3. a \in 1..Len(Source) /\ a \in Nat /\ b \in 1..Len(Source) /\ b \in Nat /\ Len(Source) \in Nat
  BY <1>1 DEF InSource
<1>4. from <= Len(Source) /\ to \in Nat
  <2>1. CASE kids = <<>>
    <3>1. from = to + 1
      BY <1>2, <2>1 DEF Tiled
    <3> HIDE DEF a, b
    <3> QED BY <1>3, <3>1
  <2>2. CASE kids # <<>>
    <3>1. Node[kids[1]].first = from /\ Node[kids[Len(kids)]].last = to
      BY <1>2, <2>2 DEF Tiled
    <3>2. 1 \in DOMAIN kids /\ Len(kids) \in DOMAIN kids
      <4> HIDE DEF kids
      <4> QED BY <1>1, <2>2
    <3>3. InSource(kids[1]) /\ InSource(kids[Len(kids)])
      BY <1>2, <3>2
    <3>4. Node[kids[1]].first <= Len(Source) /\ Node[kids[Len(kids)]].last \in Nat
      BY <3>3 DEF InSource
    <3> QED BY <3>1, <3>4
  <2> QED BY <2>1, <2>2
<1>5. /\ c \in 1..Len(Source) /\ d \in 1..Len(Source) /\ y \in 1..Len(Source)
      /\ c \in Nat /\ d \in Nat /\ from \in Nat /\ y \in Nat /\ 1 <= from
      /\ c = a + 1 /\ d = c + 1 /\ from = d + 1 /\ y = to + 1 /\ b = y + 1
  <2> HIDE DEF a, b
  <2> QED BY <1>3, <1>4
<1>6. PartsKept(f, n, parts)
  <2>1. DOMAIN parts = DOMAIN kids /\ \A i \in DOMAIN kids : parts[i] = RenderParameter(f, kids[i])
    OBVIOUS
  <2> HIDE DEF parts
  <2>2. \A i \in DOMAIN kids : Kept(f, RenderParameter(f, kids[i]), Node[kids[i]].first, Node[kids[i]].last, Sub(kids[i]))
    BY <1>2, ParameterKept
  <2> QED BY <2>1, <2>2 DEF PartsKept
<1>7. /\ Source[a] = "condition" /\ Name(n) = <<Source[c]>> /\ Source[d] = "("
      /\ Source[y] = ")" /\ Source[b] = Braces
  BY <1>1 DEF ConditionFits, Name
<1>8. RenderCondition(f, n) = <<"condition">> \o Name(n) \o <<"(">> \o r \o <<")", Braces, Newline>>
  BY DEF RenderCondition, RenderParameter
<1> HIDE DEF parts
<1>9. Kept(f, r, from, to, Below(n))
  <2> HIDE DEF from, to
  <2> QED BY <1>2, <1>4, <1>5, <1>6, JoinKept
<1> HIDE DEF a, b, c, d, from, to, y, r
<1>10. Kept(f, <<Source[a]>>, a, a, {})
  BY <1>3, TokenKept
<1>11. Kept(f, <<Source[a]>> \o <<Source[c]>>, a, c, {})
  BY <1>3, <1>5, <1>10, KeptWithToken
<1>12. Kept(f, <<Source[a]>> \o <<Source[c]>> \o <<Source[d]>>, a, d, {})
  BY <1>3, <1>5, <1>11, KeptWithToken
<1>13. Kept(f, text, a, to, Below(n))
  <2>1. Kept(f, text, a, to, {} \cup Below(n))
    BY <1>3, <1>4, <1>5, <1>9, <1>12, KeptJoin
  <2>2. {} \cup Below(n) = Below(n)
    OBVIOUS
  <2> HIDE DEF text
  <2> QED BY <2>1, <2>2
<1>14. Kept(f, <<")", Braces, Newline>>, y, b, {})
  <2>1. Kept(f, <<Source[y], Source[b]>>, y, b, {})
    BY <1>3, <1>5, PairKept
  <2>2. Kept(f, <<Source[y], Source[b]>> \o <<Newline>>, y, b, {})
    BY <1>3, <1>5, <2>1, KeptWithLayout, CommentLines
  <2>3. <<Source[y], Source[b]>> \o <<Newline>> = <<Source[y], Source[b], Newline>>
    <3> DEFINE T == {Source[y], Source[b], Newline}
    <3>1. Source[y] \in T /\ Source[b] \in T /\ Newline \in T
      OBVIOUS
    <3> HIDE DEF T
    <3> QED BY <3>1, Tripled
  <2> QED BY <1>7, <2>2, <2>3
<1> HIDE DEF text
<1>15. Kept(f, text \o <<")", Braces, Newline>>, a, b, Below(n) \cup {})
  BY <1>3, <1>4, <1>5, <1>13, <1>14, KeptJoin
<1>16. Below(n) \cup {} = Below(n)
  OBVIOUS
<1>17. RenderCondition(f, n) = text \o <<")", Braces, Newline>>
  BY <1>7, <1>8 DEF text
<1>18. Kept(f, RenderCondition(f, n), a, b, Below(n))
  BY <1>15, <1>16, <1>17
<1> QED BY <1>18, KeptWithSelf DEF a, b

(* And the line a file begins with.                                            *)
LEMMA HeaderKept ==
    ASSUME NEW f, NEW n \in DOMAIN Node, Node[n].kind \in {"model_header", "module_header"}, NEW c,
           c.kind = Node[n].kind, c.node = n
    PROVE  Kept(f, RenderTopLevel(f, c), Node[n].first, Node[n].last, Sub(n))
<1> DEFINE a == Node[n].first
           b == Node[n].last
           d == a + 1
           eol == <<Newline>>
<1>1. Grammar(n) /\ InSource(n) /\ Node[n].kids = <<>>
  BY SyntaxAssumption, NodesInSource, NodesFit DEF NodeFits
<1>2. a \in 1..Len(Source) /\ b \in 1..Len(Source) /\ a \in Nat /\ b \in Nat /\ 1 <= a /\ Len(Source) \in Nat
  BY <1>1 DEF InSource
<1>3. eol \in LayoutPieces
  BY CommentLines
<1>4. CASE Node[n].kind = "model_header"
  <2>1. Node[n].name = b /\ b = a + 2 /\ Source[a] = "model" /\ Source[d] = "schema"
    BY <1>1, <1>4 DEF Grammar
  <2>2. d \in 1..Len(Source) /\ d \in Nat /\ d = a + 1 /\ b = d + 1
    <3> HIDE DEF a, b
    <3> QED BY <1>2, <2>1
  <2>3. RenderTopLevel(f, c) = <<"model", Newline, "schema">> \o <<Source[b]>> \o eol
    BY <1>4, <2>1 DEF RenderTopLevel, Name
  <2> HIDE DEF a, b, d, eol
  <2>4. Kept(f, <<Source[a]>>, a, a, {})
    BY <1>2, TokenKept
  <2>5. Kept(f, <<Source[a]>> \o eol, a, a, {})
    BY <1>2, <1>3, <2>4, KeptWithLayout
  <2>6. Kept(f, <<Source[a]>> \o eol \o <<Source[d]>>, a, d, {})
    BY <1>2, <2>2, <2>5, KeptWithToken
  <2>7. Kept(f, <<Source[a]>> \o eol \o <<Source[d]>> \o <<Source[b]>>, a, b, {})
    BY <1>2, <2>2, <2>6, KeptWithToken
  <2>8. Kept(f, <<Source[a]>> \o eol \o <<Source[d]>> \o <<Source[b]>> \o eol, a, b, {})
    BY <1>2, <1>3, <2>7, KeptWithLayout
  <2>9. <<Source[a]>> \o eol \o <<Source[d]>> = <<Source[a], Newline, Source[d]>>
    <3> DEFINE x == Source[a]
               y == Source[d]
               T == {x, Newline, y}
    <3>1. x \in T /\ Newline \in T /\ y \in T
      OBVIOUS
    <3> HIDE DEF T, x, y
    <3>2. <<x>> \o <<Newline>> = <<x, Newline>>
      BY <3>1, Paired
    <3>3. /\ <<x, Newline, y>> \in Seq(T)
          /\ <<x, Newline>> \o <<y>> = <<x, Newline, y>> /\ <<x>> \o <<Newline, y>> = <<x, Newline, y>>
      BY <3>1, Tripled
    <3> QED BY <3>2, <3>3 DEF eol, x, y
  <2>10. Kept(f, RenderTopLevel(f, c), a, b, {})
    BY <2>1, <2>3, <2>8, <2>9
  <2> QED BY <1>1, <1>4, <2>10, LeafKept DEF a, b
<1>5. CASE Node[n].kind = "module_header"
  <2>1. Node[n].name = b /\ b = a + 1 /\ Source[a] = "module"
    BY <1>1, <1>5 DEF Grammar
  <2>2. RenderTopLevel(f, c) = <<Source[a]>> \o <<Source[b]>> \o eol
    BY <1>5, <2>1 DEF RenderTopLevel, Name
  <2> HIDE DEF a, b, eol
  <2>3. Kept(f, <<Source[a]>>, a, a, {})
    BY <1>2, TokenKept
  <2>4. Kept(f, <<Source[a]>> \o <<Source[b]>>, a, b, {})
    BY <1>2, <2>1, <2>3, KeptWithToken
  <2>5. Kept(f, <<Source[a]>> \o <<Source[b]>> \o eol, a, b, {})
    BY <1>2, <1>3, <2>4, KeptWithLayout
  <2>6. Kept(f, RenderTopLevel(f, c), a, b, {})
    BY <2>2, <2>5
  <2> QED BY <1>1, <1>5, <2>6, LeafKept DEF a, b
<1> QED BY <1>4, <1>5

-------------------------------------------------------------------------------
(* What is written at the top level, comments apart.                           *)
TopKinds == {"model_header", "module_header", "type_definition", "condition"}

LEMMA TopLevelKept ==
    ASSUME NEW f \in Seq(Ink), Parses(f), NEW n \in DOMAIN Node, Node[n].kind \in TopKinds
    PROVE  Kept(f, RenderTopLevel(f, Kid(f, n)), Node[n].first, Node[n].last, Sub(n))
<1> DEFINE c == Kid(f, n)
<1>1. c.kind = Node[n].kind /\ c.node = n
  BY DEF Kid
<1> HIDE DEF c
<1>2. CASE Node[n].kind \in {"model_header", "module_header"}
  BY <1>1, <1>2, HeaderKept DEF c
<1>3. CASE Node[n].kind = "type_definition"
  <2>1. RenderTopLevel(f, c) = RenderType(f, n)
    BY <1>1, <1>3 DEF RenderTopLevel
  <2> QED BY <1>3, <2>1, TypeKept DEF c
<1>4. CASE Node[n].kind = "condition"
  <2>1. RenderTopLevel(f, c) = RenderCondition(f, n)
    BY <1>1, <1>4 DEF RenderTopLevel
  <2> QED BY <1>4, <2>1, ConditionKept DEF c
<1> QED BY <1>2, <1>3, <1>4 DEF TopKinds

(* A file that is formatted keeps its tokens in order, unless one of its       *)
(* groups begins with a comment: then it loses some.                           *)
LEMMA FormatKept ==
    ASSUME NEW f \in Seq(Ink), Parses(f)
    PROVE  Kept(f, Format(f), 1, Len(Source), DOMAIN Node)
<1> DEFINE kids == Node[Root].kids
           C == NamedChildren(f, Root)
           s == [i \in DOMAIN C |-> BlankLine(f, C, i) \o RenderTopLevel(f, C[i])]
           z == Len(Source)
<1>1. Root \in DOMAIN Node /\ Node[Root].kind = "source_file"
  BY SyntaxAssumption
<1>2. FileFits(Root)
  BY <1>1, NodesFit DEF NodeFits
<1>3. /\ \A j \in DOMAIN kids : kids[j] \in DOMAIN Node /\ Node[kids[j]].kind \in TopKinds
      /\ Tiled(kids, <<>>, 1, z)
  BY <1>1, <1>2, NodesPlaced DEF FileFits, ChildrenAre, TopKinds, NodeFacts
<1>4. ChildrenListed(f, Root)
  <2>1. <<>> \in Seq(STRING)
    OBVIOUS
  <2>2. KidsInOrder(kids)
    BY <1>1, <1>3, <2>1, TilesInOrder
  <2> QED BY <1>1, <2>2, NamedChildrenListed
<1>5. DOMAIN C = 1..Len(C)
  <2>1. C \in Seq(Children(f, Root))
    BY <1>4 DEF ChildrenListed, Ordered
  <2> HIDE DEF C
  <2> QED BY <2>1
<1>6. ChildrenKept(f, Root, s)
  <2>1. s = [i \in 1..Len(C) |-> s[i]] /\ \A i \in 1..Len(C) : s[i] = BlankLine(f, C, i) \o RenderTopLevel(f, C[i])
    BY <1>5
  <2>2. ASSUME NEW i \in 1..Len(C), C[i].kind = "comment" PROVE s[i] \in LayoutPieces
    <3>1. RenderTopLevel(f, C[i]) = <<Comment, Newline>>
      BY <2>2 DEF RenderTopLevel
    <3>2. s[i] = BlankLine(f, C, i) \o <<Comment, Newline>>
      BY <2>1, <3>1
    <3> QED BY <3>2, BlankLines, CommentLines
  <2>3. ASSUME NEW i \in 1..Len(C), NEW j \in DOMAIN kids, C[i] = Kid(f, kids[j])
        PROVE  Kept(f, s[i], Node[kids[j]].first, Node[kids[j]].last, Sub(kids[j]))
    <3> DEFINE k == kids[j]
               r == RenderTopLevel(f, Kid(f, k))
               l == BlankLine(f, C, i)
    <3>1. k \in DOMAIN Node /\ Node[k].kind \in TopKinds
      BY <1>3
    <3>2. s[i] = l \o r
      BY <2>1, <2>3
    <3>3. l \in LayoutPieces
      BY BlankLines, CommentLines
    <3> HIDE DEF k, l
    <3>4. Kept(f, r, Node[k].first, Node[k].last, Sub(k)) /\ InSource(k)
      BY <3>1, TopLevelKept, NodesInSource DEF TopKinds
    <3> HIDE DEF r
    <3>5. Kept(f, l \o r, Node[k].first, Node[k].last, Sub(k))
      BY <3>3, <3>4, KeptWithLayout DEF InSource
    <3> QED BY <3>2, <3>5 DEF k
  <2> HIDE DEF s
  <2> QED BY <2>1, <2>2, <2>3 DEF ChildrenKept
<1>7. Format(f) = FlattenSeq(s)
  BY DEF Format
<1> HIDE DEF s
<1>8. Kept(f, FlattenSeq(s), 1, z, Below(Root))
  <2>1. \A j \in DOMAIN kids : Node[kids[j]].kind # "comment"
    BY <1>3 DEF TopKinds
  <2>2. z \in Nat
    BY SourceTyped
  <2> DEFINE a == 1
  <2>3. a \in Nat /\ 1 <= a /\ Tiled(kids, <<>>, a, z)
    BY <1>3
  <2> HIDE DEF a, z
  <2>4. Kept(f, FlattenSeq(s), a, z, Below(Root))
    BY <1>1, <1>4, <1>6, <2>1, <2>2, <2>3, ChildrenFlatten
  <2> QED BY <2>4 DEF a
<1>9. Kept(f, FlattenSeq(s), 1, z, Sub(Root))
  BY <1>1, <1>8, KeptWithSelf
<1> QED BY <1>7, <1>9, AllUnderRoot

(* Formatting a file.                                                          *)
LEMMA FormatParses ==
    ASSUME NEW f \in Seq(Ink), Parses(f)
    PROVE  Format(f) \in Seq(Ink) /\ (Parses(Format(f)) <=> ~GroupOpensWithComment(f))
<1>1. GroupOpensWithComment(f) <=> Broken(f, DOMAIN Node)
  BY DEF GroupOpensWithComment, Broken, Opens
<1> QED BY <1>1, FormatKept, KeptParses

-------------------------------------------------------------------------------
(* One member more in a sequence.                                              *)
LEMMA Inserted ==
    ASSUME NEW T, NEW s \in Seq(T), NEW p \in 1..(Len(s) + 1), NEW x \in T
    PROVE  InsertAt(s, p, x) \in Seq(T) /\ Len(InsertAt(s, p, x)) = Len(s) + 1
<1> DEFINE u == SubSeq(s, 1, p - 1)
           v == SubSeq(s, p, Len(s))
           o == <<x>>
<1>1. u \in Seq(T) /\ Len(u) = p - 1 /\ v \in Seq(T) /\ Len(v) = Len(s) + 1 - p /\ o \in Seq(T) /\ Len(o) = 1
  <2>1. u \in Seq(T) /\ Len(u) = p - 1
    OBVIOUS
  <2>2. v \in Seq(T) /\ Len(v) = Len(s) + 1 - p
    OBVIOUS
  <2> QED BY <2>1, <2>2
<1>2. InsertAt(s, p, x) = u \o o \o v
  BY DEF InsertAt
<1> HIDE DEF u, v, o
<1> DEFINE t == u \o o
<1>3. t \in Seq(T) /\ Len(t) = p
  <2>1. Joined(u, o, T)
    BY <1>1, SequencesJoin
  <2>2. Len(t) = Len(u) + 1
    BY <1>1, <2>1 DEF Joined
  <2>3. Len(u) + 1 = p
    BY <1>1
  <2> QED BY <2>1, <2>2, <2>3 DEF Joined
<1>4. t \o v \in Seq(T) /\ Len(t \o v) = Len(s) + 1
  <2> HIDE DEF t
  <2>1. Joined(t, v, T)
    BY <1>1, <1>3, SequencesJoin
  <2>2. Len(t \o v) = p + (Len(s) + 1 - p)
    BY <1>1, <1>3, <2>1 DEF Joined
  <2>3. Len(s) \in Nat /\ p \in Nat
    OBVIOUS
  <2>4. p + (Len(s) + 1 - p) = Len(s) + 1
    BY <2>3
  <2> QED BY <2>1, <2>2, <2>4 DEF Joined
<1> QED BY <1>2, <1>4

(* And one less.                                                               *)
LEMMA Removed ==
    ASSUME NEW T, NEW s \in Seq(T), NEW p \in DOMAIN s
    PROVE  RemoveAt(s, p) \in Seq(T)
<1> DEFINE u == SubSeq(s, 1, p - 1)
           v == SubSeq(s, p + 1, Len(s))
<1>1. u \in Seq(T) /\ v \in Seq(T)
  OBVIOUS
<1>2. RemoveAt(s, p) = u \o v
  BY DEF RemoveAt
<1> HIDE DEF u, v
<1> QED BY <1>1, <1>2

(* Files are made of tokens, line ends and comments, however they are edited   *)
(* and formatted.                                                              *)
THEOREM FilesAreTexts == FormatterSpec => []FileOK
<1>1. ASSUME FormatterInit PROVE FileOK
  <2>1. FirstFile \in Seq(Ink)
    BY SyntaxAssumption DEF Ink
  <2> QED BY <1>1, <2>1 DEF FormatterInit, FileOK
<1>2. ASSUME FileOK, [FormatterNext]_formatterVars PROVE FileOK'
  <2>1. file \in Seq(Ink) /\ Newline \in Ink /\ Comment \in Ink
    BY <1>2 DEF FileOK, Ink
  <2>2. CASE BreakLine
    <3>1. PICK p \in 1..(Len(file) + 1) : file' = InsertAt(file, p, Newline)
      BY <2>2 DEF BreakLine
    <3> QED BY <2>1, <3>1, Inserted DEF FileOK, Ink
  <2>3. CASE JoinLines
    <3>1. PICK p \in DOMAIN file : file' = RemoveAt(file, p)
      BY <2>3 DEF JoinLines
    <3>2. RemoveAt(file, p) \in Seq(Ink)
      BY <2>1, Removed
    <3> QED BY <3>1, <3>2 DEF FileOK, Ink
  <2>4. CASE WriteComment
    <3>1. PICK p \in 1..(Len(file) + 1) : file' = InsertAt(InsertAt(file, p, Newline), p, Comment)
      BY <2>4 DEF WriteComment
    <3> DEFINE t == InsertAt(file, p, Newline)
    <3>2. t \in Seq(Ink) /\ Len(t) = Len(file) + 1
      BY <2>1, Inserted
    <3>3. p \in 1..(Len(t) + 1)
      <4>1. Len(file) \in Nat
        BY <2>1
      <4> QED BY <3>2, <4>1
    <3> HIDE DEF t
    <3>4. InsertAt(t, p, Comment) \in Seq(Ink)
      BY <2>1, <3>2, <3>3, Inserted
    <3> QED BY <3>1, <3>4 DEF FileOK, Ink, t
  <2>5. CASE FormatFile
    <3>1. Parses(file) /\ file' = Format(file)
      BY <2>5 DEF FormatFile
    <3>2. Format(file) \in Seq(Ink)
      BY <2>1, <3>1, FormatParses
    <3> QED BY <3>1, <3>2 DEF FileOK, Ink
  <2>6. CASE BreakBodyLine \/ IndentBodyLine \/ UNCHANGED formatterVars
    <3>1. file' = file
      BY <2>6 DEF BreakBodyLine, IndentBodyLine, formatterVars
    <3> QED BY <2>1, <3>1 DEF FileOK, Ink
  <2> QED BY <1>2, <2>2, <2>3, <2>4, <2>5, <2>6 DEF FormatterNext
<1> QED BY <1>1, <1>2, PTL DEF FormatterSpec

(* Formatting keeps every token of the model, in order, wherever lines are     *)
(* broken and comments are put; only in a file with a group that begins with a *)
(* comment it loses some, and that file is always broken.                      *)
THEOREM FormatterKeepsModels == FormatterSpec => FormattingKeepsTheModel
<1>1. ASSUME FileOK PROVE FormatFile => (Parses(file') <=> ~GroupOpensWithComment(file))
  <2>1. SUFFICES ASSUME FormatFile PROVE Parses(file') <=> ~GroupOpensWithComment(file)
    OBVIOUS
  <2>2. Parses(file) /\ file' = Format(file) /\ file \in Seq(Ink)
    BY <1>1, <2>1 DEF FormatFile, FileOK
  <2> QED BY <2>2, FormatParses
<1>2. FileOK => [FormatFile => (Parses(file') <=> ~GroupOpensWithComment(file))]_formatterVars
  BY <1>1
<1> QED BY <1>2, FilesAreTexts, PTL DEF FormattingKeepsTheModel
================================================================================
