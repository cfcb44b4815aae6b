----------------------------- MODULE FeatureProofs -----------------------------
(* What editors are offered and told, whatever the names and the texts are:    *)
(* completion offers the names that fit after every prefix; fuzzy search and   *)
(* suggestions measure what they say; positions lead back to the characters    *)
(* they came from, and the range of a value is exactly its.                    *)
EXTENDS Completion, Spelling, WorkspaceProofs

-------------------------------------------------------------------------------
(* Somebody types a line of a model whose names may be any.                    *)
CompletionSpec == CompletionInit /\ [][CompletionNext]_<<place, prefix>>

Tokens == TypedNames \cup Punctuation

(* The states of the parser, and those between brackets.                       *)
Bracketed == {"restrictions", "restriction", "type", "userset", "suffixed", "wildcard", "condition", "restricted"}
States == {"first", "second", "relation", "tupleset", "operand"} \cup Bracketed

(* What completion takes for the state of the parser after a prefix: whether a *)
(* bracket is open, and the token before the cursor.                           *)
Guessed(at, p) ==
    /\ at \in States
    /\ at \in Bracketed <=> OpenBracket(p)
    /\ at = "first" => After(p) \in {":", "("}
    /\ at = "second" => After(p) \in Operators
    /\ at = "tupleset" => After(p) = "from"
    /\ at = "userset" => After(p) = "#"
    /\ at = "condition" => After(p) = "with"
    /\ at = "restrictions" => After(p) = "["
    /\ at = "restriction" => After(p) = ","

-------------------------------------------------------------------------------
(* Brackets do not nest: the last one counts.                                  *)
LEMMA Brackets ==
    ASSUME NEW p \in Seq(Tokens), NEW token \in Tokens
    PROVE  /\ OpenBracket(Append(p, token)) <=> token = "[" \/ (OpenBracket(p) /\ token # "]")
           /\ After(Append(p, token)) = token
<1> DEFINE q == Append(p, token)
           n == Len(p)
<1>1. /\ n \in Nat /\ DOMAIN p = 1..n /\ Len(q) = n + 1 /\ DOMAIN q = 1..(n + 1)
      /\ q[n + 1] = token /\ \A i \in 1..n : q[i] = p[i]
  OBVIOUS
<1>2. After(q) = token
  <2>1. q # <<>>
    <3> HIDE DEF q
    <3> QED BY <1>1
  <2> HIDE DEF q
  <2> QED BY <1>1, <2>1 DEF After
<1> HIDE DEF q, n
<1>3. OpenBracket(q) <=> \E i \in 1..(n + 1) : q[i] = "[" /\ \A j \in i..(n + 1) : q[j] # "]"
  BY <1>1 DEF OpenBracket
<1>4. OpenBracket(p) <=> \E i \in 1..n : p[i] = "[" /\ \A j \in i..n : p[j] # "]"
  BY <1>1 DEF OpenBracket, n
<1>5. ASSUME token = "[" PROVE OpenBracket(q)
  BY <1>1, <1>3, <1>5
<1>6. ASSUME token # "[" PROVE OpenBracket(q) <=> OpenBracket(p) /\ token # "]"
  <2>1. ASSUME NEW i \in 1..n PROVE (\A j \in i..(n + 1) : q[j] # "]") <=> (\A j \in i..n : p[j] # "]") /\ token # "]"
    <3>1. \A j : j \in i..(n + 1) <=> j \in i..n \/ j = n + 1
      BY <1>1
    <3>2. \A j \in i..n : q[j] = p[j]
      BY <1>1
    <3> QED BY <1>1, <3>1, <3>2
  <2>2. \A i : i \in 1..(n + 1) <=> i \in 1..n \/ i = n + 1
    BY <1>1
  <2> QED BY <1>1, <1>3, <1>4, <1>6, <2>1, <2>2
<1> QED BY <1>2, <1>5, <1>6 DEF q

(* What the grammar has between brackets, and what leads to where.             *)
LEMMA ArcsOfTheGrammar ==
    ASSUME NEW arc \in Arcs
    PROVE  /\ arc[3] \in States \ {"first", "second"}
           /\ arc[3] \in Bracketed <=> arc[2] = "[" \/ (arc[1] \in Bracketed /\ arc[2] # "]")
           /\ arc[3] = "tupleset" => arc[2] = "from"
           /\ arc[3] = "userset" => arc[2] = "#"
           /\ arc[3] = "condition" => arc[2] = "with"
           /\ arc[3] = "restrictions" => arc[2] = "["
           /\ arc[3] = "restriction" => arc[2] = ","
           /\ arc[2] = "name" =>
                 arc[1] \in {"first", "second", "tupleset", "restrictions", "restriction", "userset", "condition"}
<1> DEFINE is(from, token, to) == arc[1] = from /\ arc[2] = token /\ arc[3] = to
<1>1. ASSUME NEW from, NEW token, NEW to, arc = <<from, token, to>> PROVE is(from, token, to)
  BY <1>1
<1>2. \/ is("first", "[", "restrictions") \/ is("first", "name", "relation") \/ is("second", "name", "relation")
      \/ is("relation", "from", "tupleset") \/ is("tupleset", "name", "operand") \/ is("restrictions", "]", "operand")
      \/ is("restrictions", "name", "type") \/ is("restriction", "name", "type") \/ is("type", "#", "userset")
      \/ is("userset", "name", "suffixed") \/ is("type", ":", "wildcard") \/ is("wildcard", "*", "suffixed")
      \/ is("type", "with", "condition") \/ is("suffixed", "with", "condition") \/ is("condition", "name", "restricted")
      \/ \E at \in {"type", "suffixed", "restricted"} : is(at, ",", "restriction") \/ is(at, "]", "operand")
  <2> HIDE DEF is
  <2> QED BY <1>1, Zenon DEF Arcs
<1> QED BY <1>2 DEF States, Bracketed

(* The tokens that are no names.                                               *)
LEMMA PunctuationOfTheGrammar == Operators \cup {":", "(", "from", "[", "]"} \subseteq Punctuation
<1>1. /\ <<"type", ":", "wildcard">> \in Arcs /\ <<"relation", "from", "tupleset">> \in Arcs
      /\ <<"first", "[", "restrictions">> \in Arcs /\ <<"restrictions", "]", "operand">> \in Arcs
  BY DEF Arcs
<1> QED BY <1>1 DEF Punctuation

(* Every step of the parser along an arc leads to a state that completion      *)
(* guesses from the token.                                                     *)
LEMMA ArcsAreGuessed ==
    ASSUME NEW p \in Seq(Tokens), NEW token \in Tokens, NEW arc \in Arcs, Guessed(arc[1], p),
           arc[2] = IF token \in Punctuation THEN token ELSE "name"
    PROVE  Guessed(arc[3], Append(p, token))
<1> DEFINE q == Append(p, token)
<1>1. /\ OpenBracket(q) <=> token = "[" \/ (OpenBracket(p) /\ token # "]")
      /\ After(q) = token
  BY Brackets
<1>2. arc[2] = token \/ (arc[2] = "name" /\ token \notin {"[", "]"})
  BY PunctuationOfTheGrammar
<1>3. arc[1] \in Bracketed <=> OpenBracket(p)
  BY DEF Guessed
<1>4. arc[2] \in {"from", "#", "with", "[", ",", "]"} => arc[2] = token
  BY <1>2
<1> HIDE DEF q
<1>5. arc[3] \in Bracketed <=> OpenBracket(q)
  <2>1. arc[3] \in Bracketed <=> arc[2] = "[" \/ (arc[1] \in Bracketed /\ arc[2] # "]")
    BY ArcsOfTheGrammar
  <2> QED BY <1>1, <1>2, <1>3, <2>1
<1> QED BY <1>1, <1>4, <1>5, ArcsOfTheGrammar DEF Guessed, States, q

-------------------------------------------------------------------------------
(* The states a parser can be in.                                              *)
ParserStates == [at : States, operators : Seq(Operators \cup {"none"}) \ {<<>>}]
Shifted(S, token) == UNION {Shift(s, token) : s \in S}

(* A step leads to such a state.                                               *)
LEMMA ShiftsStay ==
    ASSUME NEW s \in ParserStates, NEW token
    PROVE  Shift(s, token) \subseteq ParserStates
<1> DEFINE outer == Tail(s.operators)
           Ops == Operators \cup {"none"}
<1>1. s.operators \in Seq(Ops) /\ s.operators # <<>>
  BY DEF ParserStates
<1>2. outer \in Seq(Ops)
  BY <1>1
<1>3. ASSUME NEW at \in States, NEW operators \in Seq(Ops), operators # <<>>
      PROVE  Parsing(at, operators) \in ParserStates
  BY <1>3 DEF Parsing, ParserStates
<1> SUFFICES ASSUME NEW r \in Shift(s, token) PROVE r \in ParserStates
  OBVIOUS
<1>4. "first" \in States /\ "second" \in States /\ "operand" \in States
  BY DEF States
<1>5. ASSUME NEW o \in Ops, NEW q \in Seq(Ops) PROVE <<o>> \o q \in Seq(Ops) /\ <<o>> \o q # <<>>
  <2>1. <<o>> \o q \in Seq(Ops)
    OBVIOUS
  <2>2. Len(<<o>> \o q) = 1 + Len(q) /\ Len(q) \in Nat
    OBVIOUS
  <2> DEFINE both == <<o>> \o q
  <2> HIDE DEF both
  <2>3. both # <<>>
    BY <2>2 DEF both
  <2> QED BY <2>1, <2>3 DEF both
<1> HIDE DEF outer, Ops
<1>6. CASE \E arc \in Arcs : r = Parsing(arc[3], s.operators)
  BY <1>1, <1>3, <1>6, ArcsOfTheGrammar
<1>7. CASE r = Parsing("first", <<"none">> \o s.operators)
  <2>1. "none" \in Ops
    BY DEF Ops
  <2> QED BY <1>1, <1>3, <1>4, <1>5, <1>7, <2>1
<1>8. CASE r = Parsing("operand", outer) /\ outer # <<>>
  BY <1>2, <1>3, <1>4, <1>8
<1>9. CASE r = Parsing("second", <<token>> \o outer) /\ token \in Operators
  <2>1. token \in Ops
    BY <1>9 DEF Ops
  <2> QED BY <1>2, <1>3, <1>4, <1>5, <1>9, <2>1
<1> QED BY <1>6, <1>7, <1>8, <1>9 DEF Shift, outer

(* A step leads to a state that completion guesses.                            *)
LEMMA ShiftsAreGuessed ==
    ASSUME NEW p \in Seq(Tokens), NEW token \in Tokens, NEW s, Guessed(s.at, p), NEW r \in Shift(s, token)
    PROVE  Guessed(r.at, Append(p, token))
<1> DEFINE q == Append(p, token)
<1>1. /\ OpenBracket(q) <=> token = "[" \/ (OpenBracket(p) /\ token # "]")
      /\ After(q) = token
  BY Brackets
<1>2. ASSUME s.at \notin Bracketed, token # "[" PROVE ~OpenBracket(q)
  BY <1>1, <1>2 DEF Guessed
<1> HIDE DEF q
<1>3. ASSUME NEW at, NEW operators PROVE Parsing(at, operators).at = at
  BY DEF Parsing
<1>4. CASE \E arc \in Arcs : /\ r = Parsing(arc[3], s.operators) /\ arc[1] = s.at
                             /\ arc[2] = IF token \in Punctuation THEN token ELSE "name"
  BY <1>3, <1>4, ArcsAreGuessed DEF q
<1>5. CASE r = Parsing("first", <<"none">> \o s.operators) /\ s.at \in {"first", "second"} /\ token = "("
  <2>1. r.at = "first"
    BY <1>3, <1>5
  <2>2. ~OpenBracket(q)
    BY <1>2, <1>5 DEF Bracketed
  <2> QED BY <1>1, <1>5, <2>1, <2>2 DEF Guessed, States, Bracketed, q
<1>6. CASE r = Parsing("operand", Tail(s.operators)) /\ s.at \in {"relation", "operand"} /\ token = ")"
  <2>1. r.at = "operand"
    BY <1>3, <1>6
  <2>2. ~OpenBracket(q)
    BY <1>2, <1>6 DEF Bracketed
  <2> QED BY <1>1, <1>6, <2>1, <2>2 DEF Guessed, States, Bracketed, q
<1>7. CASE r = Parsing("second", <<token>> \o Tail(s.operators)) /\ s.at \in {"relation", "operand"} /\ token \in Operators
  <2>1. r.at = "second"
    BY <1>3, <1>7
  <2>2. ~OpenBracket(q)
    BY <1>2, <1>7 DEF Bracketed, Operators
  <2> QED BY <1>1, <1>7, <2>1, <2>2 DEF Guessed, States, Bracketed, q
<1> QED BY <1>4, <1>5, <1>6, <1>7 DEF Shift

(* The states after each token of a prefix.                                    *)
Follows(f, p) ==
    /\ f \in [Nat -> SUBSET ParserStates]
    /\ f[0] = {Start}
    /\ \A i \in 1..Len(p) : f[i] = Shifted(f[i - 1], p[i])

(* The parser as a function of how far it is: the states it ends in.           *)
LEMMA ParsedInSteps ==
    ASSUME NEW p \in Seq(Tokens)
    PROVE  \E f : Follows(f, p) /\ Parsed(p) = f[Len(p)]
<1> DEFINE n == Len(p)
           T == SUBSET ParserStates
           g == [i \in Nat |-> [S \in T |-> Shifted(S, p[i + 1])]]
           Next(h, i) == IF i = 0 THEN {Start} ELSE UNION {Shift(s, p[i]) : s \in h[i - 1]}
           states == CHOOSE h : h = [i \in 0..n |-> Next(h, i)]
<1>1. n \in Nat
  OBVIOUS
<1>2. {Start} \in T
  <2>1. <<"none">> \in Seq(Operators \cup {"none"}) \ {<<>>}
    OBVIOUS
  <2> QED BY <2>1 DEF Start, Parsing, ParserStates, States
<1>3. g \in [Nat -> [T -> T]]
  <2>1. ASSUME NEW S \in T, NEW token PROVE Shifted(S, token) \in T
    BY ShiftsStay DEF Shifted
  <2> QED BY <2>1
<1>4. PICK f \in [Nat -> T] : Continues(f, {Start}, g)
  <2> HIDE DEF g, T
  <2> QED BY <1>2, <1>3, Recursion
<1>5. f[0] = {Start} /\ \A i \in 1..n : f[i] = Shifted(f[i - 1], p[i])
  <2>1. f[0] = {Start} /\ \A i \in Nat : f[i + 1] = g[i][f[i]]
    BY <1>4 DEF Continues
  <2>2. \A i \in Nat : f[i + 1] = Shifted(f[i], p[i + 1])
    BY <1>4, <2>1
  <2>3. \A i \in 1..n : i - 1 \in Nat /\ (i - 1) + 1 = i
    BY <1>1
  <2> QED BY <2>1, <2>2, <2>3
<1>6. Follows(f, p)
  BY <1>4, <1>5 DEF Follows
<1> HIDE DEF n
<1>7. [i \in 0..n |-> f[i]] = [i \in 0..n |-> Next([j \in 0..n |-> f[j]], i)]
  <2>1. ASSUME NEW i \in 0..n PROVE f[i] = Next([j \in 0..n |-> f[j]], i)
    <3>1. CASE i = 0
      BY <1>5, <3>1
    <3>2. CASE i # 0
      <4>1. i \in 1..n /\ i - 1 \in 0..n
        BY <1>1, <3>2
      <4> QED BY <1>5, <3>2, <4>1 DEF Shifted
    <3> QED BY <3>1, <3>2
  <2> HIDE DEF Next
  <2> QED BY <2>1
<1>8. states = [i \in 0..n |-> Next(states, i)]
  <2> HIDE DEF Next
  <2> QED BY <1>7
<1>9. Parsed(p) = states[n]
  BY DEF Parsed, n
<1> HIDE DEF states
<1> DEFINE E == {i \in Nat : i <= n => states[i] = f[i]}
<1>10. 0 \in E
  BY <1>1, <1>5, <1>8
<1>11. ASSUME NEW i \in E PROVE i + 1 \in E
  <2> SUFFICES ASSUME i + 1 <= n PROVE states[i + 1] = f[i + 1]
    BY <1>11
  <2>1. i \in Nat /\ states[i] = f[i] /\ i + 1 \in 1..n /\ i + 1 \in 0..n
    BY <1>1, <1>11
  <2>2. f[i + 1] = Shifted(f[i], p[i + 1])
    BY <1>5, <2>1
  <2>3. states[i + 1] = Next(states, i + 1)
    <3> HIDE DEF Next
    <3> QED BY <1>8, <2>1
  <2>4. Next(states, i + 1) = Shifted(states[i], p[i + 1])
    BY <2>1 DEF Shifted
  <2> QED BY <2>1, <2>2, <2>3, <2>4
<1> HIDE DEF E
<1>12. E = Nat
  <2>1. E \in SUBSET Nat
    BY DEF E
  <2> QED BY <1>10, <1>11, <2>1, Induction
<1>13. states[n] = f[n]
  BY <1>1, <1>12 DEF E
<1> QED BY <1>6, <1>9, <1>13 DEF n

(* A further token takes the parser one step further.                          *)
LEMMA ParsedFurther ==
    ASSUME NEW p \in Seq(Tokens), NEW token \in Tokens
    PROVE  Parsed(Append(p, token)) = Shifted(Parsed(p), token)
<1> DEFINE q == Append(p, token)
           n == Len(p)
<1>1. /\ q \in Seq(Tokens) /\ n \in Nat /\ Len(q) = n + 1
      /\ q[n + 1] = token /\ \A i \in 1..n : q[i] = p[i]
  OBVIOUS
<1>2. PICK f : Follows(f, p) /\ Parsed(p) = f[n]
  BY ParsedInSteps
<1> HIDE DEF q
<1>3. PICK h : Follows(h, q) /\ Parsed(q) = h[n + 1]
  BY <1>1, ParsedInSteps
<1> DEFINE E == {i \in Nat : i <= n => f[i] = h[i]}
<1>4. 0 \in E
  BY <1>2, <1>3 DEF Follows
<1>5. ASSUME NEW i \in E PROVE i + 1 \in E
  <2> SUFFICES ASSUME i + 1 <= n PROVE f[i + 1] = h[i + 1]
    BY <1>5
  <2>1. i \in Nat /\ f[i] = h[i] /\ i + 1 \in 1..n /\ i + 1 \in 1..(n + 1) /\ (i + 1) - 1 = i
    BY <1>1, <1>5
  <2>2. f[i + 1] = Shifted(f[i], p[i + 1])
    BY <1>2, <2>1 DEF Follows
  <2>3. h[i + 1] = Shifted(h[i], q[i + 1])
    BY <1>1, <1>3, <2>1 DEF Follows
  <2> QED BY <1>1, <2>1, <2>2, <2>3
<1> HIDE DEF E
<1>6. E = Nat
  <2>1. E \in SUBSET Nat
    BY DEF E
  <2> QED BY <1>4, <1>5, <2>1, Induction
<1>7. f[n] = h[n]
  BY <1>1, <1>6 DEF E
<1>8. h[n + 1] = Shifted(h[n], token)
  <2>1. n + 1 \in 1..(n + 1) /\ (n + 1) - 1 = n
    BY <1>1
  <2> QED BY <1>1, <1>3, <2>1 DEF Follows
<1> QED BY <1>2, <1>3, <1>7, <1>8 DEF q

(* Every state after a prefix is guessed.                                      *)
AllGuessed(p) == \A s \in Parsed(p) : Guessed(s.at, p)

(* At the colon the parser is at the start.                                    *)
LEMMA GuessedAtFirst == AllGuessed(<<>>)
<1>1. <<>> \in Seq(Tokens) /\ Len(<<>>) = 0
  OBVIOUS
<1>2. Parsed(<<>>) = {Start}
  <2>1. PICK f : Follows(f, <<>>) /\ Parsed(<<>>) = f[0]
    BY <1>1, ParsedInSteps
  <2> QED BY <2>1 DEF Follows
<1>3. Start.at = "first"
  BY DEF Start, Parsing
<1>4. ~OpenBracket(<<>>) /\ After(<<>>) = ":"
  BY DEF OpenBracket, After
<1> QED BY <1>2, <1>3, <1>4 DEF AllGuessed, Guessed, States, Bracketed

(* ... and it stays guessed from token to token.                               *)
LEMMA GuessedFurther ==
    ASSUME NEW p \in Seq(Tokens), NEW token \in Tokens, AllGuessed(p)
    PROVE  AllGuessed(Append(p, token))
<1>1. Parsed(Append(p, token)) = Shifted(Parsed(p), token)
  BY ParsedFurther
<1>2. ASSUME NEW s \in Parsed(p), NEW r \in Shift(s, token) PROVE Guessed(r.at, Append(p, token))
  BY ShiftsAreGuessed DEF AllGuessed
<1> QED BY <1>1, <1>2 DEF AllGuessed, Shifted

-------------------------------------------------------------------------------
(* Where the line is, and what completion can tell from it.                    *)
PlaceOK == place = Nowhere \/ (place.doc \in DOMAIN TypedLines /\ place.line \in TypedLines[place.doc])
CompletionInv == prefix \in Seq(Tokens) /\ PlaceOK /\ AllGuessed(prefix)

(* Every step keeps it.                                                        *)
THEOREM PrefixesAreGuessed == CompletionSpec => []CompletionInv
<1>1. CompletionInit => CompletionInv
  BY GuessedAtFirst DEF CompletionInit, CompletionInv, PlaceOK
<1>2. ASSUME CompletionInv, [CompletionNext]_<<place, prefix>> PROVE CompletionInv'
  <2>1. ASSUME NEW u \in DOMAIN TypedLines, NEW line \in TypedLines[u], StartDefinition(u, line) PROVE CompletionInv'
    <3>1. place' = [doc |-> u, line |-> line] /\ prefix' = prefix
      BY <2>1 DEF StartDefinition
    <3>2. place'.doc = u /\ place'.line = line
      BY <3>1
    <3> QED BY <1>2, <3>1, <3>2 DEF CompletionInv, PlaceOK
  <2>2. ASSUME NEW token \in Tokens, TypeToken(token) PROVE CompletionInv'
    <3>1. prefix' = Append(prefix, token) /\ place' = place /\ prefix \in Seq(Tokens) /\ AllGuessed(prefix)
      BY <1>2, <2>2 DEF TypeToken, CompletionInv
    <3>2. AllGuessed(Append(prefix, token)) /\ Append(prefix, token) \in Seq(Tokens)
      BY <3>1, GuessedFurther
    <3> QED BY <1>2, <3>1, <3>2 DEF CompletionInv, PlaceOK
  <2>3. CASE UNCHANGED <<place, prefix>>
    BY <1>2, <2>3 DEF CompletionInv, PlaceOK
  <2> QED BY <1>2, <2>1, <2>2, <2>3 DEF CompletionNext, Tokens
<1> QED BY <1>1, <1>2, PTL DEF CompletionSpec

-------------------------------------------------------------------------------
(* A set of numbers that is bounded has a largest one.                         *)
LEMMA LargestNumber ==
    ASSUME NEW n \in Nat, NEW S \in SUBSET (1..n), S # {}
    PROVE  \E i \in S : \A j \in S : j <= i
<1> DEFINE E == {k \in Nat : \A R \in SUBSET (1..k) : R # {} => \E i \in R : \A j \in R : j <= i}
<1>1. 0 \in E
  <2>1. 1..0 = {}
    OBVIOUS
  <2> QED BY <2>1
<1>2. ASSUME NEW k \in E PROVE k + 1 \in E
  <2> SUFFICES ASSUME NEW R \in SUBSET (1..(k + 1)), R # {} PROVE \E i \in R : \A j \in R : j <= i
    BY <1>2
  <2>1. CASE k + 1 \in R
    BY <1>2, <2>1
  <2>2. CASE k + 1 \notin R
    <3>1. R \in SUBSET (1..k)
      BY <1>2, <2>2
    <3> QED BY <1>2, <3>1
  <2> QED BY <2>1, <2>2
<1> HIDE DEF E
<1>3. E = Nat
  <2>1. E \in SUBSET Nat
    BY DEF E
  <2> QED BY <1>1, <1>2, <2>1, Induction
<1> QED BY <1>3 DEF E

(* Where enclosingType finds a type, it is the one the line belongs to: as     *)
(* types follow each other, a later one that starts above the line would reach *)
(* it too.                                                                     *)
LEMMA EnclosingIsAbove ==
    ASSUME NEW x, NEW u \in DOMAIN TypedLines, NEW line \in TypedLines[u], EnclosingType(x, u, line) # NoType
    PROVE  EnclosingType(x, u, line) = TypeAbove(x, u, line)
<1> DEFINE lines == TypeLines[u]
           n == Len(lines)
           near == {i \in DOMAIN lines : lines[i][1] <= line /\ line <= lines[i][2] + 1}
           above == {i \in DOMAIN lines : lines[i][1] <= line}
           last(S, i) == \A j \in S : j <= i
<1>1. /\ lines \in Seq(Nat \X Nat) /\ line \in Nat
      /\ \A i, j \in DOMAIN lines : i < j => lines[i][2] <= lines[j][2]
  BY LinesAssumption
<1>2. n \in Nat /\ DOMAIN lines = 1..n /\ \A i \in 1..n : lines[i][1] \in Nat /\ lines[i][2] \in Nat
  BY <1>1
<1>3. near # {}
  BY DEF EnclosingType
<1>4. near \subseteq above /\ near \in SUBSET (1..n) /\ above \in SUBSET (1..n) /\ above # {}
  BY <1>2, <1>3
<1>5. PICK m \in near : last(near, m)
  <2> HIDE DEF near, n
  <2> QED BY <1>2, <1>3, <1>4, LargestNumber
<1>6. last(above, m)
  <2> SUFFICES ASSUME NEW j \in above, m < j PROVE FALSE
    BY <1>2, <1>4
  <2>1. lines[m][2] <= lines[j][2] /\ line <= lines[m][2] + 1 /\ j \in 1..n /\ m \in 1..n /\ lines[j][1] <= line
    BY <1>1, <1>2
  <2>2. line <= lines[j][2] + 1
    <3> DEFINE ends == lines[m][2]
               later == lines[j][2]
    <3>1. ends \in Nat /\ later \in Nat /\ ends <= later /\ line <= ends + 1 /\ line \in Nat
      BY <1>1, <1>2, <2>1
    <3> HIDE DEF ends, later
    <3>2. line <= later + 1
      BY <3>1
    <3> QED BY <3>2 DEF later
  <2>3. j \in near
    BY <1>2, <2>1, <2>2
  <2> QED BY <1>2, <1>5, <2>1, <2>3
<1> HIDE DEF near, above
<1>7. (CHOOSE i \in near : last(near, i)) = m /\ (CHOOSE i \in above : last(above, i)) = m
  <2>1. ASSUME NEW S \in SUBSET (1..n), m \in S, last(S, m) PROVE (CHOOSE i \in S : last(S, i)) = m
    <3>1. \A i \in S : last(S, i) => i = m
      BY <1>2, <2>1
    <3> HIDE DEF last
    <3> QED BY <2>1, <3>1
  <2> QED BY <1>4, <1>5, <1>6, <2>1
<1> QED BY <1>3, <1>7 DEF EnclosingType, TypeAbove, near, above

(* Where a name can stand, and what completion makes of the place.             *)
LEMMA NamesFitAt ==
    ASSUME NEW x, NEW u \in DOMAIN TypedLines, NEW line \in TypedLines[u], NEW p, NEW at, Guessed(at, p),
           \E arc \in Arcs : arc[1] = at /\ arc[2] = "name"
    PROVE  \/ Offers(x, u, line, p) \ Punctuation = Fitting(x, u, line, p, at) \ Punctuation
           \/ Offers(x, u, line, p) \ Punctuation = {} /\ EnclosingType(x, u, line) = NoType
<1> DEFINE relations(type) == RelationsOf(x, u, type)
           enclosing == EnclosingType(x, u, line)
           last == After(p)
<1>1. at \in {"first", "second", "tupleset", "restrictions", "restriction", "userset", "condition"}
  <2>1. PICK arc \in Arcs : arc[1] = at /\ arc[2] = "name"
    OBVIOUS
  <2> QED BY <2>1, ArcsOfTheGrammar
<1>2. CASE at \in {"restrictions", "restriction", "userset", "condition"}
  <2>1. OpenBracket(p)
    BY <1>2 DEF Guessed, Bracketed
  <2>2. Offers(x, u, line, p) = CASE last = "with" -> {x[s] : s \in ConditionsIn[u]}
                                  [] last = "#"    -> relations(p[Len(p) - 1])
                                  [] OTHER         -> TypeNames(x, u)
    BY <2>1 DEF Offers
  <2> HIDE DEF last
  <2>3. CASE at \in {"restrictions", "restriction"}
    <3>1. last \in {"[", ","}
      BY <2>3 DEF Guessed, last
    <3> QED BY <2>2, <2>3, <3>1 DEF Fitting
  <2>4. CASE at = "userset"
    <3>1. last = "#"
      BY <2>4 DEF Guessed, last
    <3> QED BY <2>2, <2>4, <3>1 DEF Fitting
  <2>5. CASE at = "condition"
    <3>1. last = "with"
      BY <2>5 DEF Guessed, last
    <3> QED BY <2>2, <2>5, <3>1 DEF Fitting
  <2> QED BY <1>2, <2>3, <2>4, <2>5
<1>3. CASE at \in {"first", "second", "tupleset"}
  <2>1. ~OpenBracket(p)
    BY <1>3 DEF Guessed, Bracketed
  <2>2. Offers(x, u, line, p) = CASE enclosing = NoType                    -> {}
                                  [] enclosing # NoType /\ last = "from"   -> relations(enclosing)
                                  [] enclosing # NoType /\ last \in Operators \cup {":", "("} ->
                                       relations(enclosing) \cup {"["}
                                  [] enclosing # NoType /\ last \in TypedNames  -> Operators \cup {"from"}
                                  [] OTHER                                 -> relations(enclosing)
    BY <2>1 DEF Offers
  <2>3. last \in Operators \cup {":", "(", "from"}
    BY <1>3 DEF Guessed
  <2>4. Operators \cup {":", "(", "from", "["} \subseteq Punctuation
    BY PunctuationOfTheGrammar
  <2>5. last \notin TypedNames
    BY <2>3, <2>4, TokensAssumption
  <2>6. Fitting(x, u, line, p, at) = relations(TypeAbove(x, u, line))
    BY <1>3 DEF Fitting
  <2> HIDE DEF last, enclosing, relations
  <2>7. CASE enclosing = NoType
    <3>1. Offers(x, u, line, p) = {}
      BY <2>2, <2>7
    <3> QED BY <2>7, <3>1 DEF enclosing
  <2>8. CASE enclosing # NoType
    <3>1. Offers(x, u, line, p) \in {relations(enclosing), relations(enclosing) \cup {"["}}
      BY <2>2, <2>3, <2>5, <2>8 DEF Operators
    <3>2. enclosing = TypeAbove(x, u, line)
      BY <2>8, EnclosingIsAbove DEF enclosing
    <3> QED BY <2>4, <2>6, <3>1, <3>2
  <2> QED BY <2>7, <2>8
<1> QED BY <1>1, <1>2, <1>3

(* At every place of a line that takes a name, completion offers the names     *)
(* that fit, whatever was typed before: the token before the cursor and        *)
(* whether a bracket is open say as much as the grammar does.                  *)
THEOREM NamesOfferedAlwaysFit == CompletionSpec => []NamesOfferedFit
<1>1. ASSUME CompletionInv PROVE NamesOfferedFit
  <2> SUFFICES ASSUME place # Nowhere, NEW s \in Parsed(prefix), \E arc \in Arcs : arc[1] = s.at /\ arc[2] = "name"
               PROVE  LET offered == Offers(text, place.doc, place.line, prefix) \ Punctuation
                      IN  \/ offered = Fitting(text, place.doc, place.line, prefix, s.at) \ Punctuation
                          \/ offered = {} /\ EnclosingType(text, place.doc, place.line) = NoType
    BY DEF NamesOfferedFit
  <2>1. place.doc \in DOMAIN TypedLines /\ place.line \in TypedLines[place.doc] /\ Guessed(s.at, prefix)
    BY <1>1 DEF CompletionInv, PlaceOK, AllGuessed
  <2> QED BY <2>1, NamesFitAt
<1> QED BY <1>1, PrefixesAreGuessed, PTL

-------------------------------------------------------------------------------
(* Somebody types a text.                                                      *)
TypingSpec == PositionsInit /\ [][\E c \in Characters : TypeCharacter(c)]_content

(* It is a sequence of characters.                                             *)
TextOK == content \in Seq(Characters)

(* Only characters are typed (PositionsInit, TypeCharacter).                 *)
THEOREM TextTyped == TypingSpec => []TextOK
<1>1. PositionsInit => TextOK
  BY DEF PositionsInit, TextOK
<1>2. TextOK /\ [\E c \in Characters : TypeCharacter(c)]_content => TextOK'
  BY DEF TextOK, TypeCharacter
<1> QED BY <1>1, <1>2, PTL DEF TypingSpec

-------------------------------------------------------------------------------
(* The letters of q, up to m, stand in order in the first i of name.           *)
Embeds(e, q, m, name, i) ==
    /\ e \in [1..m -> 1..i]
    /\ \A k \in 1..m : name[e[k]] = q[k]
    /\ \A k, l \in 1..m : k < l => e[k] < e[l]
Embedded(q, m, name, i) == \E e : Embeds(e, q, m, name, i)

(* How many letters of the query are ticked off after i of the name.           *)
Ticks(t, q, name) ==
    /\ t \in [0..Len(name) -> Nat]
    /\ t[0] = 0
    /\ \A i \in 1..Len(name) :
          t[i] = IF t[i - 1] < Len(q) /\ q[t[i - 1] + 1] = name[i] THEN t[i - 1] + 1 ELSE t[i - 1]

(* fuzzyMatch ticks them all off.                                              *)
LEMMA TickedOff ==
    ASSUME NEW T, NEW q \in Seq(T), NEW name \in Seq(T)
    PROVE  \E t : Ticks(t, q, name) /\ (FuzzyMatch(q, name) <=> t[Len(name)] = Len(q))
<1> DEFINE n == Len(name)
           more(k, i) == k < Len(q) /\ q[k + 1] = name[i]
           g == [i \in Nat |-> [k \in Nat |-> IF more(k, i + 1) THEN k + 1 ELSE k]]
           next(h, i) == IF i = 0 THEN 0 ELSE IF more(h[i - 1], i) THEN h[i - 1] + 1 ELSE h[i - 1]
           t == CHOOSE h : h = [i \in 0..n |-> next(h, i)]
<1>1. n \in Nat /\ g \in [Nat -> [Nat -> Nat]] /\ 0 \in Nat
  OBVIOUS
<1>2. FuzzyMatch(q, name) <=> t[n] = Len(q)
  BY DEF FuzzyMatch
<1> HIDE DEF n
<1>3. ASSUME NEW h, NEW i \in 1..n, h[i - 1] \in Nat PROVE next(h, i) = g[i - 1][h[i - 1]]
  <2>1. i - 1 \in Nat /\ (i - 1) + 1 = i /\ i # 0
    BY <1>1
  <2> HIDE DEF more
  <2> QED BY <1>3, <2>1
<1>4. t = [i \in 0..n |-> next(t, i)]
  <2>1. PICK k \in [0..n -> Nat] : Runs(k, n, Nat, 0, g)
    <3> HIDE DEF g
    <3> QED BY <1>1, RunExists
  <2>2. ASSUME NEW i \in 0..n PROVE k[i] = next(k, i)
    <3>1. CASE i = 0
      BY <2>1, <3>1 DEF Runs
    <3>2. CASE i # 0
      <4>1. i \in 1..n /\ i - 1 \in 0..n
        BY <1>1, <3>2
      <4> HIDE DEF next, g
      <4> QED BY <1>3, <2>1, <4>1 DEF Runs
    <3> QED BY <3>1, <3>2
  <2> HIDE DEF next
  <2>3. k = [i \in 0..n |-> next(k, i)]
    BY <2>2
  <2> QED BY <2>3
<1> HIDE DEF t
<1>5. Runs(t, n, Nat, 0, g)
  <2>1. \A i \in 0..n : t[i] = next(t, i)
    <3> HIDE DEF next
    <3> QED BY <1>4
  <2>2. t = [i \in 0..n |-> t[i]]
    <3> HIDE DEF next
    <3> QED BY <1>4, <2>1
  <2>3. t[0] = 0
    BY <1>1, <2>1
  <2>4. \A i \in 1..n : t[i - 1] \in Nat => t[i] = g[i - 1][t[i - 1]]
    <3> SUFFICES ASSUME NEW i \in 1..n, t[i - 1] \in Nat PROVE t[i] = g[i - 1][t[i - 1]]
      OBVIOUS
    <3>1. next(t, i) = g[i - 1][t[i - 1]]
      BY <1>3
    <3>2. i \in 0..n
      BY <1>1
    <3> HIDE DEF next, g
    <3> QED BY <2>1, <3>1, <3>2
  <2> HIDE DEF next, g
  <2> QED BY <2>2, <2>3, <2>4 DEF Runs
<1>6. t \in [0..n -> Nat] /\ \A i \in 1..n : t[i] = g[i - 1][t[i - 1]]
  <2> DEFINE N == Nat
  <2>1. n \in Nat /\ 0 \in N /\ g \in [Nat -> [N -> N]] /\ Runs(t, n, N, 0, g)
    BY <1>1, <1>5
  <2> HIDE DEF g, N
  <2>2. Ran(t, n, N, g)
    BY <2>1, RunTyped
  <2> QED BY <2>2 DEF N, Ran
<1>7. ASSUME NEW i \in 1..n PROVE t[i] = IF more(t[i - 1], i) THEN t[i - 1] + 1 ELSE t[i - 1]
  <2>1. i - 1 \in Nat /\ (i - 1) + 1 = i /\ i - 1 \in 0..n
    BY <1>1
  <2>2. t[i] = g[i - 1][t[i - 1]] /\ t[i - 1] \in Nat
    BY <1>6, <2>1
  <2> HIDE DEF more
  <2> QED BY <2>1, <2>2
<1>8. Ticks(t, q, name)
  BY <1>5, <1>6, <1>7 DEF Ticks, Runs, n
<1> QED BY <1>2, <1>8 DEF n

(* Letters that stand in order stand in order in a longer name.                *)
LEMMA EmbeddedLater ==
    ASSUME NEW q, NEW name, NEW m \in Nat, NEW i \in Nat, Embedded(q, m, name, i)
    PROVE  Embedded(q, m, name, i + 1)
<1>1. PICK e : Embeds(e, q, m, name, i)
  BY DEF Embedded
<1>2. e \in [1..m -> 1..(i + 1)]
  <2>1. \A k \in 1..i : k \in 1..(i + 1)
    OBVIOUS
  <2>2. e \in [1..m -> 1..i]
    BY <1>1 DEF Embeds
  <2> QED BY <2>1, <2>2
<1>3. Embeds(e, q, m, name, i + 1)
  BY <1>1, <1>2 DEF Embeds
<1> QED BY <1>3 DEF Embedded

(* The next letter joins them if it is the one wanted.                         *)
LEMMA EmbeddedMore ==
    ASSUME NEW q, NEW name, NEW m \in Nat, NEW i \in Nat, Embedded(q, m, name, i), q[m + 1] = name[i + 1]
    PROVE  Embedded(q, m + 1, name, i + 1)
<1>1. PICK e : Embeds(e, q, m, name, i)
  BY DEF Embedded
<1>2. e \in [1..m -> 1..i]
  BY <1>1 DEF Embeds
<1> DEFINE d == [k \in 1..(m + 1) |-> IF k <= m THEN e[k] ELSE i + 1]
<1>3. ASSUME NEW k \in 1..(m + 1)
      PROVE  IF k \in 1..m THEN d[k] = e[k] /\ e[k] \in 1..i ELSE k = m + 1 /\ d[k] = i + 1
  BY <1>2
<1>4. d \in [1..(m + 1) -> 1..(i + 1)]
  <2>1. \A k \in 1..(m + 1) : (IF k <= m THEN e[k] ELSE i + 1) \in 1..(i + 1)
    BY <1>3
  <2> QED BY <2>1
<1> HIDE DEF d
<1>5. \A k \in 1..(m + 1) : name[d[k]] = q[k]
  BY <1>1, <1>3 DEF Embeds
<1>6. ASSUME NEW k \in 1..(m + 1), NEW l \in 1..(m + 1), k < l PROVE d[k] < d[l]
  <2>1. k \in 1..m /\ d[k] = e[k] /\ e[k] \in 1..i
    BY <1>3, <1>6
  <2>2. CASE l \in 1..m
    BY <1>1, <1>3, <1>6, <2>1, <2>2 DEF Embeds
  <2>3. CASE l \notin 1..m
    <3>1. d[l] = i + 1
      BY <1>3, <2>3
    <3> QED BY <2>1, <3>1
  <2> QED BY <2>2, <2>3
<1>7. Embeds(d, q, m + 1, name, i + 1)
  BY <1>4, <1>5, <1>6 DEF Embeds
<1> QED BY <1>7 DEF Embedded

(* Ticking off never goes back, and only finds letters that stand in order.    *)
LEMMA TickedStandInOrder ==
    ASSUME NEW T, NEW q \in Seq(T), NEW name \in Seq(T), NEW t, Ticks(t, q, name)
    PROVE  \A i \in 0..Len(name) : t[i] <= Len(q) /\ Embedded(q, t[i], name, i)
<1> DEFINE S == {i \in 0..Len(name) : t[i] <= Len(q) /\ Embedded(q, t[i], name, i)}
<1>1. 0 \in S
  <2>1. [k \in 1..0 |-> 0] \in [1..0 -> 1..0] /\ \A k \in 1..0 : FALSE
    OBVIOUS
  <2>2. Embeds([k \in 1..0 |-> 0], q, 0, name, 0)
    BY <2>1 DEF Embeds
  <2>3. Embedded(q, 0, name, 0)
    BY <2>2 DEF Embedded
  <2>4. t[0] = 0 /\ Len(q) \in Nat /\ 0 \in 0..Len(name)
    BY DEF Ticks
  <2> QED BY <2>3, <2>4
<1>2. ASSUME NEW i \in 0..(Len(name) - 1), i \in S PROVE i + 1 \in S
  <2>1. i \in Nat /\ i + 1 \in 0..Len(name) /\ i + 1 \in 1..Len(name) /\ (i + 1) - 1 = i /\ i \in 0..Len(name)
    OBVIOUS
  <2>2. t[i] \in Nat /\ t[i] <= Len(q) /\ Embedded(q, t[i], name, i) /\ Len(q) \in Nat
    BY <1>2, <2>1 DEF Ticks
  <2>3. t[i + 1] = IF t[i] < Len(q) /\ q[t[i] + 1] = name[i + 1] THEN t[i] + 1 ELSE t[i]
    BY <2>1 DEF Ticks
  <2>4. CASE t[i] < Len(q) /\ q[t[i] + 1] = name[i + 1]
    <3>1. Embedded(q, t[i] + 1, name, i + 1)
      BY <2>1, <2>2, <2>4, EmbeddedMore
    <3>2. t[i] + 1 <= Len(q)
      BY <2>2, <2>4
    <3> QED BY <2>1, <2>3, <2>4, <3>1, <3>2
  <2>5. CASE ~(t[i] < Len(q) /\ q[t[i] + 1] = name[i + 1])
    <3>1. Embedded(q, t[i], name, i + 1)
      BY <2>1, <2>2, EmbeddedLater
    <3> QED BY <2>1, <2>2, <2>3, <2>5, <3>1
  <2> QED BY <2>4, <2>5
<1> HIDE DEF S
<1>3. Len(name) \in Nat
  OBVIOUS
<1>4. \A i \in 0..Len(name) : i \in S
  BY <1>1, <1>2, <1>3, UpTo
<1> QED BY <1>4 DEF S

(* Nor does it miss any.                                                       *)
LEMMA TickedAreMost ==
    ASSUME NEW T, NEW q \in Seq(T), NEW name \in Seq(T), NEW t, Ticks(t, q, name)
    PROVE  \A i \in 0..Len(name) : \A m \in 0..Len(q) : Embedded(q, m, name, i) => m <= t[i]
<1> DEFINE Most(i) == \A m \in 0..Len(q) : Embedded(q, m, name, i) => m <= t[i]
           S == {i \in 0..Len(name) : Most(i)}
<1>1. 0 \in S
  <2>1. ASSUME NEW m \in 0..Len(q), Embedded(q, m, name, 0) PROVE m <= 0
    <3>1. PICK e : Embeds(e, q, m, name, 0)
      BY <2>1 DEF Embedded
    <3>2. e \in [1..m -> 1..0]
      BY <3>1 DEF Embeds
    <3>3. CASE m >= 1
      <4>1. 1 \in 1..m
        BY <3>3
      <4>2. e[1] \in 1..0
        BY <3>2, <4>1
      <4> QED BY <4>2
    <3> QED BY <3>3
  <2>2. t[0] = 0 /\ 0 \in 0..Len(name)
    BY DEF Ticks
  <2> QED BY <2>1, <2>2
<1>2. ASSUME NEW i \in 0..(Len(name) - 1), i \in S PROVE i + 1 \in S
  <2>1. i \in Nat /\ i + 1 \in 0..Len(name) /\ i + 1 \in 1..Len(name) /\ (i + 1) - 1 = i /\ i \in 0..Len(name)
    OBVIOUS
  <2>2. t[i] \in Nat /\ t[i] <= Len(q) /\ Len(q) \in Nat
    <3>1. t[i] <= Len(q)
      BY <2>1, TickedStandInOrder
    <3>2. t[i] \in Nat /\ Len(q) \in Nat
      BY <2>1 DEF Ticks
    <3> QED BY <3>1, <3>2
  <2>3. t[i + 1] = IF t[i] < Len(q) /\ q[t[i] + 1] = name[i + 1] THEN t[i] + 1 ELSE t[i]
    BY <2>1 DEF Ticks
  <2>4. Most(i)
    BY <1>2
  <2> HIDE DEF S, Most
  <2> SUFFICES ASSUME NEW m \in 0..Len(q), Embedded(q, m, name, i + 1) PROVE m <= t[i + 1]
    BY <2>1 DEF S, Most
  <2>5. PICK e : Embeds(e, q, m, name, i + 1)
    BY DEF Embedded
  <2>6. e \in [1..m -> 1..(i + 1)]
    BY <2>5 DEF Embeds
  <2>7. t[i + 1] = t[i] \/ t[i + 1] = t[i] + 1
    BY <2>3
  <2>8. CASE m = 0
    BY <2>2, <2>7, <2>8
  <2>9. CASE m # 0
    <3>1. m - 1 \in 0..Len(q) /\ m \in 1..m /\ m - 1 \in Nat /\ \A k \in 1..(m - 1) : k \in 1..m /\ k < m
      BY <2>9
    <3>2. e[m] \in 1..(i + 1) /\ \A k \in 1..m : e[k] \in 1..(i + 1)
      BY <2>6, <3>1
    <3>3. \A k \in 1..(m - 1) : e[k] < e[m]
      BY <2>5, <3>1 DEF Embeds
    <3> DEFINE d == [k \in 1..(m - 1) |-> e[k]]
    <3>4. d \in [1..(m - 1) -> 1..i]
      <4>1. ASSUME NEW k \in 1..(m - 1) PROVE e[k] \in 1..i
        <5>1. e[k] \in 1..(i + 1) /\ e[k] < e[m]
          BY <3>1, <3>2, <3>3
        <5> QED BY <5>1, <3>2, <2>1
      <4> QED BY <4>1
    <3>5. Embeds(d, q, m - 1, name, i)
      <4>1. \A k \in 1..(m - 1) : d[k] = e[k]
        OBVIOUS
      <4> HIDE DEF d
      <4> QED BY <2>5, <3>1, <3>4, <4>1 DEF Embeds
    <3>6. m - 1 <= t[i]
      <4> HIDE DEF d
      <4>1. Embedded(q, m - 1, name, i)
        BY <3>5 DEF Embedded
      <4> QED BY <2>4, <3>1, <4>1 DEF Most
    <3>7. CASE e[m] = i + 1
      <4>1. name[i + 1] = q[m]
        BY <2>5, <3>1, <3>7 DEF Embeds
      <4>2. CASE t[i] = m - 1
        <5>1. t[i] + 1 = m /\ t[i] < Len(q)
          BY <2>2, <3>1, <4>2
        <5> QED BY <2>3, <4>1, <5>1
      <4> QED BY <2>2, <2>7, <3>6, <4>2
    <3>8. CASE e[m] # i + 1
      <4>1. e \in [1..m -> 1..i]
        <5>1. e[m] \in 1..i
          BY <3>2, <3>8, <2>1
        <5>2. \A k \in 1..m : k = m \/ k \in 1..(m - 1)
          BY <3>1
        <5>3. ASSUME NEW k \in 1..m PROVE e[k] \in 1..i
          <6>1. CASE k = m
            BY <5>1, <6>1
          <6>2. CASE k \in 1..(m - 1)
            BY <3>2, <3>3, <5>1, <6>2, <2>1
          <6> QED BY <5>2, <6>1, <6>2
        <5> QED BY <2>6, <5>3
      <4>2. Embeds(e, q, m, name, i)
        BY <2>5, <4>1 DEF Embeds
      <4>3. m <= t[i]
        BY <2>4, <4>2 DEF Embedded, Most
      <4> QED BY <2>2, <2>7, <4>3
    <3> QED BY <3>7, <3>8
  <2> QED BY <2>8, <2>9
<1> HIDE DEF S
<1>3. Len(name) \in Nat
  OBVIOUS
<1>4. \A i \in 0..Len(name) : i \in S
  BY <1>1, <1>2, <1>3, UpTo
<1> QED BY <1>4 DEF S

(* The search answers as its reference does, for any two sequences.            *)
LEMMA FuzzyMatchFinds ==
    ASSUME NEW T, NEW q \in Seq(T), NEW name \in Seq(T)
    PROVE  FuzzyMatch(q, name) <=> Embedded(q, Len(q), name, Len(name))
<1>1. PICK t : Ticks(t, q, name) /\ (FuzzyMatch(q, name) <=> t[Len(name)] = Len(q))
  BY TickedOff
<1>2. Len(name) \in 0..Len(name) /\ Len(q) \in 0..Len(q) /\ Len(q) \in Nat
  OBVIOUS
<1>3. t[Len(name)] \in Nat /\ t[Len(name)] <= Len(q) /\ Embedded(q, t[Len(name)], name, Len(name))
  BY <1>1, <1>2, TickedStandInOrder DEF Ticks
<1>4. Embedded(q, Len(q), name, Len(name)) => Len(q) <= t[Len(name)]
  BY <1>1, <1>2, TickedAreMost
<1> QED BY <1>1, <1>2, <1>3, <1>4

(* A search for symbols finds exactly the names with its letters in order,     *)
(* whatever is typed and whatever the names are (fuzzyMatch).                  *)
THEOREM SearchFindsSubsequences == TypingSpec => []FuzzyMatchIsSubsequence
<1>1. TextOK => FuzzyMatchIsSubsequence
  <2> SUFFICES ASSUME TextOK, NameTyped, NEW c \in Candidates
               PROVE  FuzzyMatch(content, c) <=>
                        \E places \in [DOMAIN content -> DOMAIN c] :
                            /\ \A i \in DOMAIN content : c[places[i]] = content[i]
                            /\ \A i, j \in DOMAIN content : i < j => places[i] < places[j]
    BY DEF FuzzyMatchIsSubsequence
  <2> DEFINE T == Characters \cup Letters
  <2>1. content \in Seq(T)
    BY DEF TextOK
  <2>2. c \in Seq(T)
    BY CandidatesAssumption
  <2> HIDE DEF T
  <2>3. DOMAIN content = 1..Len(content) /\ DOMAIN c = 1..Len(c)
    BY <2>1, <2>2
  <2>4. FuzzyMatch(content, c) <=> Embedded(content, Len(content), c, Len(c))
    BY <2>1, <2>2, FuzzyMatchFinds
  <2> QED BY <2>3, <2>4 DEF Embedded, Embeds
<1> QED BY <1>1, TextTyped, PTL

-------------------------------------------------------------------------------
(* The least of three numbers.                                                 *)
Cheapest(x, u, v, w) == x \in Nat /\ x <= u /\ x <= v /\ x <= w /\ (x = u \/ x = v \/ x = w)

(* What is in a set and exceeds none of its members is the minimum.            *)
LEMMA MinIs ==
    ASSUME NEW S \in SUBSET Int, NEW x \in S, \A y \in S : x <= y
    PROVE  Min(S) = x
<1>1. \E y \in S : \A z \in S : y <= z
  OBVIOUS
<1>2. Min(S) \in S /\ \A z \in S : Min(S) <= z
  BY <1>1 DEF Min
<1>3. Min(S) \in Int /\ x \in Int /\ x <= Min(S) /\ Min(S) <= x
  BY <1>2
<1> QED BY <1>3

(* The minimum of three numbers is one of them.                                *)
LEMMA MinOfThree ==
    ASSUME NEW u \in Nat, NEW v \in Nat, NEW w \in Nat
    PROVE  Cheapest(Min({u, v, w}), u, v, w)
<1>1. \E x \in {u, v, w} : \A y \in {u, v, w} : x <= y
  <2>1. CASE u <= v /\ u <= w
    BY <2>1
  <2>2. CASE v <= u /\ v <= w
    BY <2>2
  <2>3. CASE w <= u /\ w <= v
    BY <2>3
  <2> QED BY <2>1, <2>2, <2>3
<1>2. Min({u, v, w}) \in {u, v, w} /\ \A y \in {u, v, w} : Min({u, v, w}) <= y
  BY <1>1 DEF Min
<1> QED BY <1>2 DEF Cheapest

(* What a replacement costs.                                                   *)
Differ(x, y) == IF x = y THEN 0 ELSE 1

(* The row after r, for the i-th letter of a.                                  *)
FollowsRow(k, r, a, b, i) ==
    /\ k \in [0..Len(b) -> Nat]
    /\ k[0] = i
    /\ \A j \in 1..Len(b) : Cheapest(k[j], r[j] + 1, k[j - 1] + 1, r[j - 1] + Differ(a[i], b[j]))

(* NextRow computes it.                                                        *)
LEMMA NextRowFollows ==
    ASSUME NEW T, NEW b \in Seq(T), NEW a, NEW i \in Nat, NEW r \in [0..Len(b) -> Nat]
    PROVE  FollowsRow(NextRow(a, b, r, i), r, a, b, i)
<1> DEFINE n == Len(b)
           least(c, j) == Min({r[j] + 1, c + 1, r[j - 1] + (IF a[i] = b[j] THEN 0 ELSE 1)})
           g == [j \in Nat |-> [c \in Nat |-> IF j < n THEN least(c, j + 1) ELSE 0]]
           next(h, j) == IF j = 0 THEN i ELSE least(h[j - 1], j)
           row == CHOOSE h : h = [j \in 0..n |-> next(h, j)]
<1>1. n \in Nat
  OBVIOUS
<1>2. NextRow(a, b, r, i) = row
  BY DEF NextRow
<1>3. ASSUME NEW c \in Nat, NEW j \in 1..n
      PROVE  least(c, j) \in Nat /\ Cheapest(least(c, j), r[j] + 1, c + 1, r[j - 1] + Differ(a[i], b[j]))
  <2> DEFINE d == IF a[i] = b[j] THEN 0 ELSE 1
  <2>1. d \in Nat /\ d = Differ(a[i], b[j])
    BY DEF Differ
  <2> HIDE DEF d
  <2>2. r[j] \in Nat /\ r[j - 1] \in Nat
    OBVIOUS
  <2>3. r[j] + 1 \in Nat /\ c + 1 \in Nat /\ r[j - 1] + d \in Nat
    BY <2>1, <2>2
  <2>4. Cheapest(Min({r[j] + 1, c + 1, r[j - 1] + d}), r[j] + 1, c + 1, r[j - 1] + d)
    BY <2>3, MinOfThree
  <2>5. least(c, j) = Min({r[j] + 1, c + 1, r[j - 1] + d})
    BY DEF d
  <2> HIDE DEF least
  <2>6. least(c, j) \in Nat
    BY <2>4, <2>5 DEF Cheapest
  <2> QED BY <2>1, <2>4, <2>5, <2>6
<1> HIDE DEF least, n
<1>4. g \in [Nat -> [Nat -> Nat]]
  <2>1. \A j \in Nat : j < n => j + 1 \in 1..n
    BY <1>1
  <2> QED BY <1>3, <2>1
<1>5. ASSUME NEW h, NEW j \in 1..n, h[j - 1] \in Nat PROVE next(h, j) = g[j - 1][h[j - 1]]
  <2>1. j - 1 \in Nat /\ (j - 1) + 1 = j /\ j # 0 /\ j - 1 < n
    BY <1>1
  <2> QED BY <1>5, <2>1
<1>6. row = [j \in 0..n |-> next(row, j)]
  <2>1. PICK k \in [0..n -> Nat] : Runs(k, n, Nat, i, g)
    <3> HIDE DEF g
    <3> QED BY <1>1, <1>4, RunExists
  <2>2. ASSUME NEW j \in 0..n PROVE k[j] = next(k, j)
    <3>1. CASE j = 0
      BY <2>1, <3>1 DEF Runs
    <3>2. CASE j # 0
      <4>1. j \in 1..n /\ j - 1 \in 0..n
        BY <1>1, <3>2
      <4> HIDE DEF next, g
      <4> QED BY <1>5, <2>1, <4>1 DEF Runs
    <3> QED BY <3>1, <3>2
  <2> HIDE DEF next
  <2>3. k = [j \in 0..n |-> next(k, j)]
    BY <2>2
  <2> QED BY <2>3
<1> HIDE DEF row
<1>7. Runs(row, n, Nat, i, g)
  <2>1. \A j \in 0..n : row[j] = next(row, j)
    <3> HIDE DEF next
    <3> QED BY <1>6
  <2>2. row = [j \in 0..n |-> row[j]]
    <3> HIDE DEF next
    <3> QED BY <1>6, <2>1
  <2>3. row[0] = i
    BY <1>1, <2>1
  <2>4. ASSUME NEW j \in 1..n, row[j - 1] \in Nat PROVE row[j] = g[j - 1][row[j - 1]]
    <3>1. next(row, j) = g[j - 1][row[j - 1]]
      BY <1>5, <2>4
    <3>2. j \in 0..n
      BY <1>1
    <3> HIDE DEF next, g
    <3> QED BY <2>1, <3>1, <3>2
  <2> HIDE DEF next, g
  <2> QED BY <2>2, <2>3, <2>4 DEF Runs
<1>8. row \in [0..n -> Nat] /\ \A j \in 1..n : row[j] = g[j - 1][row[j - 1]]
  <2> DEFINE N == Nat
  <2>1. n \in Nat /\ i \in N /\ g \in [Nat -> [N -> N]] /\ Runs(row, n, N, i, g)
    BY <1>1, <1>4, <1>7
  <2> HIDE DEF g, N, next
  <2>2. Ran(row, n, N, g)
    BY <2>1, RunTyped
  <2> QED BY <2>2 DEF N, Ran
<1>9. ASSUME NEW j \in 1..n
      PROVE  Cheapest(row[j], r[j] + 1, row[j - 1] + 1, r[j - 1] + Differ(a[i], b[j]))
  <2>1. j - 1 \in Nat /\ (j - 1) + 1 = j /\ j - 1 < n /\ j - 1 \in 0..n
    BY <1>1
  <2>2. row[j] = g[j - 1][row[j - 1]] /\ row[j - 1] \in Nat
    BY <1>8, <2>1
  <2>3. row[j] = least(row[j - 1], j)
    BY <2>1, <2>2
  <2> QED BY <1>3, <2>2, <2>3
<1>10. row[0] = i
  BY <1>7 DEF Runs
<1> QED BY <1>2, <1>8, <1>9, <1>10 DEF FollowsRow, n

(* The rows of the distances between the first letters of a and those of b.    *)
Table(d, a, b) ==
    /\ d \in [0..Len(a) -> [0..Len(b) -> Nat]]
    /\ \A j \in 0..Len(b) : d[0][j] = j
    /\ \A i \in 1..Len(a) : FollowsRow(d[i], d[i - 1], a, b, i)

(* What editDistance answers is in its last row.                               *)
LEMMA DistanceInTable ==
    ASSUME NEW T, NEW a \in Seq(T), NEW b \in Seq(T)
    PROVE  \E d : Table(d, a, b) /\ EditDistance(a, b) = IF a = b THEN 0 ELSE d[Len(a)][Len(b)]
<1> DEFINE m == Len(a)
           n == Len(b)
           R == [0..n -> Nat]
           first == [j \in 0..n |-> j]
           g == [i \in Nat |-> [r \in R |-> NextRow(a, b, r, i + 1)]]
           next(h, i) == IF i = 0 THEN first ELSE NextRow(a, b, h[i - 1], i)
           d == CHOOSE h : h = [i \in 0..m |-> next(h, i)]
<1>1. m \in Nat /\ n \in Nat /\ first \in R /\ \A j \in 0..n : first[j] = j
  OBVIOUS
<1>2. EditDistance(a, b) = IF a = b THEN 0 ELSE d[m][n]
  BY DEF EditDistance
<1>3. ASSUME NEW i \in Nat, NEW r \in R
      PROVE  FollowsRow(NextRow(a, b, r, i), r, a, b, i) /\ NextRow(a, b, r, i) \in R
  <2>1. FollowsRow(NextRow(a, b, r, i), r, a, b, i)
    BY NextRowFollows
  <2> QED BY <2>1 DEF FollowsRow
<1> HIDE DEF m, R, first
<1>4. g \in [Nat -> [R -> R]]
  <2>1. \A i \in Nat : i + 1 \in Nat
    OBVIOUS
  <2> QED BY <1>3, <2>1
<1>5. ASSUME NEW h, NEW i \in 1..m, h[i - 1] \in R PROVE next(h, i) = g[i - 1][h[i - 1]]
  <2>1. i - 1 \in Nat /\ (i - 1) + 1 = i /\ i # 0
    BY <1>1
  <2> QED BY <1>5, <2>1
<1>6. d = [i \in 0..m |-> next(d, i)]
  <2>1. PICK k \in [0..m -> R] : Runs(k, m, R, first, g)
    <3> HIDE DEF g
    <3> QED BY <1>1, <1>4, RunExists
  <2>2. ASSUME NEW i \in 0..m PROVE k[i] = next(k, i)
    <3>1. CASE i = 0
      BY <2>1, <3>1 DEF Runs
    <3>2. CASE i # 0
      <4>1. i \in 1..m /\ i - 1 \in 0..m
        BY <1>1, <3>2
      <4> HIDE DEF next, g
      <4> QED BY <1>5, <2>1, <4>1 DEF Runs
    <3> QED BY <3>1, <3>2
  <2> HIDE DEF next
  <2>3. k = [i \in 0..m |-> next(k, i)]
    BY <2>2
  <2> QED BY <2>3
<1> HIDE DEF d
<1>7. Runs(d, m, R, first, g)
  <2>1. \A i \in 0..m : d[i] = next(d, i)
    <3> HIDE DEF next
    <3> QED BY <1>6
  <2>2. d = [i \in 0..m |-> d[i]]
    <3> HIDE DEF next
    <3> QED BY <1>6, <2>1
  <2>3. d[0] = first
    BY <1>1, <2>1
  <2>4. ASSUME NEW i \in 1..m, d[i - 1] \in R PROVE d[i] = g[i - 1][d[i - 1]]
    <3>1. next(d, i) = g[i - 1][d[i - 1]]
      BY <1>5, <2>4
    <3>2. i \in 0..m
      BY <1>1
    <3> HIDE DEF next, g
    <3> QED BY <2>1, <3>1, <3>2
  <2> HIDE DEF next, g
  <2> QED BY <2>2, <2>3, <2>4 DEF Runs
<1>8. Ran(d, m, R, g)
  <2> HIDE DEF g, next
  <2> QED BY <1>1, <1>4, <1>7, RunTyped
<1>9. d \in [0..m -> R]
  BY <1>8 DEF Ran
<1>10. \A j \in 0..n : d[0][j] = j
  BY <1>1, <1>7 DEF Runs
<1>11. ASSUME NEW i \in 1..m PROVE FollowsRow(d[i], d[i - 1], a, b, i)
  <2>1. i - 1 \in Nat /\ (i - 1) + 1 = i /\ i - 1 \in 0..m /\ i \in Nat
    BY <1>1
  <2>2. d[i] = g[i - 1][d[i - 1]] /\ d[i - 1] \in R
    BY <1>8, <1>9, <2>1 DEF Ran
  <2>3. d[i] = NextRow(a, b, d[i - 1], i)
    BY <2>1, <2>2
  <2> QED BY <1>3, <2>1, <2>2, <2>3
<1>12. Table(d, a, b)
  BY <1>9, <1>10, <1>11 DEF Table, m, R
<1> QED BY <1>2, <1>12 DEF m

-------------------------------------------------------------------------------
(* Alignments of the first i letters of a name with the first j of another.    *)
InOrder(pairs) == \A p, q \in pairs : p = q \/ (p[1] < q[1] /\ p[2] < q[2]) \/ (q[1] < p[1] /\ q[2] < p[2])
Aligns(pairs, i, j) == pairs \in SUBSET ((1..i) \X (1..j)) /\ InOrder(pairs)

(* Its pairs that differ, and what it costs.                                   *)
Replaced(pairs, a, b) == {p \in pairs : a[p[1]] # b[p[2]]}
CostUpTo(pairs, a, b, i, j) == Cardinality(Replaced(pairs, a, b)) + i + j - 2 * Cardinality(pairs)

(* What the cheapest costs.                                                    *)
AtLeast(x, a, b, i, j) == \A pairs : Aligns(pairs, i, j) => x <= CostUpTo(pairs, a, b, i, j)
Attained(x, a, b, i, j) == \E pairs : Aligns(pairs, i, j) /\ CostUpTo(pairs, a, b, i, j) = x
Least(x, a, b, i, j) == AtLeast(x, a, b, i, j) /\ Attained(x, a, b, i, j)

(* An alignment is finite.                                                     *)
LEMMA AlignmentFinite ==
    ASSUME NEW a, NEW b, NEW i \in Nat, NEW j \in Nat, NEW pairs, Aligns(pairs, i, j)
    PROVE  /\ IsFiniteSet(pairs) /\ Cardinality(pairs) \in Nat
           /\ IsFiniteSet(Replaced(pairs, a, b)) /\ Cardinality(Replaced(pairs, a, b)) \in Nat
<1>1. IsFiniteSet(1..i) /\ IsFiniteSet(1..j)
  BY FS_Interval
<1>2. IsFiniteSet((1..i) \X (1..j))
  BY <1>1, FS_Product
<1>3. IsFiniteSet(pairs)
  BY <1>2, FS_Subset DEF Aligns
<1>4. Replaced(pairs, a, b) \in SUBSET pairs
  BY DEF Replaced
<1>5. IsFiniteSet(Replaced(pairs, a, b))
  BY <1>3, <1>4, FS_Subset
<1> QED BY <1>3, <1>5, FS_CardinalityType

(* What one pair more does to these numbers.                                   *)
OneMore(pairs, a, b, i, j) ==
    /\ Cardinality(pairs \cup {<<i, j>>}) = Cardinality(pairs) + 1
    /\ Cardinality(Replaced(pairs \cup {<<i, j>>}, a, b)) = Cardinality(Replaced(pairs, a, b)) + Differ(a[i], b[j])

(* It counts, and is replaced if its letters differ.                           *)
LEMMA PairAdded ==
    ASSUME NEW a, NEW b, NEW i \in Nat, NEW j \in Nat, NEW pairs, <<i, j>> \notin pairs,
           IsFiniteSet(pairs), IsFiniteSet(Replaced(pairs, a, b))
    PROVE  OneMore(pairs, a, b, i, j)
<1>1. Cardinality(pairs \cup {<<i, j>>}) = Cardinality(pairs) + 1
  BY FS_AddElement
<1>2. Cardinality(Replaced(pairs, a, b)) \in Nat
  BY FS_CardinalityType
<1>3. <<i, j>>[1] = i /\ <<i, j>>[2] = j
  OBVIOUS
<1>4. CASE a[i] = b[j]
  <2>1. Replaced(pairs \cup {<<i, j>>}, a, b) = Replaced(pairs, a, b)
    BY <1>3, <1>4 DEF Replaced
  <2> QED BY <1>1, <1>2, <1>4, <2>1 DEF Differ, OneMore
<1>5. CASE a[i] # b[j]
  <2>1. Replaced(pairs \cup {<<i, j>>}, a, b) = Replaced(pairs, a, b) \cup {<<i, j>>}
    BY <1>3, <1>5 DEF Replaced
  <2>2. <<i, j>> \notin Replaced(pairs, a, b)
    BY DEF Replaced
  <2>3. Cardinality(Replaced(pairs, a, b) \cup {<<i, j>>}) = Cardinality(Replaced(pairs, a, b)) + 1
    BY <2>2, FS_AddElement
  <2> QED BY <1>1, <1>5, <2>1, <2>3 DEF Differ, OneMore
<1> QED BY <1>4, <1>5

(* An alignment of fewer letters is one of more: the new letter has no partner.*)
LEMMA AlignsLonger ==
    ASSUME NEW a, NEW b, NEW i \in Nat, NEW j \in Nat, NEW pairs, Aligns(pairs, i, j)
    PROVE  /\ Aligns(pairs, i + 1, j)
           /\ Aligns(pairs, i, j + 1)
           /\ CostUpTo(pairs, a, b, i + 1, j) = CostUpTo(pairs, a, b, i, j) + 1
           /\ CostUpTo(pairs, a, b, i, j + 1) = CostUpTo(pairs, a, b, i, j) + 1
<1>1. (1..i) \subseteq 1..(i + 1) /\ (1..j) \subseteq 1..(j + 1)
  OBVIOUS
<1>2. Cardinality(pairs) \in Nat /\ Cardinality(Replaced(pairs, a, b)) \in Nat
  BY AlignmentFinite
<1>3. Aligns(pairs, i + 1, j) /\ Aligns(pairs, i, j + 1)
  BY <1>1 DEF Aligns
<1> QED BY <1>2, <1>3 DEF CostUpTo

(* What becomes of an alignment when the next letters are aligned too.         *)
Extends(pairs, a, b, i, j) ==
    /\ Aligns(pairs \cup {<<i + 1, j + 1>>}, i + 1, j + 1)
    /\ CostUpTo(pairs \cup {<<i + 1, j + 1>>}, a, b, i + 1, j + 1)
         = CostUpTo(pairs, a, b, i, j) + Differ(a[i + 1], b[j + 1])

(* Or it is aligned with the other new letter.                                 *)
LEMMA AlignsBoth ==
    ASSUME NEW a, NEW b, NEW i \in Nat, NEW j \in Nat, NEW pairs, Aligns(pairs, i, j)
    PROVE  Extends(pairs, a, b, i, j)
<1> DEFINE more == pairs \cup {<<i + 1, j + 1>>}
<1>1. \A p \in pairs : p \in (1..i) \X (1..j)
  BY DEF Aligns
<1>2. <<i + 1, j + 1>> \notin pairs
  BY <1>1
<1>3. \A p \in pairs : p[1] < i + 1 /\ p[2] < j + 1 /\ p \in (1..(i + 1)) \X (1..(j + 1))
  BY <1>1
<1>4. InOrder(more)
  <2>1. <<i + 1, j + 1>>[1] = i + 1 /\ <<i + 1, j + 1>>[2] = j + 1
    OBVIOUS
  <2>2. InOrder(pairs)
    BY DEF Aligns
  <2>3. ASSUME NEW p \in more, NEW q \in more
        PROVE  p = q \/ (p[1] < q[1] /\ p[2] < q[2]) \/ (q[1] < p[1] /\ q[2] < p[2])
    <3>1. CASE p \in pairs /\ q \in pairs
      BY <2>2, <3>1 DEF InOrder
    <3>2. CASE p \in pairs /\ q = <<i + 1, j + 1>>
      BY <1>3, <2>1, <3>2
    <3>3. CASE p = <<i + 1, j + 1>> /\ q \in pairs
      BY <1>3, <2>1, <3>3
    <3> QED BY <3>1, <3>2, <3>3
  <2> HIDE DEF more
  <2> QED BY <2>3 DEF InOrder
<1>5. more \in SUBSET ((1..(i + 1)) \X (1..(j + 1)))
  BY <1>3
<1>6. /\ Cardinality(pairs) \in Nat /\ Cardinality(Replaced(pairs, a, b)) \in Nat
      /\ IsFiniteSet(pairs) /\ IsFiniteSet(Replaced(pairs, a, b))
  BY AlignmentFinite
<1>7. /\ Cardinality(more) = Cardinality(pairs) + 1
      /\ Cardinality(Replaced(more, a, b)) = Cardinality(Replaced(pairs, a, b)) + Differ(a[i + 1], b[j + 1])
  <2>1. i + 1 \in Nat /\ j + 1 \in Nat
    OBVIOUS
  <2>2. OneMore(pairs, a, b, i + 1, j + 1)
    <3> HIDE DEF more
    <3> QED BY <1>2, <1>6, <2>1, PairAdded
  <2> QED BY <2>2 DEF OneMore
<1> HIDE DEF more
<1>8. Differ(a[i + 1], b[j + 1]) \in Nat
  BY DEF Differ
<1>9. CostUpTo(more, a, b, i + 1, j + 1) = CostUpTo(pairs, a, b, i, j) + Differ(a[i + 1], b[j + 1])
  BY <1>6, <1>7, <1>8 DEF CostUpTo
<1> QED BY <1>4, <1>5, <1>9 DEF Aligns, Extends, more

(* Every alignment is one of these.                                            *)
OneOf(pairs, i, j) ==
    \/ Aligns(pairs, i, j + 1)
    \/ Aligns(pairs, i + 1, j)
    \/ \E fewer : Aligns(fewer, i, j) /\ pairs = fewer \cup {<<i + 1, j + 1>>}

(* An alignment of longer words ends in one of the three ways.               *)
LEMMA AlignsSplit ==
    ASSUME NEW i \in Nat, NEW j \in Nat, NEW pairs, Aligns(pairs, i + 1, j + 1)
    PROVE  OneOf(pairs, i, j)
<1>1. \A p \in pairs : p \in (1..(i + 1)) \X (1..(j + 1))
  BY DEF Aligns
<1>2. InOrder(pairs)
  BY DEF Aligns
<1>3. CASE <<i + 1, j + 1>> \in pairs
  <2> DEFINE fewer == pairs \ {<<i + 1, j + 1>>}
  <2>1. ASSUME NEW p \in fewer PROVE p \in (1..i) \X (1..j)
    <3>1. p \in (1..(i + 1)) \X (1..(j + 1)) /\ p # <<i + 1, j + 1>> /\ p \in pairs
      BY <1>1
    <3>2. \/ p[1] < i + 1 /\ p[2] < j + 1
          \/ i + 1 < p[1] /\ j + 1 < p[2]
      BY <1>2, <1>3, <3>1 DEF InOrder
    <3>3. PICK x \in 1..(i + 1), y \in 1..(j + 1) : p = <<x, y>>
      BY <3>1
    <3>4. x < i + 1 /\ y < j + 1
      BY <3>2, <3>3
    <3>5. x \in 1..i /\ y \in 1..j
      BY <3>4
    <3> QED BY <3>3, <3>5
  <2>2. Aligns(fewer, i, j)
    <3>1. fewer \in SUBSET ((1..i) \X (1..j))
      BY <2>1
    <3>2. InOrder(fewer)
      BY <1>2 DEF InOrder
    <3> QED BY <3>1, <3>2 DEF Aligns
  <2>3. pairs = fewer \cup {<<i + 1, j + 1>>}
    BY <1>3
  <2> QED BY <2>2, <2>3 DEF OneOf
<1>4. CASE <<i + 1, j + 1>> \notin pairs
  <2>1. CASE \A p \in pairs : p[1] # i + 1
    <3>1. ASSUME NEW p \in pairs PROVE p \in (1..i) \X (1..(j + 1))
      <4>1. PICK x \in 1..(i + 1), y \in 1..(j + 1) : p = <<x, y>>
        BY <1>1
      <4>2. x \in 1..i
        BY <2>1, <4>1
      <4> QED BY <4>1, <4>2
    <3> QED BY <1>2, <3>1 DEF Aligns, OneOf
  <2>2. CASE \A p \in pairs : p[2] # j + 1
    <3>1. ASSUME NEW p \in pairs PROVE p \in (1..(i + 1)) \X (1..j)
      <4>1. PICK x \in 1..(i + 1), y \in 1..(j + 1) : p = <<x, y>>
        BY <1>1
      <4>2. y \in 1..j
        BY <2>2, <4>1
      <4> QED BY <4>1, <4>2
    <3> QED BY <1>2, <3>1 DEF Aligns, OneOf
  <2>3. ASSUME NEW p \in pairs, NEW q \in pairs, p[1] = i + 1, q[2] = j + 1 PROVE FALSE
    <3>1. PICK x \in 1..(i + 1), y \in 1..(j + 1) : p = <<x, y>>
      BY <1>1
    <3>2. PICK v \in 1..(i + 1), w \in 1..(j + 1) : q = <<v, w>>
      BY <1>1
    <3>3. x = i + 1 /\ w = j + 1
      BY <2>3, <3>1, <3>2
    <3>4. p # q
      BY <1>4, <3>1, <3>2, <3>3
    <3>5. (x < v /\ y < w) \/ (v < x /\ w < y)
      BY <1>2, <3>1, <3>2, <3>4 DEF InOrder
    <3> QED BY <3>3, <3>5
  <2> QED BY <2>1, <2>2, <2>3
<1> QED BY <1>3, <1>4

(* What a cell of the table holds, in every row and column.                    *)
LEMMA LeastNext ==
    ASSUME NEW a, NEW b, NEW i \in Nat, NEW j \in Nat, NEW x, NEW u \in Nat, NEW v \in Nat, NEW w \in Nat,
           Least(u, a, b, i, j + 1), Least(v, a, b, i + 1, j), Least(w, a, b, i, j),
           Cheapest(x, u + 1, v + 1, w + Differ(a[i + 1], b[j + 1]))
    PROVE  Least(x, a, b, i + 1, j + 1)
<1> DEFINE d == Differ(a[i + 1], b[j + 1])
<1>1. d \in Nat /\ i + 1 \in Nat /\ j + 1 \in Nat
  BY DEF Differ
<1>2. x \in Nat /\ x <= u + 1 /\ x <= v + 1 /\ x <= w + d /\ (x = u + 1 \/ x = v + 1 \/ x = w + d)
  BY DEF Cheapest
<1>3. ASSUME NEW pairs, Aligns(pairs, i, j + 1)
      PROVE  Aligns(pairs, i + 1, j + 1) /\ CostUpTo(pairs, a, b, i + 1, j + 1) = CostUpTo(pairs, a, b, i, j + 1) + 1
  BY <1>1, <1>3, AlignsLonger
<1>4. ASSUME NEW pairs, Aligns(pairs, i + 1, j)
      PROVE  Aligns(pairs, i + 1, j + 1) /\ CostUpTo(pairs, a, b, i + 1, j + 1) = CostUpTo(pairs, a, b, i + 1, j) + 1
  BY <1>1, <1>4, AlignsLonger
<1>5. ASSUME NEW pairs, Aligns(pairs, i, j)
      PROVE  /\ Aligns(pairs \cup {<<i + 1, j + 1>>}, i + 1, j + 1)
             /\ CostUpTo(pairs \cup {<<i + 1, j + 1>>}, a, b, i + 1, j + 1) = CostUpTo(pairs, a, b, i, j) + d
  <2>1. Extends(pairs, a, b, i, j)
    BY <1>5, AlignsBoth
  <2> QED BY <2>1 DEF Extends
<1>6. ASSUME NEW k \in Nat, NEW l \in Nat, NEW pairs, Aligns(pairs, k, l)
      PROVE  CostUpTo(pairs, a, b, k, l) \in Int
  <2>1. Cardinality(pairs) \in Nat /\ Cardinality(Replaced(pairs, a, b)) \in Nat
    BY <1>6, AlignmentFinite
  <2> QED BY <2>1 DEF CostUpTo
<1> HIDE DEF d
<1>7. ASSUME NEW pairs, Aligns(pairs, i + 1, j + 1) PROVE x <= CostUpTo(pairs, a, b, i + 1, j + 1)
  <2>1. CASE Aligns(pairs, i, j + 1)
    <3>1. u <= CostUpTo(pairs, a, b, i, j + 1) /\ CostUpTo(pairs, a, b, i, j + 1) \in Int
      BY <1>1, <1>6, <2>1 DEF Least, AtLeast
    <3> QED BY <1>2, <1>3, <2>1, <3>1
  <2>2. CASE Aligns(pairs, i + 1, j)
    <3>1. v <= CostUpTo(pairs, a, b, i + 1, j) /\ CostUpTo(pairs, a, b, i + 1, j) \in Int
      BY <1>1, <1>6, <2>2 DEF Least, AtLeast
    <3> QED BY <1>2, <1>4, <2>2, <3>1
  <2>3. ASSUME NEW fewer, Aligns(fewer, i, j), pairs = fewer \cup {<<i + 1, j + 1>>}
        PROVE  x <= CostUpTo(pairs, a, b, i + 1, j + 1)
    <3>1. w <= CostUpTo(fewer, a, b, i, j) /\ CostUpTo(fewer, a, b, i, j) \in Int
      BY <1>6, <2>3 DEF Least, AtLeast
    <3>2. CostUpTo(pairs, a, b, i + 1, j + 1) = CostUpTo(fewer, a, b, i, j) + d
      BY <1>5, <2>3
    <3> QED BY <1>1, <1>2, <3>1, <3>2
  <2>4. OneOf(pairs, i, j)
    BY <1>7, AlignsSplit
  <2> QED BY <2>1, <2>2, <2>3, <2>4 DEF OneOf
<1>8. CASE x = u + 1
  <2>1. PICK pairs : Aligns(pairs, i, j + 1) /\ CostUpTo(pairs, a, b, i, j + 1) = u
    BY DEF Least, Attained
  <2> QED BY <1>3, <1>7, <1>8, <2>1 DEF Least, AtLeast, Attained
<1>9. CASE x = v + 1
  <2>1. PICK pairs : Aligns(pairs, i + 1, j) /\ CostUpTo(pairs, a, b, i + 1, j) = v
    BY DEF Least, Attained
  <2> QED BY <1>4, <1>7, <1>9, <2>1 DEF Least, AtLeast, Attained
<1>10. CASE x = w + d
  <2>1. PICK pairs : Aligns(pairs, i, j) /\ CostUpTo(pairs, a, b, i, j) = w
    BY DEF Least, Attained
  <2> QED BY <1>5, <1>7, <1>10, <2>1 DEF Least, AtLeast, Attained
<1> QED BY <1>2, <1>8, <1>9, <1>10

(* Along the edges nothing has a partner.                                      *)
LEMMA LeastAtEdge ==
    ASSUME NEW a, NEW b, NEW i \in Nat, NEW j \in Nat, i = 0 \/ j = 0, NEW x, x = i + j
    PROVE  Least(x, a, b, i, j)
<1>1. \A pairs : Aligns(pairs, i, j) <=> pairs = {}
  <2>1. (1..i) \X (1..j) = {}
    <3>1. 1..0 = {}
      OBVIOUS
    <3> QED BY <3>1
  <2> QED BY <2>1 DEF Aligns, InOrder
<1>2. CostUpTo({}, a, b, i, j) = i + j
  <2>1. Replaced({}, a, b) = {}
    BY DEF Replaced
  <2> QED BY <2>1, FS_EmptySet DEF CostUpTo
<1> QED BY <1>1, <1>2 DEF Least, AtLeast, Attained

(* So the table holds the cost of the cheapest alignments.                     *)
LEMMA TableIsLeast ==
    ASSUME NEW T, NEW a \in Seq(T), NEW b \in Seq(T), NEW d, Table(d, a, b)
    PROVE  \A i \in 0..Len(a) : \A j \in 0..Len(b) : d[i][j] \in Nat /\ Least(d[i][j], a, b, i, j)
<1> DEFINE m == Len(a)
           n == Len(b)
           Row(i) == \A j \in 0..n : d[i][j] \in Nat /\ Least(d[i][j], a, b, i, j)
           S == {i \in 0..m : Row(i)}
<1>1. m \in Nat /\ n \in Nat
  OBVIOUS
<1>2. \A i \in 0..m : \A j \in 0..n : d[i][j] \in Nat
  BY DEF Table
<1>3. Row(0)
  <2> SUFFICES ASSUME NEW j \in 0..n PROVE Least(d[0][j], a, b, 0, j)
    BY <1>1, <1>2
  <2>1. d[0][j] = 0 + j /\ 0 \in Nat /\ j \in Nat
    BY DEF Table
  <2> HIDE DEF S, Row, n, m
  <2> QED BY <2>1, LeastAtEdge
<1>4. ASSUME NEW i \in 0..(m - 1), Row(i) PROVE Row(i + 1)
  <2>1. i \in Nat /\ i + 1 \in 1..m /\ (i + 1) - 1 = i /\ i + 1 \in 0..m /\ i \in 0..m
    BY <1>1
  <2>2. FollowsRow(d[i + 1], d[i], a, b, i + 1)
    BY <2>1 DEF Table
  <2> DEFINE C == {j \in 0..n : Least(d[i + 1][j], a, b, i + 1, j)}
  <2>3. 0 \in C
    <3>1. d[i + 1][0] = (i + 1) + 0 /\ 0 \in Nat /\ i + 1 \in Nat
      BY <2>1, <2>2 DEF FollowsRow
    <3>2. Least(d[i + 1][0], a, b, i + 1, 0)
      <4> HIDE DEF C, S, Row, n, m
      <4> QED BY <3>1, LeastAtEdge
    <3> QED BY <1>1, <3>2
  <2>4. ASSUME NEW j \in 0..(n - 1), j \in C PROVE j + 1 \in C
    <3>1. j \in Nat /\ j + 1 \in 1..n /\ (j + 1) - 1 = j /\ j + 1 \in 0..n /\ j \in 0..n
      BY <1>1
    <3>2. Least(d[i + 1][j], a, b, i + 1, j)
      BY <2>4
    <3>3. Least(d[i][j], a, b, i, j) /\ Least(d[i][j + 1], a, b, i, j + 1)
      BY <1>4, <3>1
    <3>4. Cheapest(d[i + 1][j + 1], d[i][j + 1] + 1, d[i + 1][j] + 1, d[i][j] + Differ(a[i + 1], b[j + 1]))
      BY <2>2, <3>1 DEF FollowsRow
    <3>5. d[i][j + 1] \in Nat /\ d[i + 1][j] \in Nat /\ d[i][j] \in Nat
      BY <1>2, <2>1, <3>1
    <3>6. Least(d[i + 1][j + 1], a, b, i + 1, j + 1)
      BY <2>1, <3>1, <3>2, <3>3, <3>4, <3>5, LeastNext
    <3> QED BY <3>1, <3>6
  <2> HIDE DEF C, n
  <2>5. \A j \in 0..n : j \in C
    BY <1>1, <2>3, <2>4, UpTo
  <2> QED BY <1>2, <2>1, <2>5 DEF C
<1>5. ASSUME NEW i \in 0..(m - 1), i \in S PROVE i + 1 \in S
  <2>1. i + 1 \in 0..m
    BY <1>1
  <2> HIDE DEF Row
  <2> QED BY <1>4, <1>5, <2>1
<1>6. 0 \in S
  <2> HIDE DEF Row
  <2> QED BY <1>1, <1>3
<1> HIDE DEF S, m
<1>7. \A i \in 0..m : i \in S
  BY <1>1, <1>5, <1>6, UpTo
<1> QED BY <1>7 DEF S, m

(* Equal names are at no distance, as editDistance answers at once.            *)
LEMMA DistanceIsLeast ==
    ASSUME NEW T, NEW a \in Seq(T), NEW b \in Seq(T)
    PROVE  EditDistance(a, b) \in Nat /\ Least(EditDistance(a, b), a, b, Len(a), Len(b))
<1>1. PICK d : Table(d, a, b) /\ EditDistance(a, b) = IF a = b THEN 0 ELSE d[Len(a)][Len(b)]
  BY DistanceInTable
<1>2. Len(a) \in 0..Len(a) /\ Len(b) \in 0..Len(b) /\ Len(a) \in Nat
  OBVIOUS
<1>3. d[Len(a)][Len(b)] \in Nat /\ Least(d[Len(a)][Len(b)], a, b, Len(a), Len(b))
  BY <1>1, <1>2, TableIsLeast
<1>4. CASE a # b
  BY <1>1, <1>3, <1>4
<1>5. CASE a = b
  <2> DEFINE m == Len(a)
             S == {i \in 0..m : d[i][i] = 0}
  <2>1. 0 \in S
    BY <1>1, <1>5 DEF Table
  <2>2. ASSUME NEW i \in 0..(m - 1), i \in S PROVE i + 1 \in S
    <3>1. i + 1 \in 1..m /\ (i + 1) - 1 = i /\ i + 1 \in 0..m /\ i \in 0..m
      BY <1>2
    <3>2. FollowsRow(d[i + 1], d[i], a, a, i + 1)
      BY <1>1, <1>5, <3>1 DEF Table
    <3>3. Cheapest(d[i + 1][i + 1], d[i][i + 1] + 1, d[i + 1][i] + 1, d[i][i] + Differ(a[i + 1], a[i + 1]))
      BY <3>1, <3>2 DEF FollowsRow
    <3>4. d[i][i] = 0
      BY <2>2
    <3>5. d[i + 1][i + 1] = 0
      BY <3>3, <3>4 DEF Cheapest, Differ
    <3> QED BY <3>1, <3>5
  <2> HIDE DEF S, m
  <2>3. \A i \in 0..m : i \in S
    BY <1>2, <2>1, <2>2, UpTo DEF m
  <2>4. d[Len(a)][Len(a)] = 0
    BY <1>2, <2>3 DEF S, m
  <2> QED BY <1>1, <1>3, <1>5, <2>4
<1> QED BY <1>4, <1>5

(* It is what the cheapest alignment costs.                                    *)
LEMMA DistanceIsMinimal ==
    ASSUME NEW T, NEW a \in Seq(T), NEW b \in Seq(T)
    PROVE  EditDistance(a, b) = Min({Cost(a, b, pairs) : pairs \in Alignments(a, b)})
<1> DEFINE x == EditDistance(a, b)
           C == {Cost(a, b, pairs) : pairs \in Alignments(a, b)}
<1>1. Len(a) \in Nat /\ Len(b) \in Nat /\ DOMAIN a = 1..Len(a) /\ DOMAIN b = 1..Len(b)
  OBVIOUS
<1>2. x \in Nat /\ Least(x, a, b, Len(a), Len(b))
  BY DistanceIsLeast
<1> HIDE DEF x
<1>3. \A pairs : pairs \in Alignments(a, b) <=> Aligns(pairs, Len(a), Len(b))
  BY <1>1 DEF Alignments, Aligns, InOrder
<1>4. \A pairs : Cost(a, b, pairs) = CostUpTo(pairs, a, b, Len(a), Len(b))
  BY DEF Cost, CostUpTo, Replaced
<1>5. ASSUME NEW pairs \in Alignments(a, b) PROVE Cost(a, b, pairs) \in Int /\ x <= Cost(a, b, pairs)
  <2>1. Aligns(pairs, Len(a), Len(b))
    BY <1>3
  <2>2. Cardinality(pairs) \in Nat /\ Cardinality(Replaced(pairs, a, b)) \in Nat
    BY <1>1, <2>1, AlignmentFinite
  <2>3. CostUpTo(pairs, a, b, Len(a), Len(b)) \in Int
    BY <1>1, <2>2 DEF CostUpTo
  <2> QED BY <1>2, <1>4, <2>1, <2>3 DEF Least, AtLeast
<1>6. x \in C
  BY <1>2, <1>3, <1>4 DEF Least, Attained
<1>7. C \in SUBSET Int /\ \A y \in C : x <= y
  BY <1>5
<1> HIDE DEF C
<1>8. Min(C) = x
  BY <1>6, <1>7, MinIs
<1> QED BY <1>8 DEF C, x

(* The table of b and a, turned, is the table of a and b.                      *)
LEMMA TableTurned ==
    ASSUME NEW T, NEW a \in Seq(T), NEW b \in Seq(T), NEW e, Table(e, b, a)
    PROVE  Table([i \in 0..Len(a) |-> [j \in 0..Len(b) |-> e[j][i]]], a, b)
<1> DEFINE m == Len(a)
           n == Len(b)
           d == [i \in 0..m |-> [j \in 0..n |-> e[j][i]]]
<1>1. m \in Nat /\ n \in Nat
  OBVIOUS
<1>2. \A j \in 0..n : \A i \in 0..m : e[j][i] \in Nat
  BY DEF Table
<1>3. \A i \in 0..m : \A j \in 0..n : d[i][j] = e[j][i]
  OBVIOUS
<1>4. d \in [0..m -> [0..n -> Nat]]
  BY <1>2
<1> HIDE DEF d
<1>5. ASSUME NEW j \in 1..n
      PROVE  /\ e[j][0] = j
             /\ \A i \in 1..m : Cheapest(e[j][i], e[j - 1][i] + 1, e[j][i - 1] + 1, e[j - 1][i - 1] + Differ(b[j], a[i]))
  <2>1. FollowsRow(e[j], e[j - 1], b, a, j)
    BY DEF Table
  <2> QED BY <2>1 DEF FollowsRow
<1>6. \A i \in 0..m : e[0][i] = i
  BY DEF Table
<1> HIDE DEF m, n
<1>7. ASSUME NEW j \in 0..n PROVE d[0][j] = j
  <2>1. CASE j = 0
    BY <1>1, <1>3, <1>6, <2>1
  <2>2. CASE j # 0
    <3>1. j \in 1..n
      BY <1>1, <2>2
    <3> QED BY <1>1, <1>3, <1>5, <3>1
  <2> QED BY <2>1, <2>2
<1>8. ASSUME NEW i \in 1..m PROVE FollowsRow(d[i], d[i - 1], a, b, i)
  <2>1. i \in 0..m /\ i - 1 \in 0..m
    BY <1>1
  <2>2. d[i] \in [0..n -> Nat]
    BY <1>4, <2>1
  <2>3. d[i][0] = i
    BY <1>1, <1>3, <1>6, <2>1
  <2>4. ASSUME NEW j \in 1..n
        PROVE  Cheapest(d[i][j], d[i - 1][j] + 1, d[i][j - 1] + 1, d[i - 1][j - 1] + Differ(a[i], b[j]))
    <3>1. j \in 0..n /\ j - 1 \in 0..n
      BY <1>1
    <3>2. /\ d[i][j] = e[j][i] /\ d[i - 1][j] = e[j][i - 1]
          /\ d[i][j - 1] = e[j - 1][i] /\ d[i - 1][j - 1] = e[j - 1][i - 1]
      BY <1>3, <2>1, <3>1
    <3>3. Cheapest(e[j][i], e[j - 1][i] + 1, e[j][i - 1] + 1, e[j - 1][i - 1] + Differ(b[j], a[i]))
      BY <1>5
    <3>4. Differ(b[j], a[i]) = Differ(a[i], b[j])
      BY DEF Differ
    <3>5. Cheapest(e[j][i], e[j][i - 1] + 1, e[j - 1][i] + 1, e[j - 1][i - 1] + Differ(a[i], b[j]))
      BY <3>3, <3>4 DEF Cheapest
    <3> QED BY <3>2, <3>5
  <2> QED BY <2>2, <2>3, <2>4 DEF FollowsRow, n
<1> QED BY <1>4, <1>7, <1>8 DEF Table, m, n, d

(* The distance is the same from either side.                                  *)
LEMMA DistanceTurned ==
    ASSUME NEW T, NEW a \in Seq(T), NEW b \in Seq(T)
    PROVE  EditDistance(b, a) = EditDistance(a, b)
<1>1. CASE a = b
  BY <1>1
<1>2. CASE a # b
  <2>1. PICK e : Table(e, b, a) /\ EditDistance(b, a) = IF b = a THEN 0 ELSE e[Len(b)][Len(a)]
    BY DistanceInTable
  <2> DEFINE d == [i \in 0..Len(a) |-> [j \in 0..Len(b) |-> e[j][i]]]
  <2>2. Len(a) \in 0..Len(a) /\ Len(b) \in 0..Len(b)
    OBVIOUS
  <2>3. d[Len(a)][Len(b)] = EditDistance(b, a)
    BY <1>2, <2>1, <2>2
  <2>4. Table(d, a, b)
    BY <2>1, TableTurned
  <2> HIDE DEF d
  <2>5. d[Len(a)][Len(b)] \in Nat /\ Least(d[Len(a)][Len(b)], a, b, Len(a), Len(b))
    BY <2>2, <2>4, TableIsLeast
  <2> DEFINE x == EditDistance(b, a)
             y == EditDistance(a, b)
  <2>6. x \in Nat /\ Least(x, a, b, Len(a), Len(b))
    BY <2>3, <2>5
  <2>7. y \in Nat /\ Least(y, a, b, Len(a), Len(b))
    BY DistanceIsLeast
  <2> HIDE DEF x, y
  <2>8. x <= y /\ y <= x
    BY <2>6, <2>7 DEF Least, AtLeast, Attained
  <2>9. x = y
    BY <2>6, <2>7, <2>8
  <2> QED BY <2>9 DEF x, y
<1> QED BY <1>1, <1>2

(* The distance diagnostics go by is that of the cheapest alignment, whatever  *)
(* is typed and whatever the names are (editDistance).                         *)
THEOREM DistancesAreMinimal == TypingSpec => []EditDistanceIsMinimal
<1>1. TextOK => EditDistanceIsMinimal
  <2> SUFFICES ASSUME TextOK, NEW c \in Candidates
               PROVE  /\ EditDistance(content, c) = Min({Cost(content, c, pairs) : pairs \in Alignments(content, c)})
                      /\ EditDistance(c, content) = EditDistance(content, c)
    BY DEF EditDistanceIsMinimal
  <2> DEFINE T == Characters \cup Letters
  <2>1. content \in Seq(T)
    BY DEF TextOK
  <2>2. c \in Seq(T)
    BY CandidatesAssumption
  <2> HIDE DEF T
  <2> QED BY <2>1, <2>2, DistanceIsMinimal, DistanceTurned
<1> QED BY <1>1, TextTyped, PTL

-------------------------------------------------------------------------------
(* The best of the first i candidates: none if they all differ too much, or    *)
(* one of them that differs least.                                             *)
BestOf(best, name, candidates, limit, i) ==
    \/ /\ best = [name |-> NoName, distance |-> limit]
       /\ \A k \in 1..i : EditDistance(name, candidates[k]) >= limit
    \/ /\ best.distance < limit
       /\ best.distance = EditDistance(name, best.name)
       /\ \E k \in 1..i : best.name = candidates[k]
       /\ \A k \in 1..i : EditDistance(name, candidates[k]) >= best.distance

(* suggest finds it among them all.                                            *)
LEMMA SuggestIsBest ==
    ASSUME NEW T, NEW name \in Seq(T), NEW candidates \in Seq(Seq(T)), NEW limit \in Nat,
           limit = Len(name) \div 2 + 1
    PROVE  \E best : best.name = Suggest(name, candidates) /\ BestOf(best, name, candidates, limit, Len(candidates))
<1> DEFINE n == Len(candidates)
           R == [name : Seq(T), distance : Nat]
           first == [name |-> NoName, distance |-> limit]
           Distance(i) == EditDistance(name, candidates[i])
           better(r, i) == IF Distance(i) < r.distance THEN [name |-> candidates[i], distance |-> Distance(i)] ELSE r
           g == [i \in Nat |-> [r \in R |-> IF i < n THEN better(r, i + 1) ELSE r]]
           next(h, i) == IF i = 0 THEN first ELSE better(h[i - 1], i)
           best == CHOOSE h : h = [i \in 0..n |-> next(h, i)]
<1>1. n \in Nat /\ first \in R
  BY DEF NoName
<1>2. Suggest(name, candidates) = best[n].name
  BY DEF Suggest
<1>3. \A i \in 1..n : candidates[i] \in Seq(T)
  OBVIOUS
<1>4. \A i \in 1..n : Distance(i) \in Nat
  BY <1>3, DistanceIsLeast
<1> HIDE DEF n, first, Distance
<1>5. ASSUME NEW r \in R, NEW i \in 1..n PROVE better(r, i) \in R
  BY <1>3, <1>4
<1> HIDE DEF R, better
<1>6. g \in [Nat -> [R -> R]]
  <2>1. \A i \in Nat : i < n => i + 1 \in 1..n
    BY <1>1
  <2> QED BY <1>5, <2>1
<1>7. ASSUME NEW h, NEW i \in 1..n, h[i - 1] \in R PROVE next(h, i) = g[i - 1][h[i - 1]]
  <2>1. i - 1 \in Nat /\ (i - 1) + 1 = i /\ i # 0 /\ i - 1 < n
    BY <1>1
  <2> QED BY <1>7, <2>1
<1>8. best = [i \in 0..n |-> next(best, i)]
  <2>1. PICK k \in [0..n -> R] : Runs(k, n, R, first, g)
    <3> HIDE DEF g
    <3> QED BY <1>1, <1>6, RunExists
  <2>2. ASSUME NEW i \in 0..n PROVE k[i] = next(k, i)
    <3>1. CASE i = 0
      BY <2>1, <3>1 DEF Runs
    <3>2. CASE i # 0
      <4>1. i \in 1..n /\ i - 1 \in 0..n
        BY <1>1, <3>2
      <4> HIDE DEF next, g
      <4> QED BY <1>7, <2>1, <4>1 DEF Runs
    <3> QED BY <3>1, <3>2
  <2> HIDE DEF next
  <2>3. k = [i \in 0..n |-> next(k, i)]
    BY <2>2
  <2> QED BY <2>3
<1> HIDE DEF best
<1>9. \A i \in 0..n : best[i] = next(best, i)
  <2> HIDE DEF next
  <2> QED BY <1>8
<1> DEFINE S == {i \in 0..n : best[i] \in R /\ BestOf(best[i], name, candidates, limit, i)}
<1>10. 0 \in S
  <2>1. best[0] = first
    BY <1>1, <1>9
  <2>2. \A k \in 1..0 : FALSE
    OBVIOUS
  <2> QED BY <1>1, <2>1, <2>2 DEF BestOf, first
<1>11. ASSUME NEW i \in 0..(n - 1), i \in S PROVE i + 1 \in S
  <2>1. i + 1 \in 1..n /\ (i + 1) - 1 = i /\ i + 1 # 0 /\ i + 1 \in 0..n /\ i \in Nat
    BY <1>1
  <2> DEFINE r == best[i]
             x == Distance(i + 1)
  <2>2. r \in R /\ BestOf(r, name, candidates, limit, i)
    BY <1>11
  <2>3. best[i + 1] = better(r, i + 1)
    BY <1>9, <2>1
  <2>4. better(r, i + 1) \in R
    BY <1>5, <2>1, <2>2
  <2>5. x \in Nat /\ x = EditDistance(name, candidates[i + 1])
    BY <1>4, <2>1 DEF Distance
  <2>6. better(r, i + 1) = IF x < r.distance THEN [name |-> candidates[i + 1], distance |-> x] ELSE r
    BY DEF better
  <2> HIDE DEF S, r, x, next
  <2>7. r.distance \in Nat
    BY <2>2 DEF R
  <2>8. \A k \in 1..(i + 1) : k \in 1..i \/ k = i + 1
    BY <2>1
  <2>9. \A k \in 1..i : k \in 1..(i + 1) /\ EditDistance(name, candidates[k]) \in Nat
    <3>1. ASSUME NEW k \in 1..i PROVE k \in 1..n /\ k \in 1..(i + 1)
      BY <1>1, <2>1
    <3> QED BY <1>4, <3>1 DEF Distance
  <2>10. r.distance <= limit /\ \A k \in 1..i : EditDistance(name, candidates[k]) >= r.distance
    BY <2>2, <2>7 DEF BestOf
  <2>11. CASE x < r.distance
    <3>1. best[i + 1] = [name |-> candidates[i + 1], distance |-> x]
      BY <2>3, <2>6, <2>11
    <3>2. best[i + 1].name = candidates[i + 1] /\ best[i + 1].distance = x
      BY <3>1
    <3>3. x < limit
      BY <2>5, <2>7, <2>10, <2>11
    <3>4. \A k \in 1..(i + 1) : EditDistance(name, candidates[k]) >= x
      <4> SUFFICES ASSUME NEW k \in 1..(i + 1) PROVE EditDistance(name, candidates[k]) >= x
        OBVIOUS
      <4>1. CASE k \in 1..i
        <5>1. EditDistance(name, candidates[k]) \in Nat /\ EditDistance(name, candidates[k]) >= r.distance
          BY <2>9, <2>10, <4>1
        <5> QED BY <2>5, <2>7, <2>11, <5>1
      <4>2. CASE k = i + 1
        <5>1. EditDistance(name, candidates[k]) = x
          BY <2>5, <4>2
        <5> QED BY <2>5, <2>7, <2>11, <5>1
      <4> QED BY <2>8, <4>1, <4>2
    <3>5. i + 1 \in 1..(i + 1)
      BY <2>1
    <3>6. BestOf(best[i + 1], name, candidates, limit, i + 1)
      BY <2>5, <3>2, <3>3, <3>4, <3>5 DEF BestOf
    <3> QED BY <2>1, <2>3, <2>4, <3>6 DEF S
  <2>12. CASE ~(x < r.distance)
    <3>1. best[i + 1] = r
      BY <2>3, <2>6, <2>12
    <3>2. \A k \in 1..(i + 1) : EditDistance(name, candidates[k]) >= r.distance
      <4> SUFFICES ASSUME NEW k \in 1..(i + 1) PROVE EditDistance(name, candidates[k]) >= r.distance
        OBVIOUS
      <4>1. CASE k \in 1..i
        <5>1. EditDistance(name, candidates[k]) \in Nat /\ EditDistance(name, candidates[k]) >= r.distance
          BY <2>9, <2>10, <4>1
        <5> QED BY <2>5, <2>7, <2>12, <5>1
      <4>2. CASE k = i + 1
        <5>1. EditDistance(name, candidates[k]) = x
          BY <2>5, <4>2
        <5> QED BY <2>5, <2>7, <2>12, <5>1
      <4> QED BY <2>8, <4>1, <4>2
    <3>3. CASE r = [name |-> NoName, distance |-> limit]
      <4>1. r.distance = limit
        BY <3>3
      <4> QED BY <2>1, <2>3, <2>4, <3>1, <3>2, <3>3, <4>1 DEF S, BestOf
    <3>4. CASE r # [name |-> NoName, distance |-> limit]
      <4>1. /\ r.distance < limit
            /\ r.distance = EditDistance(name, r.name)
            /\ \E k \in 1..i : r.name = candidates[k]
        BY <2>2, <3>4 DEF BestOf
      <4>2. \E k \in 1..(i + 1) : r.name = candidates[k]
        BY <2>9, <4>1
      <4>3. BestOf(r, name, candidates, limit, i + 1)
        BY <3>2, <4>1, <4>2 DEF BestOf
      <4> QED BY <2>1, <2>3, <2>4, <3>1, <4>3 DEF S
    <3> QED BY <3>3, <3>4
  <2> QED BY <2>11, <2>12
<1> HIDE DEF S
<1>12. \A i \in 0..n : i \in S
  BY <1>1, <1>10, <1>11, UpTo
<1>13. BestOf(best[n], name, candidates, limit, n)
  BY <1>1, <1>12 DEF S
<1> QED BY <1>2, <1>13 DEF n

(* What is suggested for an unknown name is a known one that differs least,    *)
(* and nothing only if all differ too much (suggest); the agent's list has it  *)
(* too.                                                                        *)
THEOREM NearestIsSuggested == TypingSpec => []SuggestionsAreNearest
<1>1. TextOK => SuggestionsAreNearest
  <2> SUFFICES ASSUME TextOK, NEW c \in Candidates, NEW d \in Candidates
               PROVE  LET suggested == Suggest(content, <<c, d>>)
                          distances == {EditDistance(content, c), EditDistance(content, d)}
                      IN  IF Min(distances) <= Len(content) \div 2
                          THEN EditDistance(content, suggested) = Min(distances)
                                  /\ suggested \in Nearest(content, {c, d})
                          ELSE suggested = NoName
    BY DEF SuggestionsAreNearest
  <2> DEFINE T == Characters \cup Letters
             half == Len(content) \div 2
             s == Suggest(content, <<c, d>>)
             x == EditDistance(content, c)
             y == EditDistance(content, d)
  <2>1. content \in Seq(T) /\ Len(content) \in Nat
    BY DEF TextOK
  <2>2. c \in Seq(T) /\ d \in Seq(T)
    BY CandidatesAssumption
  <2>3. half \in Nat
    BY <2>1
  <2> HIDE DEF T, half
  <2>4. x \in Nat /\ y \in Nat
    BY <2>1, <2>2, DistanceIsLeast
  <2>5. PICK best : best.name = s /\ BestOf(best, content, <<c, d>>, half + 1, 2)
    <3>1. <<c, d>> \in Seq(Seq(T)) /\ Len(<<c, d>>) = 2
      BY <2>2
    <3>2. half + 1 \in Nat /\ half + 1 = Len(content) \div 2 + 1
      BY <2>3 DEF half
    <3> QED BY <2>1, <3>1, <3>2, SuggestIsBest
  <2>6. 1 \in 1..2 /\ 2 \in 1..2 /\ (\A k \in 1..2 : k = 1 \/ k = 2) /\ <<c, d>>[1] = c /\ <<c, d>>[2] = d
    OBVIOUS
  <2>7. PICK z \in Nat : z = Min({x, y}) /\ z <= x /\ z <= y /\ (z = x \/ z = y)
    <3>1. CASE x <= y
      <4>1. Min({x, y}) = x
        <5>1. {x, y} \in SUBSET Int /\ x \in {x, y} /\ \A v \in {x, y} : x <= v
          BY <2>4, <3>1
        <5> HIDE DEF x, y
        <5> QED BY <5>1, MinIs
      <4> QED BY <2>4, <3>1, <4>1
    <3>2. CASE y <= x
      <4>1. Min({x, y}) = y
        <5>1. {x, y} \in SUBSET Int /\ y \in {x, y} /\ \A v \in {x, y} : y <= v
          BY <2>4, <3>2
        <5> HIDE DEF x, y
        <5> QED BY <5>1, MinIs
      <4> QED BY <2>4, <3>2, <4>1
    <3> QED BY <2>4, <3>1, <3>2
  <2>8. \/ s = NoName /\ x >= half + 1 /\ y >= half + 1
        \/ /\ s \in {c, d} /\ EditDistance(content, s) < half + 1
           /\ x >= EditDistance(content, s) /\ y >= EditDistance(content, s)
    <3>1. CASE /\ best = [name |-> NoName, distance |-> half + 1]
               /\ \A k \in 1..2 : EditDistance(content, <<c, d>>[k]) >= half + 1
      <4>1. s = NoName
        BY <2>5, <3>1
      <4>2. EditDistance(content, <<c, d>>[1]) >= half + 1 /\ EditDistance(content, <<c, d>>[2]) >= half + 1
        BY <2>6, <3>1
      <4> QED BY <2>6, <4>1, <4>2
    <3>2. CASE /\ best.distance < half + 1
               /\ best.distance = EditDistance(content, best.name)
               /\ \E k \in 1..2 : best.name = <<c, d>>[k]
               /\ \A k \in 1..2 : EditDistance(content, <<c, d>>[k]) >= best.distance
      <4>1. best.distance = EditDistance(content, s) /\ s \in {c, d}
        BY <2>5, <2>6, <3>2
      <4>2. EditDistance(content, <<c, d>>[1]) >= best.distance /\ EditDistance(content, <<c, d>>[2]) >= best.distance
        BY <2>6, <3>2
      <4> QED BY <2>6, <3>2, <4>1, <4>2
    <3> QED BY <2>5, <3>1, <3>2 DEF BestOf
  <2>9. CASE z <= half
    <3>1. s \in {c, d} /\ EditDistance(content, s) < half + 1
          /\ x >= EditDistance(content, s) /\ y >= EditDistance(content, s)
      BY <2>3, <2>4, <2>7, <2>8, <2>9
    <3>2. EditDistance(content, s) \in {x, y}
      BY <3>1
    <3>3. EditDistance(content, s) = z
      BY <2>4, <2>7, <3>1, <3>2
    <3>4. EditDistance(content, s) <= half + 2
      BY <2>3, <2>7, <2>9, <3>3
    <3>5. s \in Nearest(content, {c, d})
      BY <3>1, <3>4 DEF Nearest, half
    <3> QED BY <2>7, <2>9, <3>3, <3>5 DEF half
  <2>10. CASE ~(z <= half)
    <3>1. s = NoName
      <4>1. ASSUME s \in {c, d}, EditDistance(content, s) < half + 1 PROVE FALSE
        <5>1. EditDistance(content, s) = x \/ EditDistance(content, s) = y
          BY <4>1
        <5> HIDE DEF x, y
        <5> QED BY <2>3, <2>4, <2>7, <2>10, <4>1, <5>1
      <4> QED BY <2>8, <4>1
    <3> QED BY <2>7, <2>10, <3>1 DEF half
  <2> QED BY <2>9, <2>10
<1> QED BY <1>1, TextTyped, PTL

-------------------------------------------------------------------------------
(* What the first characters of a text add up to, each with its weight: their  *)
(* bytes or their UTF-16 units.                                                *)
Sums(s, weight, chars) ==
    /\ s \in [0..Len(chars) -> Nat]
    /\ s[0] = 0
    /\ \A i \in 1..Len(chars) : s[i] = s[i - 1] + weight[chars[i]]

(* There are such sums.                                                        *)
LEMMA SumsExist ==
    ASSUME NEW chars \in Seq(Characters), NEW weight \in [Characters -> Nat \ {0}]
    PROVE  \E s : Sums(s, weight, chars)
<1> DEFINE n == Len(chars)
           g == [i \in Nat |-> [x \in Nat |-> IF i < n THEN x + weight[chars[i + 1]] ELSE x]]
           N == Nat
<1>1. n \in Nat /\ 0 \in N
  OBVIOUS
<1>2. \A i \in 1..n : chars[i] \in Characters
  OBVIOUS
<1> HIDE DEF n
<1>3. g \in [Nat -> [N -> N]]
  <2>1. \A i \in Nat : i < n => i + 1 \in 1..n
    BY <1>1
  <2>2. \A i \in 1..n : weight[chars[i]] \in Nat
    BY <1>2
  <2> QED BY <2>1, <2>2
<1>4. PICK s \in [0..n -> N] : Runs(s, n, N, 0, g)
  <2> HIDE DEF g, N
  <2> QED BY <1>1, <1>3, RunExists
<1>5. Ran(s, n, N, g)
  <2> HIDE DEF g, N
  <2> QED BY <1>1, <1>3, <1>4, RunTyped
<1>6. ASSUME NEW i \in 1..n PROVE s[i] = s[i - 1] + weight[chars[i]]
  <2>1. i - 1 \in Nat /\ (i - 1) + 1 = i /\ i - 1 < n /\ i - 1 \in 0..n
    BY <1>1
  <2>2. s[i] = g[i - 1][s[i - 1]] /\ s[i - 1] \in Nat
    BY <1>4, <1>5, <2>1 DEF Ran
  <2> QED BY <2>1, <2>2
<1>7. s[0] = 0
  BY <1>4 DEF Runs
<1> QED BY <1>4, <1>6, <1>7 DEF Sums, n

(* They only grow.                                                             *)
Grows(s, n) == \A i, j \in 0..n : i < j => s[i] + (j - i) <= s[j]

(* Every character adds at least one.                                        *)
LEMMA SumsGrow ==
    ASSUME NEW chars \in Seq(Characters), NEW weight \in [Characters -> Nat \ {0}],
           NEW s, Sums(s, weight, chars)
    PROVE  Grows(s, Len(chars))
<1> DEFINE n == Len(chars)
           S == {j \in 0..n : \A i \in 0..n : i < j => s[i] + (j - i) <= s[j]}
<1>1. n \in Nat /\ \A i \in 1..n : chars[i] \in Characters
  OBVIOUS
<1>2. s \in [0..n -> Nat] /\ \A i \in 1..n : s[i] = s[i - 1] + weight[chars[i]]
  BY DEF Sums
<1> HIDE DEF n
<1>3. 0 \in S
  BY <1>1
<1>4. ASSUME NEW j \in 0..(n - 1), j \in S PROVE j + 1 \in S
  <2>1. j + 1 \in 1..n /\ j + 1 \in 0..n /\ (j + 1) - 1 = j /\ j \in 0..n
    BY <1>1
  <2>2. weight[chars[j + 1]] \in Nat /\ weight[chars[j + 1]] >= 1
    BY <1>1, <2>1
  <2>3. s[j + 1] = s[j] + weight[chars[j + 1]] /\ s[j] \in Nat
    BY <1>2, <2>1
  <2>4. ASSUME NEW i \in 0..n, i < j + 1 PROVE s[i] + ((j + 1) - i) <= s[j + 1]
    <3>1. s[i] \in Nat
      BY <1>2
    <3>2. CASE i = j
      BY <2>2, <2>3, <3>2
    <3>3. CASE i < j
      <4>1. s[i] + (j - i) <= s[j]
        BY <1>4, <3>3
      <4> QED BY <2>1, <2>2, <2>3, <3>1, <4>1
    <3> QED BY <2>1, <2>4, <3>2, <3>3
  <2> QED BY <2>1, <2>4
<1> HIDE DEF S
<1>5. \A j \in 0..n : j \in S
  BY <1>1, <1>3, <1>4, UpTo
<1> QED BY <1>5 DEF S, Grows, n

(* The bytes of characters follow each other.                                  *)
Laid(b, o, chars) ==
    /\ b \in Seq(Characters \X Nat)
    /\ Len(b) = o[Len(chars)]
    /\ \A i \in 1..Len(chars) : \A k \in 1..Size[chars[i]] : b[o[i - 1] + k] = <<chars[i], k>>

(* Bytes lays them out.                                                        *)
LEMMA BytesLaid ==
    ASSUME NEW chars \in Seq(Characters), NEW o, Sums(o, Size, chars)
    PROVE  Laid(Bytes(chars), o, chars)
<1> DEFINE n == Len(chars)
           B == Seq(Characters \X Nat)
           one(c) == [k \in 1..Size[c] |-> <<c, k>>]
           seqs == [i \in DOMAIN chars |-> one(chars[i])]
<1>1. n \in Nat /\ DOMAIN chars = 1..n /\ (\A i \in 1..n : chars[i] \in Characters) /\ <<>> \in B
  OBVIOUS
<1>2. \A c \in Characters : Size[c] \in Nat /\ Size[c] >= 1
  BY CharactersAssumption
<1>3. ASSUME NEW i \in 1..n
      PROVE  /\ seqs[i] \in B /\ Len(seqs[i]) = Size[chars[i]]
             /\ \A k \in 1..Size[chars[i]] : seqs[i][k] = <<chars[i], k>>
  <2>1. seqs[i] = one(chars[i]) /\ chars[i] \in Characters /\ Size[chars[i]] \in Nat
    BY <1>1, <1>2
  <2> DEFINE c == chars[i]
  <2>2. \A k \in 1..Size[c] : <<c, k>> \in Characters \X Nat
    BY <2>1
  <2>3. one(c) \in [1..Size[c] -> Characters \X Nat]
    BY <2>2
  <2> HIDE DEF c, B
  <2>4. one(c) \in B
    <3> DEFINE P == Characters \X Nat
               size == Size[c]
               word == one(c)
    <3>1. size \in Nat /\ word \in [1..size -> P]
      BY <2>1, <2>3 DEF c
    <3> HIDE DEF P, size, word
    <3>2. word \in Seq(P)
      BY <3>1
    <3> QED BY <3>2 DEF B, P, word
  <2>5. Len(one(c)) = Size[c] /\ \A k \in 1..Size[c] : one(c)[k] = <<c, k>>
    BY <2>1 DEF c
  <2> HIDE DEF seqs, one
  <2> QED BY <2>1, <2>4, <2>5 DEF c
<1>4. PICK f : Flat(f, seqs, Characters \X Nat)
  <2> DEFINE P == Characters \X Nat
  <2>1. seqs \in Seq(Seq(P))
    <3>1. seqs \in [1..n -> B]
      BY <1>1, <1>3
    <3> HIDE DEF seqs, n, B
    <3>2. seqs \in Seq(B)
      BY <1>1, <3>1
    <3> QED BY <3>2 DEF B
  <2> HIDE DEF P, seqs, n, B
  <2>2. \E f : Flat(f, seqs, P)
    BY <2>1, Flattens
  <2> QED BY <2>2 DEF P
<1>5. Len(seqs) = n /\ Bytes(chars) = FlattenSeq(seqs) /\ n \in 0..n
  <2>1. Bytes(chars) = FlattenSeq(seqs)
    BY DEF Bytes
  <2> QED BY <1>1, <2>1
<1> HIDE DEF n, seqs
<1>6. \A x, y \in B : x \o y \in B
  BY DEF B
<1>7. \A x \in B : <<>> \o x = x
  BY DEF B
<1>8. f \in [0..n -> B] /\ f[0] = <<>> /\ Bytes(chars) = f[n] /\ \A i \in 1..n : f[i] = f[i - 1] \o seqs[i]
  BY <1>4, <1>5 DEF Flat, B
<1> HIDE DEF B
<1>9. \A i \in 1..n : f[i] = IF i = 1 THEN seqs[i] ELSE f[i - 1] \o seqs[i]
  <2>1. ASSUME NEW i \in 1..n, i = 1 PROVE f[i] = seqs[i]
    <3>1. f[i - 1] = <<>> /\ seqs[i] \in B
      BY <1>3, <1>8, <2>1
    <3> QED BY <1>7, <1>8, <3>1
  <2> QED BY <1>8, <2>1
<1>10. o \in [0..n -> Nat] /\ o[0] = 0 /\ \A i \in 1..n : o[i] = o[i - 1] + Size[chars[i]]
  BY DEF Sums, n
<1> DEFINE Upto(i) == /\ f[i] \in B /\ Len(f[i]) = o[i]
                      /\ \A j \in 1..i : \A k \in 1..Size[chars[j]] : f[i][o[j - 1] + k] = <<chars[j], k>>
           S == {i \in 0..n : i = 0 \/ Upto(i)}
<1>11. ASSUME NEW i \in 0..(n - 1), i \in S PROVE i + 1 \in S
  <2>1. i + 1 \in 1..n /\ (i + 1) - 1 = i /\ i + 1 \in 0..n /\ i \in 0..n
    BY <1>1
  <2> DEFINE y == seqs[i + 1]
  <2>2. /\ y \in B /\ Len(y) = Size[chars[i + 1]] /\ Size[chars[i + 1]] \in Nat
        /\ \A k \in 1..Size[chars[i + 1]] : y[k] = <<chars[i + 1], k>>
    BY <1>1, <1>2, <1>3, <2>1
  <2>3. f[i + 1] = IF i = 0 THEN y ELSE f[i] \o y
    BY <1>9, <2>1
  <2>4. o[i + 1] = o[i] + Size[chars[i + 1]] /\ o[i] \in Nat
    BY <1>10, <2>1
  <2> HIDE DEF y
  <2>5. CASE i = 0
    <3>1. f[i + 1] = y /\ o[i] = 0 /\ o[i + 1] = Size[chars[i + 1]]
      BY <1>10, <2>2, <2>3, <2>4, <2>5
    <3>2. \A j \in 1..(i + 1) : j = i + 1 /\ j - 1 = i
      BY <2>5
    <3>3. ASSUME NEW j \in 1..(i + 1), NEW k \in 1..Size[chars[j]] PROVE f[i + 1][o[j - 1] + k] = <<chars[j], k>>
      <4>1. j = i + 1 /\ o[j - 1] = 0
        BY <3>1, <3>2
      <4>2. k \in 1..Size[chars[i + 1]] /\ 0 + k = k
        BY <2>2, <4>1
      <4> QED BY <2>2, <3>1, <4>1, <4>2
    <3> QED BY <2>1, <2>2, <3>1, <3>3
  <2>6. CASE i # 0
    <3>1. Upto(i)
      BY <1>11, <2>6
    <3> DEFINE x == f[i]
    <3>2. x \in B /\ Len(x) = o[i] /\ f[i + 1] = x \o y
      BY <2>3, <2>6, <3>1
    <3>3. \A j \in 1..i : \A k \in 1..Size[chars[j]] : x[o[j - 1] + k] = <<chars[j], k>>
      BY <3>1
    <3> HIDE DEF x, S, Upto
    <3>4. /\ Len(x \o y) = Len(x) + Len(y)
          /\ \A m \in 1..Len(x) : (x \o y)[m] = x[m]
          /\ \A m \in 1..Len(y) : (x \o y)[Len(x) + m] = y[m]
      <4> DEFINE P == Characters \X Nat
      <4>1. x \in Seq(P) /\ y \in Seq(P)
        BY <2>2, <3>2 DEF B
      <4> HIDE DEF P
      <4>2. Joined(x, y, P)
        BY <4>1, SequencesJoin
      <4> QED BY <4>2 DEF Joined
    <3>5. x \o y \in B
      BY <1>6, <2>2, <3>2
    <3>6. ASSUME NEW j \in 1..(i + 1), NEW k \in 1..Size[chars[j]] PROVE f[i + 1][o[j - 1] + k] = <<chars[j], k>>
      <4>1. CASE j = i + 1
        <5>1. k \in 1..Len(y) /\ j - 1 = i
          BY <2>1, <2>2, <4>1
        <5>2. f[i + 1][o[j - 1] + k] = (x \o y)[Len(x) + k]
          BY <3>2, <5>1
        <5> QED BY <2>2, <3>4, <4>1, <5>1, <5>2
      <4>2. CASE j # i + 1
        <5>1. j \in 1..i /\ j \in 1..n /\ j - 1 \in 0..n /\ j \in 0..n
          BY <1>1, <2>1, <4>2
        <5>2. o[j] = o[j - 1] + Size[chars[j]] /\ o[j - 1] \in Nat /\ Size[chars[j]] \in Nat
          BY <1>1, <1>2, <1>10, <5>1
        <5>3. o[j] <= o[i]
          <6>1. Grows(o, n)
            BY SumsGrow, CharactersAssumption DEF n
          <6>2. o[j] \in Nat /\ o[i] \in Nat /\ j <= i
            BY <1>10, <2>1, <5>1
          <6>3. j < i => o[j] + (i - j) <= o[i]
            BY <2>1, <5>1, <6>1 DEF Grows
          <6> QED BY <2>1, <5>1, <6>2, <6>3
        <5>4. o[j - 1] + k \in 1..Len(x)
          <6> DEFINE size == Size[chars[j]]
                     start == o[j - 1]
                     end == o[i]
          <6>1. k \in 1..size /\ size \in Nat /\ start \in Nat /\ end \in Nat /\ Len(x) = end
            BY <2>4, <3>2, <5>2
          <6>2. start + size <= end
            BY <5>2, <5>3
          <6> HIDE DEF size, start, end
          <6>3. start + k \in 1..end
            BY <6>1, <6>2
          <6> QED BY <6>1, <6>3 DEF start
        <5> QED BY <3>2, <3>3, <3>4, <5>1, <5>4
      <4> QED BY <4>1, <4>2
    <3>7. Len(f[i + 1]) = o[i + 1]
      BY <2>2, <2>4, <3>2, <3>4
    <3>8. Upto(i + 1)
      BY <3>2, <3>5, <3>6, <3>7 DEF Upto
    <3> QED BY <2>1, <3>8 DEF S
  <2> QED BY <2>5, <2>6
<1> HIDE DEF S
<1>12. 0 \in S
  BY <1>1 DEF S
<1>13. n \in S
  <2> HIDE DEF Upto
  <2>1. \A i \in 0..n : i \in S
    BY <1>1, <1>11, <1>12, UpTo
  <2> QED BY <1>1, <2>1
<1>14. CASE n = 0
  <2>1. Len(Bytes(chars)) = 0 /\ Bytes(chars) \in B
    BY <1>8, <1>5, <1>14
  <2> QED BY <1>1, <1>10, <1>14, <2>1 DEF Laid, B, n
<1>15. CASE n # 0
  <2>1. Upto(n)
    BY <1>13, <1>15 DEF S
  <2> QED BY <1>8, <1>15, <2>1 DEF Laid, B, n
<1> QED BY <1>14, <1>15

(* A text: its characters, its bytes, and what they and its units add up to.   *)
TextLaid(b, o, u, chars) ==
    /\ chars \in Seq(Characters)
    /\ Sums(o, Size, chars) /\ Sums(u, Units, chars)
    /\ Laid(b, o, chars)

(* What is used of one.                                                        *)
Measured(b, o, u, chars, n) ==
    /\ n \in Nat /\ o \in [0..n -> Nat] /\ u \in [0..n -> Nat] /\ o[0] = 0 /\ u[0] = 0
    /\ \A i, j \in 0..n : i <= j => o[i] <= o[j] /\ u[i] <= u[j] /\ j - i <= o[j] - o[i]
    /\ \A i, j \in 0..n : i < j => o[i] < o[j] /\ u[i] < u[j]
    /\ \A i \in 1..n : /\ chars[i] \in Characters
                       /\ Size[chars[i]] \in Nat /\ Size[chars[i]] >= 1 /\ Units[chars[i]] \in Nat
                       /\ o[i] = o[i - 1] + Size[chars[i]] /\ u[i] = u[i - 1] + Units[chars[i]]
    /\ b \in Seq(Characters \X Nat) /\ Len(b) = o[n]
    /\ \A i \in 1..n : \A k \in 1..Size[chars[i]] : b[o[i - 1] + k] = <<chars[i], k>>

(* The bytes that were laid out are measured by the sums.                    *)
LEMMA TextMeasured ==
    ASSUME NEW chars, NEW b, NEW o, NEW u, TextLaid(b, o, u, chars)
    PROVE  Measured(b, o, u, chars, Len(chars))
<1> DEFINE n == Len(chars)
<1>1. chars \in Seq(Characters) /\ n \in Nat /\ \A i \in 1..n : chars[i] \in Characters
  BY DEF TextLaid
<1>2. Size \in [Characters -> Nat \ {0}] /\ Units \in [Characters -> Nat \ {0}]
  BY CharactersAssumption
<1>3. Grows(o, n) /\ Grows(u, n)
  BY <1>1, <1>2, SumsGrow DEF TextLaid
<1>4. /\ o \in [0..n -> Nat] /\ o[0] = 0 /\ \A i \in 1..n : o[i] = o[i - 1] + Size[chars[i]]
      /\ u \in [0..n -> Nat] /\ u[0] = 0 /\ \A i \in 1..n : u[i] = u[i - 1] + Units[chars[i]]
  BY DEF TextLaid, Sums
<1>5. /\ b \in Seq(Characters \X Nat) /\ Len(b) = o[n]
      /\ \A i \in 1..n : \A k \in 1..Size[chars[i]] : b[o[i - 1] + k] = <<chars[i], k>>
  BY DEF TextLaid, Laid
<1> HIDE DEF n
<1>6. ASSUME NEW i \in 0..n, NEW j \in 0..n, i < j PROVE o[i] < o[j] /\ u[i] < u[j]
  <2>1. o[i] + (j - i) <= o[j] /\ u[i] + (j - i) <= u[j]
    BY <1>3, <1>6 DEF Grows
  <2>2. o[i] \in Nat /\ o[j] \in Nat /\ u[i] \in Nat /\ u[j] \in Nat
    BY <1>4
  <2> QED BY <1>6, <2>1, <2>2
<1>7. ASSUME NEW i \in 0..n, NEW j \in 0..n, i <= j
      PROVE  o[i] <= o[j] /\ u[i] <= u[j] /\ j - i <= o[j] - o[i]
  <2>1. o[i] \in Nat /\ o[j] \in Nat /\ u[i] \in Nat /\ u[j] \in Nat
    BY <1>4
  <2>2. CASE i = j
    BY <2>1, <2>2
  <2>3. CASE i < j
    <3>1. o[i] + (j - i) <= o[j]
      BY <1>3, <2>3 DEF Grows
    <3> QED BY <1>6, <2>1, <2>3, <3>1
  <2> QED BY <1>7, <2>2, <2>3
<1>8. \A i \in 1..n : Size[chars[i]] \in Nat /\ Size[chars[i]] >= 1 /\ Units[chars[i]] \in Nat
  BY <1>1, <1>2
<1> QED BY <1>1, <1>4, <1>5, <1>6, <1>7, <1>8 DEF Measured, n

(* Every byte belongs to a character.                                          *)
InChar(b, o, chars, n, x) ==
    \E i \in 1..n : \E k \in 1..Size[chars[i]] : x = o[i - 1] + k /\ b[x] = <<chars[i], k>>

(* No byte of a measured text is left over.                                  *)
LEMMA BytesBelong ==
    ASSUME NEW chars, NEW b, NEW o, NEW u, NEW n, Measured(b, o, u, chars, n)
    PROVE  \A x \in 1..o[n] : InChar(b, o, chars, n, x)
<1> DEFINE S == {j \in 0..n : \A x \in 1..o[j] : InChar(b, o, chars, n, x)}
<1>1. n \in Nat /\ o[0] = 0
  BY DEF Measured
<1>2. 0 \in S
  BY <1>1
<1>3. ASSUME NEW j \in 0..(n - 1), j \in S PROVE j + 1 \in S
  <2>1. j + 1 \in 1..n /\ (j + 1) - 1 = j /\ j + 1 \in 0..n /\ j \in 0..n
    BY <1>1
  <2>2. o[j + 1] = o[j] + Size[chars[j + 1]] /\ o[j] \in Nat /\ Size[chars[j + 1]] \in Nat
    BY <2>1 DEF Measured
  <2>3. ASSUME NEW x \in 1..o[j + 1] PROVE InChar(b, o, chars, n, x)
    <3>1. CASE x \in 1..o[j]
      BY <1>3, <3>1
    <3>2. CASE x \notin 1..o[j]
      <4>1. x - o[j] \in 1..Size[chars[j + 1]] /\ x = o[j] + (x - o[j])
        BY <2>2, <3>2
      <4>2. b[o[j] + (x - o[j])] = <<chars[j + 1], x - o[j]>>
        BY <2>1, <4>1 DEF Measured
      <4>3. b[x] = <<chars[j + 1], x - o[j]>>
        BY <4>1, <4>2
      <4> QED BY <2>1, <4>1, <4>3 DEF InChar
    <3> QED BY <3>1, <3>2
  <2> QED BY <2>1, <2>3
<1> HIDE DEF S
<1>4. \A j \in 0..n : j \in S
  BY <1>1, <1>2, <1>3, UpTo
<1> QED BY <1>1, <1>4 DEF S

(* The bytes from one character up to another.                                 *)
Between(b, o, p, q) == SubSeq(b, o[p] + 1, o[q])
SegmentOf(b, o, p, q) ==
    /\ Between(b, o, p, q) \in Seq(Characters \X Nat)
    /\ Len(Between(b, o, p, q)) = o[q] - o[p]
    /\ \A x \in 1..(o[q] - o[p]) : Between(b, o, p, q)[x] = b[o[p] + x]

(* What stands where in the bytes between two characters.                    *)
LEMMA Segments ==
    ASSUME NEW chars, NEW b, NEW o, NEW u, NEW n, Measured(b, o, u, chars, n),
           NEW p \in 0..n, NEW q \in 0..n, p <= q
    PROVE  SegmentOf(b, o, p, q)
<1> DEFINE P == Characters \X Nat
<1>1. b \in Seq(P) /\ o[p] \in Nat /\ o[q] \in Nat /\ o[p] <= o[q]
  BY DEF Measured
<1>2. o[q] <= Len(b)
  <2>1. n \in 0..n /\ q <= n
    BY DEF Measured
  <2> QED BY <2>1 DEF Measured
<1> HIDE DEF P
<1>3. Part(b, o[p], o[q], P)
  BY <1>1, <1>2, PartOf
<1> QED BY <1>3 DEF Part, SegmentOf, Between, P

(* Where a character begins, it is decoded as a whole.                         *)
LEMMA CharacterDecoded ==
    ASSUME NEW chars, NEW b, NEW o, NEW u, NEW n, Measured(b, o, u, chars, n),
           NEW p \in 0..n, NEW q \in 0..n, p <= q, NEW i \in 0..n, p <= i, i < q
    PROVE  Decode(Between(b, o, p, q), o[i] - o[p]) = [size |-> o[i + 1] - o[i], units |-> u[i + 1] - u[i]]
<1> DEFINE s == Between(b, o, p, q)
           x == o[i] - o[p]
           c == chars[i + 1]
<1>1. i + 1 \in 1..n /\ (i + 1) - 1 = i /\ i + 1 \in 0..n
  BY DEF Measured
<1>2. /\ o[p] \in Nat /\ o[q] \in Nat /\ o[i] \in Nat /\ o[p] <= o[i] /\ o[i + 1] <= o[q]
      /\ u[i] \in Nat
  <2>1. o[p] \in Nat /\ o[q] \in Nat /\ o[i] \in Nat /\ u[i] \in Nat
    BY DEF Measured
  <2>2. i + 1 <= q
    BY <1>1
  <2>3. o[p] <= o[i] /\ o[i + 1] <= o[q]
    <3>1. \A k, l \in 0..n : k <= l => o[k] <= o[l]
      BY DEF Measured
    <3> QED BY <1>1, <2>2, <3>1
  <2> QED BY <2>1, <2>3
<1>3. o[i + 1] = o[i] + Size[c] /\ u[i + 1] = u[i] + Units[c] /\ Size[c] \in Nat /\ Size[c] >= 1 /\ Units[c] \in Nat
  BY <1>1 DEF Measured
<1>4. \A k \in 1..Size[c] : b[o[i] + k] = <<c, k>>
  BY <1>1 DEF Measured
<1>5. Len(s) = o[q] - o[p] /\ \A y \in 1..(o[q] - o[p]) : s[y] = b[o[p] + y]
  <2>1. SegmentOf(b, o, p, q)
    BY Segments
  <2> QED BY <2>1 DEF SegmentOf
<1> HIDE DEF s, c
<1>6. ASSUME NEW k \in 1..Size[c] PROVE s[x + k] = <<c, k>>
  <2>1. x + k \in 1..(o[q] - o[p]) /\ o[p] + (x + k) = o[i] + k
    BY <1>2, <1>3
  <2> HIDE DEF x
  <2> QED BY <1>4, <1>5, <2>1
<1>7. s[x + 1][1] = c
  <2>1. 1 \in 1..Size[c]
    BY <1>3
  <2>2. s[x + 1] = <<c, 1>>
    BY <1>6, <2>1
  <2> QED BY <2>2
<1>8. x + Size[c] <= Len(s)
  <2> DEFINE size == Size[c]
             from == o[p]
             to == o[q]
             here == o[i]
  <2>1. size \in Nat /\ from \in Nat /\ to \in Nat /\ here \in Nat /\ here + size <= to
    BY <1>2, <1>3
  <2> HIDE DEF size, from, to, here
  <2>2. (here - from) + size <= to - from
    BY <2>1
  <2> QED BY <1>5, <2>2 DEF size, from, to, here
<1>9. Decode(s, x) = [size |-> Size[c], units |-> Units[c]]
  <2> HIDE DEF x
  <2> QED BY <1>6, <1>7, <1>8 DEF Decode
<1>10. Size[c] = o[i + 1] - o[i] /\ Units[c] = u[i + 1] - u[i]
  BY <1>2, <1>3
<1> QED BY <1>9, <1>10 DEF s

(* Where a walk over the bytes from p to q may stop.                           *)
Reached(at, o, u, p, q, stop, j) ==
    /\ j \in p..q
    /\ at = [pos |-> o[j] - o[p], units |-> u[j] - u[p]]
    /\ \A l \in p..(j - 1) : u[l] - u[p] \notin stop

(* It stops at the first character whose units before it are wanted, or at the *)
(* end.                                                                        *)
Stops(at, o, u, p, q, stop) ==
    \E j \in p..q : Reached(at, o, u, p, q, stop, j) /\ (j = q \/ u[j] - u[p] \in stop)

(* The walk over a line stops there (utf16Len, utf16OffsetToByte).           *)
LEMMA WalkStops ==
    ASSUME NEW chars, NEW b, NEW o, NEW u, NEW n, Measured(b, o, u, chars, n),
           NEW p \in 0..n, NEW q \in 0..n, p <= q, NEW stop
    PROVE  Stops(Walked(Between(b, o, p, q), stop), o, u, p, q, stop)
<1> DEFINE s == Between(b, o, p, q)
           m == Len(s)
           State(j) == [pos |-> o[j] - o[p], units |-> u[j] - u[p]]
           R == {State(j) : j \in p..q}
           after(x) == IF x.pos = m \/ x.units \in stop THEN x
                       ELSE [pos |-> x.pos + Decode(s, x.pos).size, units |-> x.units + Decode(s, x.pos).units]
           g == [i \in Nat |-> [x \in R |-> after(x)]]
           first == [pos |-> 0, units |-> 0]
           next(h, i) == IF i = 0 THEN first ELSE after(h[i - 1])
           at == CHOOSE h : h = [i \in 0..m |-> next(h, i)]
<1>1. n \in Nat /\ p \in Nat /\ q \in Nat /\ \A j \in p..q : j \in 0..n
  BY DEF Measured
<1>2. /\ \A i \in 0..n : o[i] \in Nat /\ u[i] \in Nat
      /\ \A i, j \in 0..n : i < j => o[i] < o[j]
      /\ o[p] <= o[q] /\ q - p <= o[q] - o[p]
  BY DEF Measured
<1>3. m = o[q] - o[p]
  BY Segments DEF SegmentOf
<1>4. m \in Nat /\ q - p <= m
  BY <1>2, <1>3
<1>5. Walked(s, stop) = at[m]
  BY DEF Walked
<1> HIDE DEF m, s
<1>6. ASSUME NEW j \in p..q
      PROVE  after(State(j)) = IF j = q \/ u[j] - u[p] \in stop THEN State(j) ELSE State(j + 1)
  <2>1. State(j).pos = o[j] - o[p] /\ State(j).units = u[j] - u[p]
    OBVIOUS
  <2>2. o[j] \in Nat /\ o[q] \in Nat /\ o[p] \in Nat /\ j \in 0..n
    BY <1>1, <1>2
  <2>3. CASE j = q
    <3>1. State(j).pos = m
      BY <1>3, <2>1, <2>3
    <3> HIDE DEF State
    <3> QED BY <2>3, <3>1
  <2>4. CASE j # q
    <3>1. j < q /\ o[j] < o[q] /\ p <= j /\ j + 1 \in 0..n
      BY <1>1, <1>2, <2>2, <2>4
    <3>2. State(j).pos # m
      BY <1>3, <2>1, <2>2, <3>1
    <3>3. Decode(s, o[j] - o[p]) = [size |-> o[j + 1] - o[j], units |-> u[j + 1] - u[j]]
      BY <2>2, <3>1, CharacterDecoded DEF s
    <3>4. o[j + 1] \in Nat /\ u[j + 1] \in Nat /\ u[j] \in Nat /\ u[p] \in Nat
      BY <1>2, <2>2, <3>1
    <3>5. (o[j] - o[p]) + (o[j + 1] - o[j]) = o[j + 1] - o[p] /\ (u[j] - u[p]) + (u[j + 1] - u[j]) = u[j + 1] - u[p]
      BY <2>2, <3>4
    <3>6. /\ State(j).pos + Decode(s, State(j).pos).size = o[j + 1] - o[p]
          /\ State(j).units + Decode(s, State(j).pos).units = u[j + 1] - u[p]
      BY <2>1, <3>3, <3>5
    <3>7. after(State(j)) = IF State(j).units \in stop THEN State(j) ELSE State(j + 1)
      BY <3>2, <3>6
    <3> HIDE DEF after, State
    <3> QED BY <2>1, <2>4, <3>7
  <2> QED BY <2>3, <2>4
<1>7. first = State(p)
  BY <1>1, <1>2
<1>8. first \in R
  BY <1>1, <1>7
<1> HIDE DEF after
<1>9. \A x \in R : after(x) \in R
  <2> SUFFICES ASSUME NEW j \in p..q PROVE after(State(j)) \in R
    BY DEF R
  <2>1. after(State(j)) = State(j) \/ (j + 1 \in p..q /\ after(State(j)) = State(j + 1))
    <3>1. j # q => j + 1 \in p..q
      BY <1>1
    <3> HIDE DEF State
    <3> QED BY <1>6, <3>1
  <2> QED BY <2>1
<1>10. g \in [Nat -> [R -> R]]
  <2> HIDE DEF R
  <2> QED BY <1>9
<1> HIDE DEF first
<1>11. ASSUME NEW h, NEW i \in 1..m, h[i - 1] \in R PROVE next(h, i) = g[i - 1][h[i - 1]]
  <2>1. i - 1 \in Nat /\ i # 0
    BY <1>4
  <2> HIDE DEF R
  <2> QED BY <1>11, <2>1
<1>12. at = [i \in 0..m |-> next(at, i)]
  <2>1. PICK k \in [0..m -> R] : Runs(k, m, R, first, g)
    <3> HIDE DEF g, R
    <3> QED BY <1>4, <1>8, <1>10, RunExists
  <2>2. ASSUME NEW i \in 0..m PROVE k[i] = next(k, i)
    <3>1. CASE i = 0
      BY <2>1, <3>1 DEF Runs
    <3>2. CASE i # 0
      <4>1. i \in 1..m /\ i - 1 \in 0..m
        BY <1>4, <3>2
      <4> HIDE DEF next, g, R
      <4> QED BY <1>11, <2>1, <4>1 DEF Runs
    <3> QED BY <3>1, <3>2
  <2> HIDE DEF next
  <2>3. k = [i \in 0..m |-> next(k, i)]
    BY <2>2
  <2> QED BY <2>3
<1> HIDE DEF at
<1>13. \A i \in 0..m : at[i] = next(at, i)
  <2> HIDE DEF next
  <2> QED BY <1>12
<1> DEFINE Farthest(i, j) == j = p + i \/ j = q \/ u[j] - u[p] \in stop
           S == {i \in 0..m : \E j \in p..q : Reached(at[i], o, u, p, q, stop, j) /\ Farthest(i, j)}
<1>14. 0 \in S
  <2>1. at[0] = State(p)
    BY <1>4, <1>7, <1>13
  <2>2. p \in p..q /\ \A l \in p..(p - 1) : FALSE
    BY <1>1
  <2>3. Reached(at[0], o, u, p, q, stop, p)
    BY <2>1, <2>2 DEF Reached
  <2> QED BY <1>1, <1>4, <2>2, <2>3
<1>15. ASSUME NEW i \in 0..(m - 1), i \in S PROVE i + 1 \in S
  <2>1. i + 1 \in 0..m /\ (i + 1) - 1 = i /\ i + 1 # 0 /\ i \in Nat
    BY <1>4
  <2>2. PICK j \in p..q : Reached(at[i], o, u, p, q, stop, j) /\ Farthest(i, j)
    BY <1>15
  <2>3. at[i] = State(j) /\ \A l \in p..(j - 1) : u[l] - u[p] \notin stop
    BY <2>2 DEF Reached
  <2>4. at[i + 1] = after(at[i])
    BY <1>13, <2>1
  <2>5. at[i + 1] = IF j = q \/ u[j] - u[p] \in stop THEN State(j) ELSE State(j + 1)
    <3> HIDE DEF State
    <3> QED BY <1>6, <2>3, <2>4
  <2>6. CASE j = q \/ u[j] - u[p] \in stop
    <3>1. at[i + 1] = at[i]
      <4> HIDE DEF State
      <4> QED BY <2>3, <2>5, <2>6
    <3> QED BY <2>1, <2>2, <2>6, <3>1
  <2>7. CASE ~(j = q \/ u[j] - u[p] \in stop)
    <3>1. j = p + i /\ j + 1 \in p..q /\ j + 1 = p + (i + 1)
      BY <1>1, <2>1, <2>2, <2>7
    <3>2. at[i + 1] = State(j + 1)
      <4> HIDE DEF State
      <4> QED BY <2>5, <2>7
    <3>3. \A l \in p..((j + 1) - 1) : u[l] - u[p] \notin stop
      <4>1. \A l \in p..((j + 1) - 1) : l \in p..(j - 1) \/ l = j
        BY <1>1
      <4> QED BY <2>3, <2>7, <4>1
    <3>4. Reached(at[i + 1], o, u, p, q, stop, j + 1)
      BY <3>1, <3>2, <3>3 DEF Reached
    <3> QED BY <2>1, <3>1, <3>4
  <2> QED BY <2>6, <2>7
<1> HIDE DEF S
<1>16. m \in S
  <2>1. \A i \in 0..m : i \in S
    BY <1>4, <1>14, <1>15, UpTo
  <2> QED BY <1>4, <2>1
<1>17. PICK j \in p..q : Reached(at[m], o, u, p, q, stop, j) /\ Farthest(m, j)
  BY <1>16 DEF S
<1>18. j = q \/ u[j] - u[p] \in stop
  BY <1>1, <1>4, <1>17
<1> QED BY <1>5, <1>17, <1>18 DEF Stops, s

(* The units of a part of a text.                                              *)
LEMMA UnitsBetween ==
    ASSUME NEW chars, NEW b, NEW o, NEW u, NEW n, Measured(b, o, u, chars, n),
           NEW p \in 0..n, NEW q \in 0..n, p <= q
    PROVE  Utf16Len(Between(b, o, p, q)) = u[q] - u[p]
<1>1. Stops(Walked(Between(b, o, p, q), {}), o, u, p, q, {})
  BY WalkStops
<1>2. PICK j \in p..q : Reached(Walked(Between(b, o, p, q), {}), o, u, p, q, {}, j) /\ j = q
  BY <1>1 DEF Stops
<1> QED BY <1>2 DEF Reached, Utf16Len

(* The character an offset in units leads to: the first that begins there or   *)
(* behind it.                                                                  *)
LeadsTo(offset, u, p, q, j) ==
    /\ j \in p..q
    /\ j = q \/ offset <= u[j] - u[p]
    /\ \A l \in p..(j - 1) : u[l] - u[p] < offset

(* utf16OffsetToByte leads there.                                            *)
LEMMA OffsetLeads ==
    ASSUME NEW chars, NEW b, NEW o, NEW u, NEW n, Measured(b, o, u, chars, n),
           NEW p \in 0..n, NEW q \in 0..n, p <= q, NEW offset \in Nat
    PROVE  \E j : LeadsTo(offset, u, p, q, j) /\ Utf16OffsetToByte(Between(b, o, p, q), offset) = o[j] - o[p]
<1> DEFINE stop == {units \in Nat : units >= offset}
           w == Walked(Between(b, o, p, q), stop)
<1>1. Stops(w, o, u, p, q, stop)
  <2> HIDE DEF stop
  <2> QED BY WalkStops
<1>2. Utf16OffsetToByte(Between(b, o, p, q), offset) = w.pos
  BY DEF Utf16OffsetToByte
<1> HIDE DEF w
<1>3. PICK j \in p..q : Reached(w, o, u, p, q, stop, j) /\ (j = q \/ u[j] - u[p] \in stop)
  BY <1>1 DEF Stops
<1>4. w.pos = o[j] - o[p] /\ \A l \in p..(j - 1) : u[l] - u[p] \notin stop
  BY <1>3 DEF Reached
<1>5. ASSUME NEW l \in p..q PROVE u[l] - u[p] \in Nat
  <2>1. l \in 0..n /\ p <= l
    BY DEF Measured
  <2>2. u[l] \in Nat /\ u[p] \in Nat /\ u[p] <= u[l]
    BY <2>1 DEF Measured
  <2> QED BY <2>2
<1>6. j = q \/ offset <= u[j] - u[p]
  BY <1>3, <1>5
<1>7. ASSUME NEW l \in p..(j - 1) PROVE u[l] - u[p] < offset
  <2>1. l \in p..q
    BY <1>3 DEF Measured
  <2>2. u[l] - u[p] \in Nat /\ u[l] - u[p] \notin stop
    BY <1>4, <1>5, <2>1
  <2> QED BY <2>2
<1>8. LeadsTo(offset, u, p, q, j)
  BY <1>6, <1>7 DEF LeadsTo
<1> QED BY <1>2, <1>4, <1>8

-------------------------------------------------------------------------------
(* The starts of lines grow, and each but the first is behind a line feed.     *)
LinesStart(s, b) ==
    /\ s \in Seq(0..Len(b)) /\ Len(s) >= 1 /\ s[1] = 0
    /\ \A l \in 2..Len(s) : s[l] >= 1 /\ b[s[l]][1] = LF
    /\ \A l, m \in 1..Len(s) : l < m => s[l] < s[m]

(* NewLineIndex finds such starts.                                           *)
LEMMA StartsOfLines ==
    ASSUME NEW T, NEW b \in Seq(T)
    PROVE  LinesStart(Starts(b), b)
<1> DEFINE n == Len(b)
           R == Seq(0..n)
           after(x, i) == IF b[i][1] = LF THEN Append(x, i) ELSE x
           g == [i \in Nat |-> [x \in R |-> IF i < n THEN after(x, i + 1) ELSE x]]
           next(h, i) == IF i = 0 THEN <<0>> ELSE after(h[i - 1], i)
           starts == CHOOSE h : h = [i \in 0..n |-> next(h, i)]
<1>1. n \in Nat /\ <<0>> \in R
  OBVIOUS
<1>2. Starts(b) = starts[n]
  BY DEF Starts
<1> HIDE DEF n
<1>3. ASSUME NEW x \in R, NEW i \in 1..n PROVE after(x, i) \in R
  <2> DEFINE P == 0..n
  <2>1. i \in P /\ x \in Seq(P)
    BY <1>1
  <2> HIDE DEF P
  <2>2. Append(x, i) \in Seq(P)
    BY <2>1, OneAppended DEF Appended
  <2> QED BY <2>1, <2>2 DEF P
<1> HIDE DEF after, R
<1>4. g \in [Nat -> [R -> R]]
  <2>1. \A i \in Nat : i < n => i + 1 \in 1..n
    BY <1>1
  <2> QED BY <1>3, <2>1
<1>5. ASSUME NEW h, NEW i \in 1..n, h[i - 1] \in R PROVE next(h, i) = g[i - 1][h[i - 1]]
  <2>1. i - 1 \in Nat /\ (i - 1) + 1 = i /\ i # 0 /\ i - 1 < n
    BY <1>1
  <2> QED BY <1>5, <2>1
<1>6. starts = [i \in 0..n |-> next(starts, i)]
  <2>1. PICK k \in [0..n -> R] : Runs(k, n, R, <<0>>, g)
    <3> HIDE DEF g
    <3> QED BY <1>1, <1>4, RunExists
  <2>2. ASSUME NEW i \in 0..n PROVE k[i] = next(k, i)
    <3>1. CASE i = 0
      BY <2>1, <3>1 DEF Runs
    <3>2. CASE i # 0
      <4>1. i \in 1..n /\ i - 1 \in 0..n
        BY <1>1, <3>2
      <4> HIDE DEF next, g
      <4> QED BY <1>5, <2>1, <4>1 DEF Runs
    <3> QED BY <3>1, <3>2
  <2> HIDE DEF next
  <2>3. k = [i \in 0..n |-> next(k, i)]
    BY <2>2
  <2> QED BY <2>3
<1> HIDE DEF starts
<1>7. \A i \in 0..n : starts[i] = next(starts, i)
  <2> HIDE DEF next
  <2> QED BY <1>6
<1> DEFINE Good(s, i) == /\ s \in Seq(0..n) /\ Len(s) >= 1 /\ s[1] = 0
                         /\ \A l \in 1..Len(s) : s[l] <= i
                         /\ \A l \in 2..Len(s) : s[l] >= 1 /\ b[s[l]][1] = LF
                         /\ \A l, m \in 1..Len(s) : l < m => s[l] < s[m]
           S == {i \in 0..n : Good(starts[i], i)}
<1>8. 0 \in S
  <2>1. starts[0] = <<0>>
    BY <1>1, <1>7
  <2>2. <<0>> \in Seq(0..n) /\ Len(<<0>>) = 1 /\ <<0>>[1] = 0
    BY <1>1
  <2>3. (\A l \in 1..1 : l = 1) /\ (\A l \in 2..1 : FALSE)
    OBVIOUS
  <2>4. Good(<<0>>, 0)
    BY <2>2, <2>3
  <2> HIDE DEF Good
  <2> QED BY <1>1, <2>1, <2>4
<1>9. ASSUME NEW i \in 0..(n - 1), i \in S PROVE i + 1 \in S
  <2>1. i + 1 \in 1..n /\ (i + 1) - 1 = i /\ i + 1 \in 0..n /\ i \in Nat /\ i + 1 # 0
    BY <1>1
  <2> DEFINE s == starts[i]
  <2>2. /\ s \in Seq(0..n) /\ Len(s) >= 1 /\ s[1] = 0
        /\ \A l \in 1..Len(s) : s[l] <= i
        /\ \A l \in 2..Len(s) : s[l] >= 1 /\ b[s[l]][1] = LF
        /\ \A l, m \in 1..Len(s) : l < m => s[l] < s[m]
    BY <1>9
  <2>3. starts[i + 1] = after(s, i + 1)
    BY <1>7, <2>1
  <2> HIDE DEF s
  <2>4. CASE b[i + 1][1] = LF
    <3> DEFINE t == Append(s, i + 1)
    <3>1. /\ t \in Seq(0..n) /\ Len(t) = Len(s) + 1 /\ Len(s) \in Nat
          /\ (\A l \in 1..Len(s) : t[l] = s[l] /\ s[l] \in Nat) /\ t[Len(s) + 1] = i + 1
      <4> DEFINE P == 0..n
      <4>1. s \in Seq(P) /\ i + 1 \in P /\ \A x \in P : x \in Nat
        BY <2>1, <2>2
      <4> HIDE DEF P
      <4>2. Appended(s, i + 1, P)
        BY <4>1, OneAppended
      <4> QED BY <4>1, <4>2 DEF Appended, P
    <3>2. starts[i + 1] = t
      BY <2>3, <2>4 DEF after
    <3> HIDE DEF t
    <3>3. \A l \in 1..Len(t) : l \in 1..Len(s) \/ l = Len(s) + 1
      BY <3>1
    <3>4. t[1] = 0 /\ Len(t) >= 1
      BY <2>2, <3>1
    <3>5. \A l \in 1..Len(t) : t[l] <= i + 1
      BY <2>1, <2>2, <3>1, <3>3
    <3>6. ASSUME NEW l \in 2..Len(t) PROVE t[l] >= 1 /\ b[t[l]][1] = LF
      <4>1. CASE l \in 1..Len(s)
        <5>1. l \in 2..Len(s)
          BY <3>1, <4>1
        <5> QED BY <2>2, <3>1, <4>1, <5>1
      <4>2. CASE l = Len(s) + 1
        BY <2>1, <2>4, <3>1, <4>2
      <4> QED BY <3>1, <3>3, <4>1, <4>2
    <3>7. ASSUME NEW l \in 1..Len(t), NEW m \in 1..Len(t), l < m PROVE t[l] < t[m]
      <4>1. l \in 1..Len(s)
        BY <3>1, <3>3, <3>7
      <4>2. CASE m \in 1..Len(s)
        BY <2>2, <3>1, <3>7, <4>1, <4>2
      <4>3. CASE m = Len(s) + 1
        <5>1. t[l] = s[l] /\ s[l] <= i /\ s[l] \in Nat /\ t[m] = i + 1
          BY <2>2, <3>1, <4>1, <4>3
        <5> QED BY <2>1, <5>1
      <4> QED BY <3>3, <4>2, <4>3
    <3> QED BY <2>1, <3>1, <3>2, <3>4, <3>5, <3>6, <3>7
  <2>5. CASE b[i + 1][1] # LF
    <3>1. starts[i + 1] = s
      BY <2>3, <2>5 DEF after
    <3>2. \A l \in 1..Len(s) : s[l] <= i + 1
      <4>1. \A l \in 1..Len(s) : s[l] \in 0..n
        <5> DEFINE P == 0..n
        <5>1. s \in Seq(P)
          BY <2>2
        <5> HIDE DEF P
        <5>2. \A l \in 1..Len(s) : s[l] \in P
          BY <5>1
        <5> QED BY <5>2 DEF P
      <4> QED BY <1>1, <2>1, <2>2, <4>1
    <3> QED BY <2>1, <2>2, <3>1, <3>2
  <2> QED BY <2>4, <2>5
<1> HIDE DEF S
<1>10. n \in S
  <2>1. \A i \in 0..n : i \in S
    BY <1>1, <1>8, <1>9, UpTo
  <2> QED BY <1>1, <2>1
<1> QED BY <1>2, <1>10 DEF S, LinesStart, n

(* Where a byte of width one stands, characters meet on both sides of it.      *)
LEMMA NarrowByte ==
    ASSUME NEW chars, NEW b, NEW o, NEW u, NEW n, Measured(b, o, u, chars, n),
           NEW x \in 1..o[n], NEW c \in {LF, CR, Colon}, b[x][1] = c
    PROVE  \E i \in 1..n : chars[i] = c /\ o[i] = x /\ o[i - 1] = x - 1
<1>0. PICK i \in 1..n : \E k \in 1..Size[chars[i]] : x = o[i - 1] + k /\ b[x] = <<chars[i], k>>
  BY BytesBelong DEF InChar
<1>1. PICK k \in 1..Size[chars[i]] : x = o[i - 1] + k /\ b[x] = <<chars[i], k>>
  BY <1>0
<1>2. chars[i] = c /\ Size[c] = 1
  BY <1>1, CharactersAssumption
<1>3. k = 1
  BY <1>2
<1>4. o[i] = o[i - 1] + 1
  BY <1>2 DEF Measured
<1>5. o[i - 1] \in Nat
  <2>1. i - 1 \in 0..n
    BY DEF Measured
  <2> QED BY <2>1 DEF Measured
<1> QED BY <1>1, <1>2, <1>3, <1>4, <1>5

(* A line is a part of the text between characters, and ends before the next.  *)
LineFrom(b, o, n, line, p, q) ==
    /\ p \in 0..n /\ q \in 0..n /\ p <= q
    /\ Starts(b)[line + 1] = o[p]
    /\ LineBytes(b, line) = Between(b, o, p, q)
    /\ line + 1 < LineCount(b) => o[q] < Starts(b)[line + 2]

(* Every line of an index is one.                                            *)
LEMMA LinesBetween ==
    ASSUME NEW chars, NEW b, NEW o, NEW u, NEW n, Measured(b, o, u, chars, n), NEW line \in Nat, line < LineCount(b)
    PROVE  \E p, q : LineFrom(b, o, n, line, p, q)
<1> DEFINE s == Starts(b)
           start == s[line + 1]
           end == IF line + 1 < Len(s) THEN s[line + 2] ELSE Len(b)
           kept == {e \in start..end : \A i \in (e + 1)..end : b[i][1] \in {LF, CR}}
           least == CHOOSE e \in kept : \A f \in kept : e <= f
<1>1. LinesStart(s, b)
  <2> DEFINE P == Characters \X Nat
  <2>1. b \in Seq(P)
    BY DEF Measured
  <2> HIDE DEF P
  <2> QED BY <2>1, StartsOfLines
<1>2. LineBytes(b, line) = SubSeq(b, start + 1, least) /\ LineCount(b) = Len(s)
  <2>1. LineCount(b) = Len(s) /\ Len(s) \in Nat
    BY <1>1 DEF LineCount, LinesStart
  <2>2. ~(line >= Len(s))
    BY <2>1
  <2>3. LineBytes(b, line) = IF line >= Len(s) THEN <<>> ELSE SubSeq(b, start + 1, least)
    BY DEF LineBytes
  <2> HIDE DEF s, least
  <2> QED BY <2>1, <2>2, <2>3
<1> HIDE DEF s
<1>3. Len(b) = o[n] /\ o[n] \in Nat /\ n \in Nat /\ o[0] = 0 /\ 0 \in 0..n /\ n \in 0..n
  BY DEF Measured
<1>4. ASSUME NEW l \in 1..Len(s)
      PROVE  s[l] \in 0..Len(b) /\ \E i \in 0..n : s[l] = o[i]
  <2>1. s[l] \in 0..Len(b)
    <3> DEFINE P == 0..Len(b)
    <3>1. s \in Seq(P)
      BY <1>1 DEF LinesStart
    <3> HIDE DEF P
    <3>2. s[l] \in P
      BY <3>1
    <3> QED BY <3>2 DEF P
  <2>2. CASE l = 1
    BY <1>1, <1>3, <2>1, <2>2 DEF LinesStart
  <2>3. CASE l # 1
    <3>1. l \in 2..Len(s)
      BY <2>3
    <3>2. s[l] \in 1..o[n] /\ b[s[l]][1] = LF
      BY <1>1, <1>3, <2>1, <3>1 DEF LinesStart
    <3>3. PICK i \in 1..n : o[i] = s[l]
      BY <3>2, NarrowByte
    <3> QED BY <1>3, <2>1, <3>3
  <2> QED BY <2>2, <2>3
<1>5. Len(s) \in Nat /\ line + 1 \in 1..Len(s)
  BY <1>1, <1>2 DEF LinesStart
<1>6. line + 1 < Len(s) => line + 2 \in 2..Len(s) /\ line + 2 \in 1..Len(s)
  BY <1>5
<1>7. PICK p \in 0..n : start = o[p]
  BY <1>4, <1>5
<1>8. PICK r \in 0..n : end = o[r]
  <2>1. CASE line + 1 < Len(s)
    BY <1>4, <1>6, <2>1
  <2>2. CASE ~(line + 1 < Len(s))
    BY <1>3, <2>2
  <2> QED BY <2>1, <2>2
<1>9. start \in Nat /\ end \in Nat /\ start <= end
  <2>1. start \in 0..Len(b)
    BY <1>4, <1>5
  <2>2. CASE line + 1 < Len(s)
    <3>1. s[line + 2] \in 0..Len(b) /\ s[line + 1] < s[line + 2]
      BY <1>1, <1>4, <1>5, <1>6, <2>2 DEF LinesStart
    <3> QED BY <1>3, <2>1, <2>2, <3>1
  <2>3. CASE ~(line + 1 < Len(s))
    BY <1>3, <2>1, <2>3
  <2> QED BY <2>2, <2>3
<1> HIDE DEF start, end
<1>10. end \in kept /\ kept \in SUBSET Nat
  <2>1. \A i \in (end + 1)..end : FALSE
    BY <1>9
  <2> QED BY <1>9, <2>1
<1>11. least \in kept /\ \A f \in kept : least <= f
  <2> HIDE DEF kept
  <2> QED BY <1>10, LeastOf
<1> HIDE DEF least
<1>12. least \in start..end /\ \A i \in (least + 1)..end : b[i][1] \in {LF, CR}
  BY <1>11
<1>13. end <= o[n]
  <2>1. r <= n
    BY <1>3
  <2> QED BY <1>3, <1>8, <2>1 DEF Measured
<1>14. PICK q \in 0..n : least = o[q]
  <2>1. CASE least = end
    BY <1>8, <2>1
  <2>2. CASE least # end
    <3>1. least + 1 \in 1..o[n] /\ least + 1 \in (least + 1)..end
      BY <1>3, <1>9, <1>12, <1>13, <2>2
    <3>2. b[least + 1][1] \in {LF, CR}
      BY <1>12, <3>1
    <3>3. PICK i \in 1..n : o[i - 1] = (least + 1) - 1
      BY <3>1, <3>2, NarrowByte
    <3>4. i - 1 \in 0..n /\ (least + 1) - 1 = least
      BY <1>3, <1>9, <1>12
    <3> QED BY <3>3, <3>4
  <2> QED BY <2>1, <2>2
<1>15. p <= q
  <2>1. q < p => o[q] < o[p]
    BY DEF Measured
  <2> QED BY <1>3, <1>7, <1>9, <1>12, <1>14, <2>1
<1>16. ASSUME line + 1 < Len(s) PROVE o[q] < s[line + 2]
  <2>1. end = s[line + 2] /\ b[end][1] = LF /\ start < end
    BY <1>1, <1>5, <1>6, <1>16 DEF LinesStart, start, end
  <2>2. end - 1 \in kept
    <3>1. end - 1 \in start..end /\ \A i \in ((end - 1) + 1)..end : i = end
      BY <1>9, <2>1
    <3> QED BY <2>1, <3>1
  <2>3. least <= end - 1
    BY <1>11, <2>2
  <2> QED BY <1>9, <1>12, <1>14, <2>1, <2>3
<1>17. s[line + 1] = o[p] /\ LineBytes(b, line) = Between(b, o, p, q)
  BY <1>2, <1>7, <1>14 DEF start, Between
<1> QED BY <1>2, <1>15, <1>16, <1>17 DEF LineFrom, s

-------------------------------------------------------------------------------
(* The bytes up to a character, taken from those up to a later one.            *)
LEMMA BetweenCut ==
    ASSUME NEW chars, NEW b, NEW o, NEW u, NEW n, Measured(b, o, u, chars, n),
           NEW p \in 0..n, NEW q \in 0..n, NEW i \in 0..n, p <= i, i <= q
    PROVE  SubSeq(Between(b, o, p, q), 1, o[i] - o[p]) = Between(b, o, p, i)
<1> DEFINE P == Characters \X Nat
           s == Between(b, o, p, q)
           t == Between(b, o, p, i)
           m == o[i] - o[p]
<1>1. o[p] \in Nat /\ o[i] \in Nat /\ o[q] \in Nat
  BY DEF Measured
<1>2. o[p] <= o[i] /\ o[i] <= o[q] /\ p <= q
  <2>1. \A k, l \in 0..n : k <= l => o[k] <= o[l]
    BY DEF Measured
  <2>2. p \in Nat /\ i \in Nat /\ q \in Nat
    BY DEF Measured
  <2> QED BY <2>1, <2>2
<1>3. s \in Seq(P) /\ Len(s) = o[q] - o[p] /\ \A x \in 1..(o[q] - o[p]) : s[x] = b[o[p] + x]
  <2>1. SegmentOf(b, o, p, q)
    BY <1>2, Segments
  <2> QED BY <2>1 DEF SegmentOf
<1>4. t \in Seq(P) /\ Len(t) = o[i] - o[p] /\ \A x \in 1..(o[i] - o[p]) : t[x] = b[o[p] + x]
  <2>1. SegmentOf(b, o, p, i)
    BY Segments
  <2> QED BY <2>1 DEF SegmentOf
<1> HIDE DEF P, s, t
<1>5. m \in Nat /\ m <= Len(s)
  BY <1>1, <1>2, <1>3
<1>6. Part(s, 0, m, P)
  <2> HIDE DEF m
  <2> QED BY <1>3, <1>5, PartOf
<1>7. SubSeq(s, 1, m) \in Seq(P) /\ Len(SubSeq(s, 1, m)) = m /\ \A x \in 1..m : SubSeq(s, 1, m)[x] = s[x]
  <2> HIDE DEF m
  <2>1. 0 + 1 = 1 /\ m - 0 = m /\ \A x \in 1..m : 0 + x = x
    BY <1>5
  <2> QED BY <1>6, <2>1 DEF Part
<1>8. \A x \in 1..m : x \in 1..(o[q] - o[p])
  BY <1>1, <1>2
<1>9. SubSeq(s, 1, m) = t
  <2>1. \A x \in 1..m : SubSeq(s, 1, m)[x] = t[x]
    BY <1>3, <1>4, <1>7, <1>8
  <2> HIDE DEF m
  <2>2. Len(t) = m
    BY <1>4 DEF m
  <2> QED BY <1>4, <1>7, <2>1, <2>2, SameSequence
<1> QED BY <1>9 DEF s, t

(* Characters meet where one's first byte stands, and at the end.              *)
LEMMA BoundariesMeet ==
    ASSUME NEW chars, NEW b, NEW o, NEW u, NEW n, Measured(b, o, u, chars, n), NEW x
    PROVE  x \in Boundaries(b) <=> \E i \in 0..n : x = o[i]
<1>1. Len(b) = o[n] /\ o[n] \in Nat /\ n \in Nat /\ n \in 0..n
  BY DEF Measured
<1>2. ASSUME NEW i \in 0..n PROVE o[i] \in Boundaries(b)
  <2>1. o[i] \in 0..Len(b)
    <3>1. o[i] \in Nat /\ o[i] <= o[n]
      <4>1. i <= n
        BY <1>1
      <4> QED BY <1>1, <4>1 DEF Measured
    <3> QED BY <1>1, <3>1
  <2>2. CASE i = n
    BY <1>1, <2>1, <2>2 DEF Boundaries
  <2>3. CASE i # n
    <3>1. i + 1 \in 1..n /\ (i + 1) - 1 = i
      BY <1>1, <2>3
    <3>2. 1 \in 1..Size[chars[i + 1]]
      <4>1. \A j \in 1..n : Size[chars[j]] \in Nat /\ Size[chars[j]] >= 1
        BY DEF Measured
      <4>2. Size[chars[i + 1]] \in Nat /\ Size[chars[i + 1]] >= 1
        BY <3>1, <4>1
      <4> QED BY <4>2
    <3>3. b[o[i] + 1] = <<chars[i + 1], 1>>
      BY <3>1, <3>2 DEF Measured
    <3> QED BY <2>1, <3>3 DEF Boundaries
  <2> QED BY <2>2, <2>3
<1>3. ASSUME x \in Boundaries(b) PROVE \E i \in 0..n : x = o[i]
  <2>1. x \in 0..Len(b) /\ (x = Len(b) \/ b[x + 1][2] = 1)
    BY <1>3 DEF Boundaries
  <2>2. CASE x = Len(b)
    BY <1>1, <2>2
  <2>3. CASE x # Len(b)
    <3>1. x + 1 \in 1..o[n] /\ x \in Nat
      BY <1>1, <2>1, <2>3
    <3>2. PICK i \in 1..n : \E k \in 1..Size[chars[i]] : x + 1 = o[i - 1] + k /\ b[x + 1] = <<chars[i], k>>
      BY <3>1, BytesBelong DEF InChar
    <3>3. PICK k \in 1..Size[chars[i]] : x + 1 = o[i - 1] + k /\ b[x + 1] = <<chars[i], k>>
      BY <3>2
    <3>4. k = 1
      BY <2>1, <2>3, <3>3
    <3>5. i - 1 \in 0..n
      BY <1>1
    <3>6. o[i - 1] \in Nat
      BY <3>5 DEF Measured
    <3> QED BY <3>1, <3>3, <3>4, <3>5, <3>6
  <2> QED BY <2>2, <2>3
<1> QED BY <1>2, <1>3

(* The line of an offset is the last that starts there or before it.           *)
InRow(s, row, x) ==
    /\ row \in 0..(Len(s) - 1) /\ s[row + 1] <= x
    /\ row + 1 < Len(s) => x < s[row + 2]

(* There is one such line for every offset.                                  *)
LEMMA RowsFound ==
    ASSUME NEW T, NEW b \in Seq(T), NEW x \in Nat
    PROVE  InRow(Starts(b), RowOf(b, x), x) /\ \A row : InRow(Starts(b), row, x) => RowOf(b, x) = row
<1> DEFINE s == Starts(b)
           Holds(row) == s[row + 1] <= x /\ (row + 1 < Len(s) => x < s[row + 2])
<1>1. LinesStart(s, b)
  BY StartsOfLines
<1>2. RowOf(b, x) = CHOOSE row \in 0..(Len(s) - 1) : Holds(row)
  BY DEF RowOf
<1> HIDE DEF s
<1>3. Len(s) \in Nat /\ Len(s) >= 1 /\ s[1] = 0 /\ \A l \in 1..Len(s) : s[l] \in Nat
  <2> DEFINE P == 0..Len(b)
  <2>1. s \in Seq(P) /\ Len(s) >= 1 /\ s[1] = 0 /\ \A y \in P : y \in Nat
    BY <1>1 DEF LinesStart
  <2> HIDE DEF P
  <2> QED BY <2>1
<1>4. \A l, m \in 1..Len(s) : l < m => s[l] < s[m]
  BY <1>1 DEF LinesStart
<1> DEFINE k == Len(s) - 1
<1>5. k \in Nat /\ k + 1 = Len(s)
  BY <1>3
<1> HIDE DEF k
<1>6. \E row \in 0..k : Holds(row)
  <2> SUFFICES ASSUME \A row \in 0..k : ~Holds(row) PROVE FALSE
    OBVIOUS
  <2> DEFINE S == {l \in 0..k : s[l + 1] <= x}
  <2>1. 0 \in S
    BY <1>3, <1>5
  <2>2. ASSUME NEW l \in 0..(k - 1), l \in S PROVE l + 1 \in S
    <3>1. l \in 0..k /\ l + 1 \in 0..k /\ l + 1 < Len(s) /\ (l + 1) + 1 = l + 2 /\ l + 2 \in 1..Len(s)
      BY <1>5
    <3>2. s[l + 1] <= x
      BY <2>2
    <3>3. ~(x < s[l + 2])
      BY <3>1, <3>2
    <3>4. s[l + 2] <= x
      BY <1>3, <3>1, <3>3
    <3> QED BY <3>1, <3>4
  <2> HIDE DEF S
  <2>3. \A l \in 0..k : l \in S
    BY <1>5, <2>1, <2>2, UpTo
  <2>4. k \in 0..k /\ s[k + 1] <= x
    BY <1>5, <2>3 DEF S
  <2> QED BY <1>5, <2>4
<1>7. RowOf(b, x) \in 0..k /\ Holds(RowOf(b, x))
  <2> HIDE DEF Holds
  <2> QED BY <1>2, <1>6 DEF k
<1>8. ASSUME NEW row \in 0..k, NEW other \in 0..k, Holds(row), Holds(other) PROVE ~(row < other)
  <2> SUFFICES ASSUME row < other PROVE FALSE
    OBVIOUS
  <2>1. row + 1 < Len(s) /\ row + 2 \in 1..Len(s) /\ other + 1 \in 1..Len(s) /\ row + 2 <= other + 1
    BY <1>5
  <2>2. x < s[row + 2] /\ s[other + 1] <= x
    BY <1>8, <2>1
  <2>3. s[row + 2] <= s[other + 1]
    <3>1. row + 2 < other + 1 => s[row + 2] < s[other + 1]
      BY <1>4, <2>1
    <3> QED BY <1>3, <2>1, <3>1
  <2> QED BY <1>3, <2>1, <2>2, <2>3
<1>9. ASSUME NEW row, InRow(s, row, x) PROVE RowOf(b, x) = row
  <2>1. row \in 0..k /\ Holds(row)
    BY <1>9 DEF InRow, k
  <2> HIDE DEF Holds
  <2>2. ~(row < RowOf(b, x)) /\ ~(RowOf(b, x) < row)
    BY <1>7, <1>8, <2>1
  <2> QED BY <1>5, <1>7, <2>1, <2>2
<1>10. InRow(s, RowOf(b, x), x)
  BY <1>7 DEF InRow, k
<1> QED BY <1>9, <1>10 DEF s

(* What a position of an editor leads to: a character of its line.             *)
Led(b, o, u, line, p, q, character) ==
    \E j : /\ LeadsTo(character, u, p, q, j)
           /\ PositionToByte(b, [line |-> line, character |-> character]) = o[j]
           /\ PositionToPoint(b, [line |-> line, character |-> character])
                = [row |-> line, column |-> o[j] - o[p]]

(* A position in a line leads to one of its characters.                      *)
LEMMA PositionLeads ==
    ASSUME NEW chars, NEW b, NEW o, NEW u, NEW n, Measured(b, o, u, chars, n),
           NEW line \in Nat, line < LineCount(b), NEW p, NEW q, LineFrom(b, o, n, line, p, q),
           NEW character \in Nat
    PROVE  Led(b, o, u, line, p, q, character)
<1> DEFINE pos == [line |-> line, character |-> character]
<1>1. p \in 0..n /\ q \in 0..n /\ p <= q /\ Starts(b)[line + 1] = o[p] /\ LineBytes(b, line) = Between(b, o, p, q)
  BY DEF LineFrom
<1>2. PICK j : LeadsTo(character, u, p, q, j)
               /\ Utf16OffsetToByte(Between(b, o, p, q), character) = o[j] - o[p]
  BY <1>1, OffsetLeads
<1>3. o[p] \in Nat /\ o[j] \in Nat
  <2>1. j \in 0..n
    BY <1>1, <1>2 DEF LeadsTo, Measured
  <2> QED BY <1>1, <2>1 DEF Measured
<1>4. LineCount(b) \in Nat
  <2> DEFINE P == Characters \X Nat
  <2>1. b \in Seq(P)
    BY DEF Measured
  <2> HIDE DEF P
  <2>2. LinesStart(Starts(b), b)
    BY <2>1, StartsOfLines
  <2> QED BY <2>2 DEF LinesStart, LineCount
<1>5. pos.line = line /\ pos.character = character
  OBVIOUS
<1>6. PositionToByte(b, pos) = o[j]
  <2>1. ~(pos.line >= LineCount(b))
    BY <1>4, <1>5
  <2>2. o[p] + (o[j] - o[p]) = o[j]
    BY <1>3
  <2> HIDE DEF pos
  <2> QED BY <1>1, <1>2, <1>5, <2>1, <2>2 DEF PositionToByte
<1>7. PositionToPoint(b, pos) = [row |-> line, column |-> o[j] - o[p]]
  <2>1. AtMost(line, LineCount(b) - 1) = line
    BY <1>4 DEF AtMost
  <2> HIDE DEF pos
  <2> QED BY <1>1, <1>2, <1>5, <2>1 DEF PositionToPoint
<1> QED BY <1>2, <1>6, <1>7 DEF Led

(* What an editor is told of a place between characters of a line.             *)
LEMMA PositionTold ==
    ASSUME NEW chars, NEW b, NEW o, NEW u, NEW n, Measured(b, o, u, chars, n),
           NEW line \in Nat, line < LineCount(b), NEW p, NEW q, LineFrom(b, o, n, line, p, q),
           NEW i \in p..q
    PROVE  PointToPosition(b, line, o[i] - o[p]) = [line |-> line, character |-> u[i] - u[p]]
<1>1. p \in 0..n /\ q \in 0..n /\ p <= q /\ LineBytes(b, line) = Between(b, o, p, q)
  BY DEF LineFrom
<1>2. i \in 0..n /\ p <= i /\ i <= q
  BY <1>1 DEF Measured
<1>3. LineCount(b) \in Nat
  <2> DEFINE P == Characters \X Nat
  <2>1. b \in Seq(P)
    BY DEF Measured
  <2> HIDE DEF P
  <2>2. LinesStart(Starts(b), b)
    BY <2>1, StartsOfLines
  <2> QED BY <2>2 DEF LinesStart, LineCount
<1>4. AtMost(line, LineCount(b) - 1) = line
  BY <1>3 DEF AtMost
<1>5. Len(Between(b, o, p, q)) = o[q] - o[p]
  BY <1>1, Segments DEF SegmentOf
<1>6. AtMost(o[i] - o[p], o[q] - o[p]) = o[i] - o[p]
  <2>1. o[i] \in Nat /\ o[p] \in Nat /\ o[q] \in Nat /\ o[i] <= o[q]
    <3>1. \A k, l \in 0..n : k <= l => o[k] <= o[l]
      BY DEF Measured
    <3>2. o[i] \in Nat /\ o[p] \in Nat /\ o[q] \in Nat
      BY <1>1, <1>2 DEF Measured
    <3> QED BY <1>1, <1>2, <3>1, <3>2
  <2> QED BY <2>1 DEF AtMost
<1>7. SubSeq(Between(b, o, p, q), 1, o[i] - o[p]) = Between(b, o, p, i)
  BY <1>1, <1>2, BetweenCut
<1>8. Utf16Len(Between(b, o, p, i)) = u[i] - u[p]
  BY <1>1, <1>2, UnitsBetween
<1> QED BY <1>1, <1>4, <1>5, <1>6, <1>7, <1>8 DEF PointToPosition

(* The units before a character lead back to it.                               *)
OnlyFrom(offset, u, p, q, j) == \A i \in p..q : offset = u[i] - u[p] => j = i

(* What is led to by the units before a character is that character.         *)
LEMMA UnitsLeadBack ==
    ASSUME NEW chars, NEW b, NEW o, NEW u, NEW n, Measured(b, o, u, chars, n),
           NEW p \in 0..n, NEW q \in 0..n, NEW offset, NEW j, LeadsTo(offset, u, p, q, j)
    PROVE  OnlyFrom(offset, u, p, q, j)
<1> SUFFICES ASSUME NEW i \in p..q, offset = u[i] - u[p] PROVE j = i
  BY DEF OnlyFrom
<1>1. j \in p..q /\ p \in Nat /\ q \in Nat /\ j \in 0..n /\ i \in 0..n
  <2>1. n \in Nat
    BY DEF Measured
  <2>2. j \in p..q
    BY DEF LeadsTo
  <2> QED BY <2>1, <2>2
<1>2. u[i] \in Nat /\ u[j] \in Nat /\ u[p] \in Nat
  BY <1>1 DEF Measured
<1>3. ~(j < i)
  <2> SUFFICES ASSUME j < i PROVE FALSE
    OBVIOUS
  <2>1. u[j] < u[i]
    BY <1>1 DEF Measured
  <2>2. u[i] - u[p] <= u[j] - u[p]
    BY <1>1 DEF LeadsTo
  <2> QED BY <1>2, <2>1, <2>2
<1>4. ~(i < j)
  <2> SUFFICES ASSUME i < j PROVE FALSE
    OBVIOUS
  <2>1. i \in p..(j - 1)
    BY <1>1
  <2>2. u[i] - u[p] < u[i] - u[p]
    BY <2>1 DEF LeadsTo
  <2> QED BY <1>2, <2>2
<1> QED BY <1>1, <1>3, <1>4

(* Every content is such a text.                                               *)
LEMMA ContentMeasured ==
    ASSUME TextOK
    PROVE  \E o, u : TextLaid(Bytes(content), o, u, content)
                     /\ Measured(Bytes(content), o, u, content, Len(content))
<1>1. content \in Seq(Characters)
  BY DEF TextOK
<1>2. PICK o : Sums(o, Size, content)
  BY <1>1, CharactersAssumption, SumsExist
<1>3. PICK u : Sums(u, Units, content)
  BY <1>1, CharactersAssumption, SumsExist
<1>4. TextLaid(Bytes(content), o, u, content)
  BY <1>1, <1>2, <1>3, BytesLaid DEF TextLaid
<1> QED BY <1>4, TextMeasured

(* What an editor is told of a node leads back to the node, whatever the text  *)
(* and the widths of its characters (PointToPosition, PositionToByte).         *)
THEOREM PositionsLeadBack == TypingSpec => []PositionsRoundTrip
<1>1. TextOK => PositionsRoundTrip
  <2> SUFFICES ASSUME TextOK PROVE PositionsRoundTrip
    OBVIOUS
  <2> DEFINE b == Bytes(content)
             n == Len(content)
  <2>1. PICK o, u : Measured(b, o, u, content, n)
    BY ContentMeasured
  <2>2. \E T : b \in Seq(T)
    BY <2>1 DEF Measured
  <2> HIDE DEF b, n
  <2>3. ASSUME NEW x \in Boundaries(b),
               x - Starts(b)[RowOf(b, x) + 1] <= Len(LineBytes(b, RowOf(b, x)))
        PROVE  LET row == RowOf(b, x)
                   column == x - Starts(b)[row + 1]
                   pos == PointToPosition(b, row, column)
               IN  PositionToByte(b, pos) = x /\ PositionToPoint(b, pos) = [row |-> row, column |-> column]
    <3> DEFINE row == RowOf(b, x)
               column == x - Starts(b)[row + 1]
    <3>1. PICK i \in 0..n : x = o[i]
      BY <2>1, BoundariesMeet
    <3>2. x \in Nat
      BY <2>1, <3>1 DEF Measured
    <3>3. InRow(Starts(b), row, x)
      BY <2>2, <3>2, RowsFound
    <3>4. LinesStart(Starts(b), b)
      BY <2>2, StartsOfLines
    <3>5. row \in Nat /\ row < LineCount(b)
      BY <3>3, <3>4 DEF InRow, LinesStart, LineCount
    <3> HIDE DEF row
    <3>6. PICK p, q : LineFrom(b, o, n, row, p, q)
      BY <2>1, <3>5, LinesBetween
    <3>7. p \in 0..n /\ q \in 0..n /\ p <= q /\ Starts(b)[row + 1] = o[p] /\ LineBytes(b, row) = Between(b, o, p, q)
      BY <3>6 DEF LineFrom
    <3>8. Len(Between(b, o, p, q)) = o[q] - o[p]
      BY <2>1, <3>7, Segments DEF SegmentOf
    <3>9. o[i] \in Nat /\ o[p] \in Nat /\ o[q] \in Nat
      BY <2>1, <3>7 DEF Measured
    <3>10. o[p] <= o[i] /\ o[i] <= o[q]
      <4>1. o[i] - o[p] <= o[q] - o[p]
        BY <2>3, <3>1, <3>7, <3>8 DEF row
      <4>2. o[p] <= o[i]
        BY <3>1, <3>3, <3>7 DEF InRow
      <4> QED BY <3>9, <4>1, <4>2
    <3>11. i \in p..q
      <4>1. n \in Nat /\ \A k, l \in 0..n : k < l => o[k] < o[l]
        BY <2>1 DEF Measured
      <4>2. ~(i < p) /\ ~(q < i)
        BY <3>7, <3>9, <3>10, <4>1
      <4> QED BY <3>7, <4>1, <4>2
    <3>12. column = o[i] - o[p]
      BY <3>1, <3>7
    <3>13. PointToPosition(b, row, column) = [line |-> row, character |-> u[i] - u[p]]
      BY <2>1, <3>5, <3>6, <3>11, <3>12, PositionTold
    <3>14. PICK c \in Nat : c = u[i] - u[p]
      <4>1. n \in Nat /\ u[i] \in Nat /\ u[p] \in Nat
        BY <2>1, <3>7 DEF Measured
      <4>2. p <= i
        BY <3>7, <3>11, <4>1
      <4>3. u[p] <= u[i]
        BY <2>1, <3>7, <4>2 DEF Measured
      <4> QED BY <4>1, <4>3
    <3>15. PICK j : /\ LeadsTo(c, u, p, q, j)
                    /\ PositionToByte(b, [line |-> row, character |-> c]) = o[j]
                    /\ PositionToPoint(b, [line |-> row, character |-> c])
                         = [row |-> row, column |-> o[j] - o[p]]
      <4>1. Led(b, o, u, row, p, q, c)
        BY <2>1, <3>5, <3>6, PositionLeads
      <4> QED BY <4>1 DEF Led
    <3>16. j = i
      <4>1. LeadsTo(c, u, p, q, j) /\ p \in 0..n /\ q \in 0..n
        BY <3>7, <3>15
      <4> HIDE DEF column
      <4>2. OnlyFrom(c, u, p, q, j)
        BY <2>1, <4>1, UnitsLeadBack
      <4> QED BY <3>11, <3>14, <4>2 DEF OnlyFrom
    <3> HIDE DEF column
    <3> QED BY <3>1, <3>12, <3>13, <3>14, <3>15, <3>16 DEF row, column
  <2> QED BY <2>3 DEF PositionsRoundTrip, b
<1> QED BY <1>1, TextTyped, PTL

(* A position further on leads to no earlier character.                        *)
LEMMA LeadsInOrder ==
    ASSUME NEW chars, NEW b, NEW o, NEW u, NEW n, Measured(b, o, u, chars, n),
           NEW p \in 0..n, NEW q \in 0..n, NEW c \in Nat,
           NEW j, LeadsTo(c, u, p, q, j), NEW k, LeadsTo(c + 1, u, p, q, k)
    PROVE  o[j] <= o[k]
<1>1. n \in Nat
  BY DEF Measured
<1>2. j \in p..q /\ k \in p..q
  BY DEF LeadsTo
<1>3. j \in 0..n /\ k \in 0..n
  BY <1>1, <1>2
<1>4. u[k] \in Nat /\ u[p] \in Nat /\ o[j] \in Nat /\ o[k] \in Nat
  BY <1>3 DEF Measured
<1>5. ~(k < j)
  <2> SUFFICES ASSUME k < j PROVE FALSE
    OBVIOUS
  <2>1. k \in p..(j - 1) /\ k # q
    BY <1>1, <1>2
  <2>2. u[k] - u[p] < c
    BY <2>1 DEF LeadsTo
  <2>3. c + 1 <= u[k] - u[p]
    BY <2>1 DEF LeadsTo
  <2> QED BY <1>4, <2>2, <2>3
<1>6. j <= k
  BY <1>1, <1>2, <1>5
<1> QED BY <1>3, <1>6 DEF Measured

(* Any position of an editor lands between characters of its line, and a later *)
(* one no earlier (PositionToByte).                                            *)
THEOREM PositionsLand == TypingSpec => []PositionsLandOnCharacters
<1>1. TextOK => PositionsLandOnCharacters
  <2> SUFFICES ASSUME TextOK PROVE PositionsLandOnCharacters
    OBVIOUS
  <2> DEFINE b == Bytes(content)
             n == Len(content)
             at(line, character) == PositionToByte(b, [line |-> line, character |-> character])
  <2>1. PICK o, u : Measured(b, o, u, content, n)
    BY ContentMeasured
  <2>2. \E T : b \in Seq(T)
    BY <2>1 DEF Measured
  <2>3. n \in Nat /\ 0..(2 * n + 1) \subseteq Nat
    BY <2>1 DEF Measured
  <2> HIDE DEF b, n
  <2>4. LinesStart(Starts(b), b)
    BY <2>2, StartsOfLines
  <2>5. LineCount(b) \in Nat /\ LineCount(b) = Len(Starts(b))
    BY <2>4 DEF LinesStart, LineCount
  <2>6. Len(b) = o[n] /\ n \in 0..n /\ o[n] \in Nat
    BY <2>1, <2>3 DEF Measured
  <2>7. ASSUME NEW line \in 0..LineCount(b), NEW c \in Nat
        PROVE  /\ at(line, c) \in Boundaries(b)
               /\ at(line, c) <= at(line, c + 1)
               /\ line < LineCount(b) => RowOf(b, at(line, c)) = line
    <3>1. CASE line = LineCount(b)
      <4>1. \A d \in Nat : at(line, d) = Len(b)
        BY <2>5, <3>1 DEF PositionToByte
      <4>2. Len(b) \in Boundaries(b)
        BY <2>1, <2>6, BoundariesMeet
      <4>3. c + 1 \in Nat
        OBVIOUS
      <4> HIDE DEF at
      <4> QED BY <2>5, <2>6, <3>1, <4>1, <4>2, <4>3
    <3>2. CASE line # LineCount(b)
      <4>1. line \in Nat /\ line < LineCount(b) /\ c + 1 \in Nat
        BY <2>5, <3>2
      <4>2. PICK p, q : LineFrom(b, o, n, line, p, q)
        BY <2>1, <4>1, LinesBetween
      <4>3. PICK j : LeadsTo(c, u, p, q, j) /\ at(line, c) = o[j]
        <5>1. Led(b, o, u, line, p, q, c)
          BY <2>1, <4>1, <4>2, PositionLeads
        <5> QED BY <5>1 DEF Led
      <4>4. PICK k : LeadsTo(c + 1, u, p, q, k) /\ at(line, c + 1) = o[k]
        <5> DEFINE d == c + 1
        <5>1. d \in Nat
          OBVIOUS
        <5> HIDE DEF d
        <5>2. Led(b, o, u, line, p, q, d)
          BY <2>1, <4>1, <4>2, <5>1, PositionLeads
        <5> QED BY <5>2 DEF Led, d
      <4> HIDE DEF at
      <4>5. p \in 0..n /\ q \in 0..n /\ Starts(b)[line + 1] = o[p]
            /\ (line + 1 < LineCount(b) => o[q] < Starts(b)[line + 2])
        BY <4>2 DEF LineFrom
      <4>6. j \in p..q
        BY <4>3 DEF LeadsTo
      <4>7. j \in 0..n /\ p <= j /\ j <= q
        BY <2>3, <4>5, <4>6
      <4>8. at(line, c) \in Boundaries(b)
        BY <2>1, <4>3, <4>7, BoundariesMeet
      <4>9. at(line, c) <= at(line, c + 1)
        BY <2>1, <4>3, <4>4, <4>5, LeadsInOrder
      <4>10. o[p] \in Nat /\ o[j] \in Nat /\ o[q] \in Nat /\ o[p] <= o[j] /\ o[j] <= o[q]
        BY <2>1, <4>5, <4>7 DEF Measured
      <4>11. ASSUME line + 1 < Len(Starts(b)) PROVE o[j] < Starts(b)[line + 2]
        <5>1. o[q] < Starts(b)[line + 2]
          BY <2>5, <4>5, <4>11
        <5>2. Starts(b)[line + 2] \in Nat
          <6>1. line + 2 \in 1..Len(Starts(b))
            BY <2>5, <4>1, <4>11
          <6> DEFINE s == Starts(b)
                     P == 0..Len(b)
          <6>2. s \in Seq(P) /\ \A y \in P : y \in Nat
            BY <2>4 DEF LinesStart
          <6> HIDE DEF s, P
          <6>3. \A l \in 1..Len(s) : s[l] \in P
            BY <6>2
          <6> QED BY <6>1, <6>2, <6>3 DEF s
        <5> QED BY <4>10, <5>1, <5>2
      <4>12. InRow(Starts(b), line, o[j])
        <5>1. line \in 0..(Len(Starts(b)) - 1)
          BY <2>5, <4>1
        <5> QED BY <4>5, <4>10, <4>11, <5>1 DEF InRow
      <4>13. RowOf(b, o[j]) = line
        BY <2>2, <4>10, <4>12, RowsFound
      <4> QED BY <4>3, <4>8, <4>9, <4>13
    <3> QED BY <3>1, <3>2
  <2>8. \A character \in 0..(2 * Len(content) + 1) : character \in Nat
    BY <2>3 DEF n
  <2> HIDE DEF at
  <2>9. \A line \in 0..LineCount(b) : \A character \in 0..(2 * Len(content) + 1) :
            /\ at(line, character) \in Boundaries(b)
            /\ at(line, character) <= at(line, character + 1)
            /\ line < LineCount(b) => RowOf(b, at(line, character)) = line
    BY <2>7, <2>8
  <2> QED BY <2>9 DEF PositionsLandOnCharacters, at, b
<1> QED BY <1>1, TextTyped, PTL

-------------------------------------------------------------------------------
(* All bytes are those between its first character and its last.               *)
LEMMA AllBetween ==
    ASSUME NEW chars, NEW b, NEW o, NEW u, NEW n, Measured(b, o, u, chars, n)
    PROVE  Between(b, o, 0, n) = b
<1> DEFINE P == Characters \X Nat
           s == Between(b, o, 0, n)
<1>1. n \in Nat /\ o[0] = 0 /\ b \in Seq(P) /\ Len(b) = o[n] /\ o[n] \in Nat
  BY DEF Measured
<1>2. 0 \in 0..n /\ n \in 0..n /\ 0 <= n
  BY <1>1
<1>3. SegmentOf(b, o, 0, n)
  BY <1>2, Segments
<1>4. s \in Seq(P) /\ Len(s) = o[n] - 0 /\ \A x \in 1..(o[n] - 0) : s[x] = b[0 + x]
  BY <1>1, <1>3 DEF SegmentOf
<1> HIDE DEF P, s
<1>5. Len(s) = Len(b) /\ \A x \in 1..Len(s) : s[x] = b[x]
  BY <1>1, <1>4
<1>6. s = b
  BY <1>1, <1>4, <1>5, SameSequence
<1> QED BY <1>6 DEF s

(* The characters after p up to q have the bytes between them.                 *)
LEMMA PartsBytes ==
    ASSUME NEW chars \in Seq(Characters), NEW b, NEW o, NEW u, Measured(b, o, u, chars, Len(chars)),
           NEW p \in 0..Len(chars), NEW q \in 0..Len(chars), p <= q
    PROVE  Bytes(SubSeq(chars, p + 1, q)) = Between(b, o, p, q)
<1> DEFINE n == Len(chars)
           part == SubSeq(chars, p + 1, q)
           d == [k \in 0..(q - p) |-> o[p + k] - o[p]]
           v == [k \in 0..(q - p) |-> u[p + k] - u[p]]
           s == Bytes(part)
           t == Between(b, o, p, q)
           P == Characters \X Nat
<1>1. n \in Nat /\ p \in Nat /\ q \in Nat /\ q - p \in Nat /\ p \in 0..n /\ q \in 0..n /\ q <= n
  OBVIOUS
<1>2. part \in Seq(Characters) /\ Len(part) = q - p /\ \A k \in 1..(q - p) : part[k] = chars[p + k]
  <2>1. Part(chars, p, q, Characters)
    BY <1>1, PartOf
  <2> QED BY <2>1 DEF Part
<1>3. t \in Seq(P) /\ Len(t) = o[q] - o[p] /\ \A x \in 1..(o[q] - o[p]) : t[x] = b[o[p] + x]
  BY Segments DEF SegmentOf
<1> HIDE DEF part, n
<1>4. ASSUME NEW k \in 0..(q - p)
      PROVE  p + k \in 0..n /\ o[p + k] \in Nat /\ u[p + k] \in Nat /\ o[p] \in Nat /\ u[p] \in Nat
             /\ o[p] <= o[p + k] /\ u[p] <= u[p + k]
  <2>1. p + k \in 0..n /\ p <= p + k
    BY <1>1
  <2> QED BY <1>1, <2>1 DEF Measured, n
<1>5. ASSUME NEW k \in 1..(q - p)
      PROVE  /\ p + k \in 1..n /\ k \in 0..(q - p) /\ k - 1 \in 0..(q - p) /\ p + (k - 1) = (p + k) - 1
             /\ o[p + k] = o[p + (k - 1)] + Size[part[k]] /\ u[p + k] = u[p + (k - 1)] + Units[part[k]]
             /\ Size[part[k]] \in Nat /\ Units[part[k]] \in Nat
  <2>1. p + k \in 1..n /\ k \in 0..(q - p) /\ k - 1 \in 0..(q - p) /\ p + (k - 1) = (p + k) - 1
    BY <1>1
  <2> DEFINE i == p + k
  <2>2. i \in 1..n
    BY <2>1
  <2> HIDE DEF i
  <2>3. /\ o[i] = o[i - 1] + Size[chars[i]] /\ u[i] = u[i - 1] + Units[chars[i]]
        /\ Size[chars[i]] \in Nat /\ Units[chars[i]] \in Nat
    BY <2>2 DEF Measured, n
  <2> QED BY <1>2, <2>1, <2>3 DEF i
<1>6. /\ \A k \in 0..(q - p) : d[k] = o[p + k] - o[p] /\ v[k] = u[p + k] - u[p]
      /\ d \in [0..(q - p) -> Nat] /\ v \in [0..(q - p) -> Nat]
  <2>1. ASSUME NEW k \in 0..(q - p) PROVE o[p + k] - o[p] \in Nat /\ u[p + k] - u[p] \in Nat
    <3>1. o[p + k] \in Nat /\ u[p + k] \in Nat /\ o[p] \in Nat /\ u[p] \in Nat
          /\ o[p] <= o[p + k] /\ u[p] <= u[p + k]
      BY <1>4
    <3>2. \A x, y \in Nat : x <= y => y - x \in Nat
      OBVIOUS
    <3> QED BY <3>1, <3>2
  <2> QED BY <2>1
<1> HIDE DEF d, v
<1>7. Sums(d, Size, part) /\ Sums(v, Units, part)
  <2>1. d[0] = 0 /\ v[0] = 0
    <3>1. 0 \in 0..(q - p) /\ p + 0 = p
      BY <1>1
    <3>2. d[0] = o[p] - o[p] /\ v[0] = u[p] - u[p] /\ o[p] \in Nat /\ u[p] \in Nat
      BY <1>4, <1>6, <3>1
    <3> QED BY <3>2
  <2>2. ASSUME NEW k \in 1..(q - p) PROVE d[k] = d[k - 1] + Size[part[k]] /\ v[k] = v[k - 1] + Units[part[k]]
    <3>1. d[k] = o[p + k] - o[p] /\ d[k - 1] = o[p + (k - 1)] - o[p]
          /\ v[k] = u[p + k] - u[p] /\ v[k - 1] = u[p + (k - 1)] - u[p]
      BY <1>5, <1>6
    <3> DEFINE x == o[p + (k - 1)]
               y == u[p + (k - 1)]
    <3>2. x \in Nat /\ o[p] \in Nat /\ y \in Nat /\ u[p] \in Nat
      BY <1>4, <1>5
    <3>3. /\ d[k] = (x + Size[part[k]]) - o[p] /\ d[k - 1] = x - o[p]
          /\ v[k] = (y + Units[part[k]]) - u[p] /\ v[k - 1] = y - u[p]
          /\ Size[part[k]] \in Nat /\ Units[part[k]] \in Nat
      BY <1>5, <3>1
    <3>4. \A a, c, w \in Nat : (a + w) - c = (a - c) + w
      OBVIOUS
    <3> HIDE DEF x, y, d, v, part
    <3>5. d[k] = d[k - 1] + Size[part[k]]
      <4> DEFINE size == Size[part[k]]
                 start == o[p]
      <4>1. size \in Nat /\ start \in Nat /\ x \in Nat
        BY <3>2, <3>3
      <4> HIDE DEF size, start
      <4>2. (x + size) - start = (x - start) + size
        BY <3>4, <4>1
      <4> QED BY <3>3, <4>2 DEF size, start
    <3>6. v[k] = v[k - 1] + Units[part[k]]
      <4> DEFINE units == Units[part[k]]
                 start == u[p]
      <4>1. units \in Nat /\ start \in Nat /\ y \in Nat
        BY <3>2, <3>3
      <4> HIDE DEF units, start
      <4>2. (y + units) - start = (y - start) + units
        BY <3>4, <4>1
      <4> QED BY <3>3, <4>2 DEF units, start
    <3> QED BY <3>5, <3>6
  <2> QED BY <1>2, <1>6, <2>1, <2>2 DEF Sums
<1>8. Measured(s, d, v, part, q - p)
  <2>1. Laid(s, d, part)
    BY <1>2, <1>7, BytesLaid
  <2>2. TextLaid(s, d, v, part)
    BY <1>2, <1>7, <2>1 DEF TextLaid
  <2> QED BY <1>2, <2>2, TextMeasured
<1>9. s \in Seq(P) /\ Len(s) = d[q - p]
  BY <1>8 DEF Measured
<1>10. d[q - p] = o[q] - o[p]
  <2>1. q - p \in 0..(q - p) /\ p + (q - p) = q
    BY <1>1
  <2> QED BY <1>6, <2>1
<1> HIDE DEF s, t
<1>11. ASSUME NEW x \in 1..Len(s) PROVE s[x] = t[x]
  <2>1. x \in 1..d[q - p] /\ x \in 1..(o[q] - o[p])
    BY <1>9, <1>10
  <2> HIDE DEF d, part
  <2>7. InChar(s, d, part, q - p, x)
    BY <1>8, <2>1, BytesBelong
  <2>2. PICK i \in 1..(q - p) : \E k \in 1..Size[part[i]] : x = d[i - 1] + k /\ s[x] = <<part[i], k>>
    BY <2>7 DEF InChar
  <2>3. PICK k \in 1..Size[part[i]] : x = d[i - 1] + k /\ s[x] = <<part[i], k>>
    BY <2>2
  <2>4. /\ p + i \in 1..n /\ i - 1 \in 0..(q - p) /\ p + (i - 1) = (p + i) - 1 /\ Size[part[i]] \in Nat
        /\ part[i] = chars[p + i]
    BY <1>2, <1>5
  <2>5. o[p] + x = o[(p + i) - 1] + k
    <3> DEFINE y == o[(p + i) - 1]
    <3>1. d[i - 1] = y - o[p] /\ y \in Nat /\ o[p] \in Nat
      BY <1>4, <1>6, <2>4
    <3>2. k \in Nat
      BY <2>4
    <3> HIDE DEF y
    <3>3. x = (y - o[p]) + k
      BY <2>3, <3>1
    <3>4. \A a, c, w \in Nat : c + ((a - c) + w) = a + w
      OBVIOUS
    <3>5. o[p] + x = y + k
      BY <3>1, <3>2, <3>3, <3>4
    <3> QED BY <3>5 DEF y
  <2>6. b[o[(p + i) - 1] + k] = <<chars[p + i], k>>
    BY <2>3, <2>4 DEF Measured, n
  <2> QED BY <1>3, <2>1, <2>3, <2>4, <2>5, <2>6
<1>12. Len(s) = Len(t)
  BY <1>3, <1>9, <1>10
<1> HIDE DEF P
<1>13. s = t
  BY <1>3, <1>9, <1>11, <1>12, SameSequence
<1> QED BY <1>13 DEF s, t, part

(* A text of one line.                                                         *)
OneLine(chars, n) == \A i \in 1..n : chars[i] \notin {LF, CR}

(* It is the one line of its index.                                          *)
LEMMA OneLineWhole ==
    ASSUME NEW chars, NEW b, NEW o, NEW u, NEW n, Measured(b, o, u, chars, n), OneLine(chars, n)
    PROVE  LineCount(b) = 1 /\ LineFrom(b, o, n, 0, 0, n) /\ LineBytes(b, 0) = b
<1> DEFINE s == Starts(b)
           kept == {e \in 0..Len(b) : \A i \in (e + 1)..Len(b) : b[i][1] \in {LF, CR}}
           least == CHOOSE e \in kept : \A f \in kept : e <= f
<1>1. n \in Nat /\ o[0] = 0 /\ Len(b) = o[n] /\ o[n] \in Nat /\ \E T : b \in Seq(T)
  BY DEF Measured
<1>2. LinesStart(s, b)
  BY <1>1, StartsOfLines
<1>3. ASSUME NEW x \in 1..Len(b) PROVE b[x][1] \notin {LF, CR}
  <2> SUFFICES ASSUME b[x][1] \in {LF, CR} PROVE FALSE
    OBVIOUS
  <2> DEFINE c == b[x][1]
  <2>1. c \in {LF, CR, Colon} /\ x \in 1..o[n] /\ b[x][1] = c
    BY <1>1
  <2> HIDE DEF c
  <2>2. PICK i \in 1..n : chars[i] = c
    BY <2>1, NarrowByte
  <2> QED BY <2>2 DEF OneLine, c
<1>4. Len(s) = 1
  <2>1. Len(s) \in Nat /\ Len(s) >= 1
    BY <1>2 DEF LinesStart
  <2>2. ASSUME Len(s) >= 2 PROVE FALSE
    <3>1. 2 \in 2..Len(s) /\ 2 \in 1..Len(s)
      BY <2>1, <2>2
    <3>2. s[2] >= 1 /\ b[s[2]][1] = LF
      BY <1>2, <3>1 DEF LinesStart
    <3>3. s[2] \in 0..Len(b)
      <4> DEFINE P == 0..Len(b)
      <4>1. s \in Seq(P)
        BY <1>2 DEF LinesStart
      <4> HIDE DEF P, s
      <4>2. s[2] \in P
        BY <3>1, <4>1
      <4> QED BY <4>2 DEF P
    <3>4. s[2] \in 1..Len(b)
      BY <1>1, <3>2, <3>3
    <3> QED BY <1>3, <3>2, <3>4
  <2> DEFINE count == Len(s)
  <2>3. count \in Nat /\ count >= 1 /\ ~(count >= 2)
    BY <2>1, <2>2
  <2> HIDE DEF count
  <2>4. count = 1
    BY <2>3
  <2> QED BY <2>4 DEF count
<1>5. kept = {Len(b)}
  <2>1. Len(b) \in kept
    <3>1. \A i \in (Len(b) + 1)..Len(b) : FALSE
      BY <1>1
    <3> QED BY <1>1, <3>1
  <2>2. ASSUME NEW e \in kept PROVE e = Len(b)
    <3> SUFFICES ASSUME e # Len(b) PROVE FALSE
      OBVIOUS
    <3>1. e \in 0..Len(b) /\ \A i \in (e + 1)..Len(b) : b[i][1] \in {LF, CR}
      BY <2>2
    <3>2. Len(b) \in 1..Len(b) /\ Len(b) \in (e + 1)..Len(b)
      BY <1>1, <3>1
    <3> QED BY <1>3, <3>1, <3>2
  <2> HIDE DEF kept
  <2> QED BY <2>1, <2>2
<1>6. LineBytes(b, 0) = SubSeq(b, 1, Len(b))
  <2>1. 0 + 1 = 1 /\ s[1] = 0 /\ ~(0 >= Len(s)) /\ ~(0 + 1 < Len(s))
    BY <1>2, <1>4 DEF LinesStart
  <2>2. LineBytes(b, 0) = SubSeq(b, 0 + 1, least)
    <3> HIDE DEF s
    <3> QED BY <2>1 DEF LineBytes, s
  <2>3. least = Len(b)
    <3>1. Len(b) <= Len(b)
      BY <1>1
    <3> HIDE DEF kept
    <3> QED BY <1>5, <3>1
  <2> QED BY <2>1, <2>2, <2>3
<1>7. Between(b, o, 0, n) = SubSeq(b, 1, Len(b))
  BY <1>1 DEF Between
<1>8. LineBytes(b, 0) = b /\ Between(b, o, 0, n) = b
  BY <1>6, <1>7, AllBetween
<1>9. LineCount(b) = 1
  BY <1>4 DEF LineCount
<1>10. LineFrom(b, o, n, 0, 0, n)
  <2>1. 0 \in 0..n /\ n \in 0..n /\ 0 <= n /\ Starts(b)[0 + 1] = o[0]
    BY <1>1, <1>2 DEF LinesStart
  <2>2. ~(0 + 1 < LineCount(b))
    BY <1>9
  <2> QED BY <1>8, <2>1, <2>2 DEF LineFrom
<1> QED BY <1>8, <1>9, <1>10

(* Where a place between its characters is told, and what leads back to it.    *)
LEMMA OneLinePlaces ==
    ASSUME NEW chars, NEW b, NEW o, NEW u, NEW n, Measured(b, o, u, chars, n), OneLine(chars, n), NEW k \in 0..n
    PROVE  /\ PointToPosition(b, 0, o[k]) = [line |-> 0, character |-> u[k]]
           /\ PositionToByte(b, [line |-> 0, character |-> u[k]]) = o[k]
<1>1. n \in Nat /\ o[0] = 0 /\ u[0] = 0 /\ o[k] \in Nat /\ u[k] \in Nat
  BY DEF Measured
<1>2. LineCount(b) = 1 /\ LineFrom(b, o, n, 0, 0, n)
  BY OneLineWhole
<1>3. 0 \in Nat /\ 0 < LineCount(b) /\ 0 \in 0..n /\ n \in 0..n /\ o[k] - o[0] = o[k] /\ u[k] - u[0] = u[k]
  BY <1>1, <1>2
<1>4. PointToPosition(b, 0, o[k] - o[0]) = [line |-> 0, character |-> u[k] - u[0]]
  BY <1>2, <1>3, PositionTold
<1>5. Led(b, o, u, 0, 0, n, u[k])
  BY <1>1, <1>2, <1>3, PositionLeads
<1>6. PICK j : LeadsTo(u[k], u, 0, n, j) /\ PositionToByte(b, [line |-> 0, character |-> u[k]]) = o[j]
  BY <1>5 DEF Led
<1>7. OnlyFrom(u[k], u, 0, n, j)
  BY <1>3, <1>6, UnitsLeadBack
<1>8. j = k
  BY <1>3, <1>7 DEF OnlyFrom
<1> QED BY <1>3, <1>4, <1>6, <1>8

(* Wherever the bytes of some characters occur, they are those of characters.  *)
Occurs(o, n, x, length) == \E k, m \in 0..n : k <= m /\ x = o[k] /\ x + length = o[m]

(* An occurrence begins and ends where characters meet.                      *)
LEMMA OccurrencesMeet ==
    ASSUME NEW chars, NEW b, NEW o, NEW u, NEW n, Measured(b, o, u, chars, n),
           NEW p \in 0..n, NEW q \in 0..n, p < q,
           NEW x \in Nat, x + (o[q] - o[p]) <= Len(b),
           \A y \in 1..(o[q] - o[p]) : b[x + y] = b[o[p] + y]
    PROVE  Occurs(o, n, x, o[q] - o[p])
<1> DEFINE length == o[q] - o[p]
<1>1. n \in Nat /\ p + 1 \in 1..n /\ (p + 1) - 1 = p /\ q \in 1..n /\ q - 1 \in 0..n
  BY DEF Measured
<1>2. o[p] \in Nat /\ o[q] \in Nat /\ o[p] < o[q] /\ Len(b) = o[n] /\ o[n] \in Nat
  BY <1>1 DEF Measured
<1>3. length \in Nat /\ length >= 1
  BY <1>2
<1>4. /\ Size[chars[p + 1]] \in Nat /\ Size[chars[p + 1]] >= 1
      /\ Size[chars[q]] \in Nat /\ Size[chars[q]] >= 1 /\ o[q] = o[q - 1] + Size[chars[q]]
  <2>1. \A i \in 1..n : Size[chars[i]] \in Nat /\ Size[chars[i]] >= 1 /\ o[i] = o[i - 1] + Size[chars[i]]
    BY DEF Measured
  <2> QED BY <1>1, <2>1
<1>5. b[o[p] + 1] = <<chars[p + 1], 1>>
  <2>1. 1 \in 1..Size[chars[p + 1]]
    BY <1>4
  <2>2. \A i \in 1..n : \A k \in 1..Size[chars[i]] : b[o[i - 1] + k] = <<chars[i], k>>
    BY DEF Measured
  <2>3. b[o[(p + 1) - 1] + 1] = <<chars[p + 1], 1>>
    BY <1>1, <2>1, <2>2
  <2> QED BY <1>1, <2>3
<1>6. b[o[p] + length] = <<chars[q], Size[chars[q]]>>
  <2>1. Size[chars[q]] \in 1..Size[chars[q]]
    BY <1>4
  <2>2. b[o[q - 1] + Size[chars[q]]] = <<chars[q], Size[chars[q]]>>
    BY <1>1, <2>1 DEF Measured
  <2>3. o[p] + length = o[q - 1] + Size[chars[q]]
    BY <1>2, <1>4
  <2> HIDE DEF length
  <2> QED BY <2>2, <2>3
<1>7. \A y \in 1..length : b[x + y] = b[o[p] + y]
  OBVIOUS
<1>8. x + length <= o[n]
  BY <1>2
<1> HIDE DEF length
<1>9. PICK k \in 0..n : x = o[k]
  <2>1. b[x + 1] = <<chars[p + 1], 1>>
    BY <1>3, <1>5, <1>7
  <2>2. x \in 0..Len(b)
    BY <1>2, <1>3, <1>8
  <2>3. x \in Boundaries(b)
    BY <2>1, <2>2 DEF Boundaries
  <2> QED BY <2>3, BoundariesMeet
<1>10. PICK m \in 0..n : x + length = o[m]
  <2>1. b[x + length] = <<chars[q], Size[chars[q]]>>
    BY <1>3, <1>6, <1>7
  <2>2. x + length \in 1..o[n]
    BY <1>2, <1>3, <1>8
  <2>3. PICK i \in 1..n : \E l \in 1..Size[chars[i]] : x + length = o[i - 1] + l /\ b[x + length] = <<chars[i], l>>
    BY <2>2, BytesBelong DEF InChar
  <2>4. PICK l \in 1..Size[chars[i]] : x + length = o[i - 1] + l /\ b[x + length] = <<chars[i], l>>
    BY <2>3
  <2>5. l = Size[chars[i]]
    BY <2>1, <2>4
  <2>6. o[i] = o[i - 1] + Size[chars[i]] /\ i \in 0..n
    BY <1>1 DEF Measured
  <2> QED BY <2>4, <2>5, <2>6
<1>11. k <= m
  <2>1. ~(m < k)
    <3> SUFFICES ASSUME m < k PROVE FALSE
      OBVIOUS
    <3>1. o[m] < o[k] /\ o[m] \in Nat /\ o[k] \in Nat
      BY DEF Measured
    <3> QED BY <1>3, <1>9, <1>10, <3>1
  <2> QED BY <1>1, <2>1
<1> QED BY <1>9, <1>10, <1>11 DEF Occurs, length

(* What is looked for is found, no later than any place where it is.           *)
Found(b, from, value, x) ==
    x \in from..(Len(b) - Len(value)) /\ SubSeq(b, x + 1, x + Len(value)) = value

(* indexBytes finds the first of these places.                               *)
LEMMA FirstFound ==
    ASSUME NEW b, NEW value, NEW from \in Nat, NEW x, Found(b, from, value, x)
    PROVE  Found(b, from, value, Find(b, from, value)) /\ Find(b, from, value) <= x
<1> DEFINE found == {o \in from..(Len(b) - Len(value)) : SubSeq(b, o + 1, o + Len(value)) = value}
<1>1. x \in found
  BY DEF Found
<1>2. found \in SUBSET Nat
  OBVIOUS
<1>3. \A e \in found : Found(b, from, value, e)
  BY DEF Found
<1>4. Find(b, from, value) = IF found = {} THEN -1 ELSE CHOOSE o \in found : \A p \in found : o <= p
  BY DEF Find
<1> HIDE DEF found
<1>5. \E e \in found : \A f \in found : e <= f
  BY <1>1, <1>2, LeastOf
<1>6. Find(b, from, value) \in found /\ \A f \in found : Find(b, from, value) <= f
  BY <1>1, <1>4, <1>5
<1> QED BY <1>1, <1>3, <1>6

(* The type of an object ends where characters meet.                           *)
Cut(b, o, p, q, part) == \E l \in p..q : part = Between(b, o, p, l)

(* SplitObject cuts at the first colon, a character of one byte.             *)
LEMMA ObjectCut ==
    ASSUME NEW chars, NEW b, NEW o, NEW u, NEW n, Measured(b, o, u, chars, n),
           NEW p \in 0..n, NEW q \in 0..n, p <= q
    PROVE  Cut(b, o, p, q, SplitObject(Between(b, o, p, q)))
<1> DEFINE value == Between(b, o, p, q)
           colons == {i \in DOMAIN value : value[i][1] = Colon}
<1>1. n \in Nat /\ p \in Nat /\ q \in Nat /\ p \in p..q /\ q \in p..q
  BY DEF Measured
<1>2. value \in Seq(Characters \X Nat) /\ Len(value) = o[q] - o[p] /\ \A x \in 1..(o[q] - o[p]) : value[x] = b[o[p] + x]
  BY Segments DEF SegmentOf
<1>3. o[p] \in Nat /\ o[q] \in Nat /\ o[n] \in Nat /\ o[p] <= o[q] /\ o[q] <= o[n]
  <2>1. n \in 0..n /\ q <= n
    BY <1>1
  <2> QED BY <2>1 DEF Measured
<1>4. CASE colons = {}
  <2>1. SplitObject(value) = value
    BY <1>4 DEF SplitObject
  <2> QED BY <1>1, <2>1 DEF Cut
<1>5. CASE colons # {}
  <2> DEFINE c == CHOOSE i \in colons : \A j \in colons : i <= j
  <2>1. colons \in SUBSET Nat /\ \A i \in colons : i \in 1..(o[q] - o[p]) /\ value[i][1] = Colon
    <3> HIDE DEF value
    <3> QED BY <1>2
  <2>2. SplitObject(value) = SubSeq(value, 1, c - 1)
    <3> HIDE DEF value
    <3> QED BY <1>5 DEF SplitObject
  <2> HIDE DEF value, colons
  <2>3. PICK x \in colons : TRUE
    BY <1>5
  <2>4. \E e \in colons : \A f \in colons : e <= f
    BY <2>1, <2>3, LeastOf
  <2>5. c \in colons
    BY <2>4
  <2> HIDE DEF c
  <2>6. c \in 1..(o[q] - o[p]) /\ value[c][1] = Colon /\ c \in Nat
    BY <2>1, <2>5
  <2> DEFINE y == o[p] + c
  <2>7. y \in 1..o[n] /\ b[y][1] = Colon
    <3>1. value[c] = b[y]
      BY <1>2, <2>6 DEF value
    <3>2. y \in 1..o[n]
      BY <1>3, <2>6
    <3> QED BY <2>6, <3>1, <3>2
  <2>8. y \in Nat /\ y > o[p] /\ y <= o[q] /\ (y - 1) - o[p] = c - 1
    BY <1>3, <2>6
  <2> HIDE DEF y
  <2>9. PICK i \in 1..n : o[i] = y /\ o[i - 1] = y - 1
    BY <2>7, NarrowByte
  <2> DEFINE l == i - 1
  <2>10. l \in 0..n /\ i \in 0..n /\ l + 1 = i /\ l < i
    BY <1>1, <2>9
  <2>11. p <= l
    <3> SUFFICES ASSUME ~(p <= l) PROVE FALSE
      OBVIOUS
    <3>1. i <= p
      BY <1>1, <2>10
    <3>2. o[i] <= o[p]
      BY <2>10, <3>1 DEF Measured
    <3> QED BY <1>3, <2>8, <2>9, <3>2
  <2>12. l <= q
    <3> SUFFICES ASSUME ~(l <= q) PROVE FALSE
      OBVIOUS
    <3>1. q < i
      BY <1>1, <2>10
    <3>2. o[q] < o[i]
      BY <2>10, <3>1 DEF Measured
    <3> QED BY <1>3, <2>8, <2>9, <3>2
  <2>13. o[l] - o[p] = c - 1
    BY <2>8, <2>9
  <2> HIDE DEF l
  <2>14. SubSeq(value, 1, o[l] - o[p]) = Between(b, o, p, l)
    BY <2>10, <2>11, <2>12, BetweenCut DEF value
  <2>15. SplitObject(value) = Between(b, o, p, l)
    BY <2>2, <2>13, <2>14
  <2>16. l \in p..q
    BY <1>1, <2>10, <2>11, <2>12
  <2> QED BY <2>15, <2>16 DEF Cut, value
<1> QED BY <1>4, <1>5

(* What a value found behind character p of a text of one line has for its     *)
(* range, and for that of its type.                                            *)
Exact(b, o, p, value, range) ==
    /\ TextBetween(b, range) = value
    /\ TextBetween(b, SubRange(range, SplitObject(value))) = SplitObject(value)
    /\ PositionToByte(b, range.start) <= o[p]
    /\ o[p] = p => PositionToByte(b, range.start) = o[p]

(* The range of a value is exact in this sense (valueRangeFrom, subRange).   *)
LEMMA ValuesLocated ==
    ASSUME NEW chars, NEW b, NEW o, NEW u, NEW n, Measured(b, o, u, chars, n), OneLine(chars, n),
           NEW p \in 0..n, NEW q \in 0..n, p < q, NEW value, value = Between(b, o, p, q)
    PROVE  Exact(b, o, p, value, ValueRangeFrom(b, 0, p, value))
<1> DEFINE length == o[q] - o[p]
           P == Characters \X Nat
<1>1. n \in Nat /\ p \in Nat /\ q \in Nat /\ p <= q
  BY DEF Measured
<1>2. /\ o[p] \in Nat /\ o[q] \in Nat /\ o[n] \in Nat /\ o[p] <= o[q] /\ o[q] <= o[n] /\ Len(b) = o[n]
      /\ p <= o[p] /\ b \in Seq(P)
  <2>1. n \in 0..n /\ 0 \in 0..n /\ q <= n /\ 0 <= p
    BY <1>1
  <2>2. o[p] <= o[q] /\ o[q] <= o[n]
    BY <1>1, <2>1 DEF Measured
  <2>3. p - 0 <= o[p] - o[0] /\ o[0] = 0 /\ o[p] \in Nat
    BY <2>1 DEF Measured
  <2> QED BY <1>1, <2>2, <2>3 DEF Measured
<1>3. Len(value) = length /\ \A y \in 1..length : value[y] = b[o[p] + y]
  BY <1>1, Segments DEF SegmentOf
<1>4. length \in Nat /\ o[p] + length = o[q] /\ o[p] <= o[n] - length
  BY <1>2
<1>5. value = SubSeq(b, o[p] + 1, o[p] + length)
  BY <1>4 DEF Between
<1> HIDE DEF length, P
<1>6. LineBytes(b, 0) = b
  BY OneLineWhole
<1>7. Found(b, p, value, o[p])
  <2>1. o[p] \in p..(Len(b) - Len(value))
    BY <1>1, <1>2, <1>3, <1>4
  <2> QED BY <1>3, <1>5, <2>1 DEF Found
<1> DEFINE x == Find(b, p, value)
<1>8. Found(b, p, value, x) /\ x <= o[p]
  BY <1>1, <1>7, FirstFound
<1>9. ValueRangeFrom(b, 0, p, value)
        = [start |-> PointToPosition(b, 0, x), end |-> PointToPosition(b, 0, x + length)]
  <2>1. ~(p > Len(b))
    BY <1>1, <1>2, <1>4
  <2>2. x >= 0
    BY <1>1, <1>8 DEF Found
  <2> HIDE DEF x
  <2>3. ~(x < 0)
    <3>1. x \in Int
      BY <1>2, <1>3, <1>4, <1>8 DEF Found
    <3> QED BY <2>2, <3>1
  <2> QED BY <1>3, <1>6, <2>1, <2>2, <2>3 DEF ValueRangeFrom, x
<1> HIDE DEF x
<1>10. x \in Nat /\ p <= x /\ x + length <= Len(b) /\ SubSeq(b, x + 1, x + length) = value
  <2>1. x \in p..(Len(b) - length) /\ SubSeq(b, x + 1, x + length) = value
    BY <1>3, <1>8 DEF Found
  <2> QED BY <1>1, <1>2, <1>4, <2>1
<1>11. \A y \in 1..length : b[x + y] = b[o[p] + y]
  <2> DEFINE z == x + length
  <2>1. z \in Nat /\ x <= z /\ z - x = length /\ z <= Len(b)
    BY <1>4, <1>10
  <2>2. SubSeq(b, x + 1, z) = value
    BY <1>10
  <2> HIDE DEF z
  <2>3. Part(b, x, z, P)
    BY <1>2, <1>10, <2>1, PartOf
  <2>4. \A y \in 1..length : value[y] = b[x + y]
    BY <2>1, <2>2, <2>3 DEF Part
  <2> QED BY <1>3, <2>4
<1>12. Occurs(o, n, x, length)
  BY <1>10, <1>11, OccurrencesMeet DEF length
<1>13. PICK k \in 0..n : \E m \in 0..n : k <= m /\ x = o[k] /\ x + length = o[m]
  BY <1>12 DEF Occurs
<1>14. PICK m \in 0..n : k <= m /\ x = o[k] /\ x + length = o[m]
  BY <1>13
<1>15. /\ PointToPosition(b, 0, x) = [line |-> 0, character |-> u[k]]
       /\ PointToPosition(b, 0, x + length) = [line |-> 0, character |-> u[m]]
       /\ PositionToByte(b, [line |-> 0, character |-> u[k]]) = x
       /\ PositionToByte(b, [line |-> 0, character |-> u[m]]) = x + length
  BY <1>14, OneLinePlaces
<1> DEFINE range == [start |-> [line |-> 0, character |-> u[k]], end |-> [line |-> 0, character |-> u[m]]]
<1>16. ValueRangeFrom(b, 0, p, value) = range
  BY <1>9, <1>15
<1>17. TextBetween(b, range) = value
  BY <1>10, <1>15 DEF TextBetween
<1>18. value = Between(b, o, k, m)
  BY <1>10, <1>14 DEF Between
<1> DEFINE part == SplitObject(value)
<1>19. PICK l \in k..m : part = Between(b, o, k, l)
  BY <1>14, <1>18, ObjectCut DEF Cut
<1>20. l \in 0..n /\ k <= l
  BY <1>1
<1>21. Utf16Len(part) = u[l] - u[k]
  BY <1>19, <1>20, UnitsBetween
<1>22. TextBetween(b, SubRange(range, part)) = part
  <2>1. u[k] \in Nat /\ u[l] \in Nat
    BY <1>20 DEF Measured
  <2>2. u[k] + (u[l] - u[k]) = u[l]
    BY <2>1
  <2>3. SubRange(range, part) = [start |-> [line |-> 0, character |-> u[k]], end |-> [line |-> 0, character |-> u[l]]]
    BY <1>21, <2>2 DEF SubRange
  <2>4. PositionToByte(b, [line |-> 0, character |-> u[l]]) = o[l]
    BY <1>20, OneLinePlaces
  <2> DEFINE there == SubRange(range, part)
  <2>5. PositionToByte(b, there.start) = o[k] /\ PositionToByte(b, there.end) = o[l]
    BY <1>14, <1>15, <2>3, <2>4
  <2> HIDE DEF part, there
  <2>6. TextBetween(b, there) = SubSeq(b, o[k] + 1, o[l])
    BY <2>5 DEF TextBetween
  <2> QED BY <1>19, <2>6 DEF Between, there
<1>23. PositionToByte(b, range.start) = x
  BY <1>15
<1>24. o[p] = p => x = o[p]
  BY <1>1, <1>8, <1>10
<1> HIDE DEF range
<1> QED BY <1>8, <1>16, <1>17, <1>22, <1>23, <1>24 DEF Exact

(* In every text of one line, the range given to a value and to its type is    *)
(* exactly theirs, or an earlier occurrence's if wider characters stand before *)
(* it (valueRangeFrom, subRange).                                              *)
THEOREM RangesAreExact == TypingSpec => []FieldRangesAreExact
<1>1. TextOK => FieldRangesAreExact
  <2> SUFFICES ASSUME TextOK PROVE FieldRangesAreExact
    OBVIOUS
  <2> DEFINE b == Bytes(content)
             n == Len(content)
  <2>1. PICK o, u : Measured(b, o, u, content, n)
    BY ContentMeasured
  <2>2. content \in Seq(Characters) /\ n \in Nat /\ DOMAIN content = 1..n
    BY DEF TextOK
  <2> HIDE DEF b
  <2>3. ASSUME NEW i \in 1..n, NEW j \in 1..n, i <= j,
               \A k \in DOMAIN content : content[k] \notin {LF, CR}
        PROVE  LET before == Bytes(SubSeq(content, 1, i - 1))
                   value == Bytes(SubSeq(content, i, j))
                   range == ValueRangeFrom(b, 0, i - 1, value)
               IN  /\ TextBetween(b, range) = value
                   /\ TextBetween(b, SubRange(range, SplitObject(value))) = SplitObject(value)
                   /\ PositionToByte(b, range.start) <= Len(before)
                   /\ Len(before) = i - 1 => PositionToByte(b, range.start) = Len(before)
    <3>1. PICK p \in 0..n : p + 1 = i /\ p = i - 1
      <4>1. i - 1 \in 0..n /\ (i - 1) + 1 = i
        BY <2>2
      <4> QED BY <4>1
    <3>2. 0 \in 0..n /\ j \in 0..n /\ p < j /\ 0 <= p /\ p <= j
      BY <2>2, <2>3, <3>1
    <3>3. OneLine(content, n)
      BY <2>2, <2>3 DEF OneLine
    <3> DEFINE before == Bytes(SubSeq(content, 1, p))
               value == Bytes(SubSeq(content, i, j))
    <3>4. value = Between(b, o, p, j)
      <4>1. Bytes(SubSeq(content, p + 1, j)) = Between(b, o, p, j)
        BY <2>1, <2>2, <3>2, PartsBytes
      <4> QED BY <3>1, <4>1
    <3>5. before = Between(b, o, 0, p)
      <4>1. Bytes(SubSeq(content, 0 + 1, p)) = Between(b, o, 0, p)
        BY <2>1, <2>2, <3>2, PartsBytes
      <4>2. 0 + 1 = 1
        OBVIOUS
      <4> QED BY <4>1, <4>2
    <3> HIDE DEF n, before, value
    <3>6. Len(before) = o[p]
      <4>1. Len(Between(b, o, 0, p)) = o[p] - o[0]
        BY <2>1, <3>2, Segments DEF SegmentOf
      <4>2. o[0] = 0 /\ o[p] \in Nat
        BY <2>1 DEF Measured
      <4> QED BY <3>5, <4>1, <4>2
    <3>7. Exact(b, o, p, value, ValueRangeFrom(b, 0, p, value))
      BY <2>1, <3>2, <3>3, <3>4, ValuesLocated
    <3> QED BY <3>1, <3>6, <3>7 DEF Exact, before, value
  <2> QED BY <2>2, <2>3 DEF FieldRangesAreExact, b, n
<1> QED BY <1>1, TextTyped, PTL
================================================================================
