------------------------------ MODULE Completion ------------------------------
(* Completion on a `define` line (feature/completion.go), for somebody who     *)
(* types the line one token after the other.  A prefix is the sequence of the  *)
(* tokens between the colon and the word under the cursor.                     *)
EXTENDS Rename

CONSTANTS
    TypeLines,  \* TypeLines[u]: the first and last line of each type of a model,
                \* as the parser finds them while the line is incomplete
    TypedLines, \* TypedLines[u]: the lines on which a relation is being defined
    TypedNames, \* names that are typed
    NoType,     \* the cursor is in no type, or none is typed yet
    MaxTokens   \* bound: the tokens of a line

(* The types of a document follow each other.                                  *)
ASSUME LinesAssumption ==
    \A u \in DOMAIN TypedLines :
        /\ TypeLines[u] \in Seq(Nat \X Nat) /\ TypedLines[u] \subseteq Nat
        /\ \A i, j \in DOMAIN TypeLines[u] : i < j => TypeLines[u][i][2] <= TypeLines[u][j][2]

VARIABLES
    place,    \* the document and the line being typed
    prefix    \* the tokens before the cursor

Nowhere == [doc |-> NoType, line |-> 0]

-------------------------------------------------------------------------------
(* Faulty variant of EnclosingType: the first type that reaches the line.      *)
EnclosingTypeFirst(x, u, line) ==
    LET near == {i \in DOMAIN TypeLines[u] : TypeLines[u][i][1] <= line /\ line <= TypeLines[u][i][2] + 1}
    IN  IF near = {} THEN NoType
        ELSE x[Extract[u].types[CHOOSE i \in near : \A j \in near : i <= j].name]

(* enclosingType: the last type that reaches the line above the cursor.        *)
EnclosingType(x, u, line) ==
    LET near == {i \in DOMAIN TypeLines[u] : TypeLines[u][i][1] <= line /\ line <= TypeLines[u][i][2] + 1}
    IN  IF near = {} THEN NoType
        ELSE x[Extract[u].types[CHOOSE i \in near : \A j \in near : j <= i].name]

(* What linePrefix sees, its regular expressions taken for what they are to    *)
(* find: a line is a sequence of whole tokens, so that keywords inside names   *)
(* with hyphens or dots, and blanks before a #, do not occur.                  *)
Operators == {"or", "and", "but not"}
OpenBracket(p) == \E i \in DOMAIN p : p[i] = "[" /\ \A j \in i..Len(p) : p[j] # "]"
After(p) == IF p = <<>> THEN ":" ELSE p[Len(p)]

(* modelCompletion, right of the colon.                                        *)
Offers(x, u, line, p) ==
    LET relations(type) == RelationsOf(x, u, type)
        enclosing == EnclosingType(x, u, line)
        last == After(p)
    IN  IF OpenBracket(p)
        THEN CASE last = "with" -> {x[s] : s \in ConditionsIn[u]}
               [] last = "#"    -> relations(p[Len(p) - 1])
               [] OTHER         -> TypeNames(x, u)
        ELSE CASE enclosing = NoType                    -> {}
               [] enclosing # NoType /\ last = "from"   -> relations(enclosing)
               [] enclosing # NoType /\ last \in Operators \cup {":", "("} ->
                    relations(enclosing) \cup {"["}
               [] enclosing # NoType /\ last \in TypedNames  -> Operators \cup {"from"}
               [] OTHER                                 -> relations(enclosing)

-------------------------------------------------------------------------------
(* The grammar of a relation definition: what may follow what, apart from the  *)
(* nesting of parentheses; $expression aside.  A direct assignment is a first  *)
(* operand only.                                                               *)
Arcs ==
    {<<"first", "[", "restrictions">>, <<"first", "name", "relation">>, <<"second", "name", "relation">>,
     <<"relation", "from", "tupleset">>, <<"tupleset", "name", "operand">>,
     <<"restrictions", "]", "operand">>, <<"restrictions", "name", "type">>, <<"restriction", "name", "type">>,
     <<"type", "#", "userset">>, <<"userset", "name", "suffixed">>,
     <<"type", ":", "wildcard">>, <<"wildcard", "*", "suffixed">>,
     <<"type", "with", "condition">>, <<"suffixed", "with", "condition">>, <<"condition", "name", "restricted">>}
    \cup {<<at, ",", "restriction">> : at \in {"type", "suffixed", "restricted"}}
    \cup {<<at, "]", "operand">> : at \in {"type", "suffixed", "restricted"}}

Punctuation == ({arc[2] : arc \in Arcs} \ {"name"}) \cup Operators \cup {"(", ")"}
ASSUME TokensAssumption == TypedNames \cap Punctuation = {}

(* A state of the parser: where it is, and the operator of every definition it *)
(* is in, innermost first.  An exclusion has two operands; `or` and `and` do   *)
(* not mix.                                                                    *)
Parsing(at, operators) == [at |-> at, operators |-> operators]
Start == Parsing("first", <<"none">>)

Shift(s, token) ==
    LET word == IF token \in Punctuation THEN token ELSE "name"
        done == s.at \in {"relation", "operand"}
        outer == Tail(s.operators)
    IN  {Parsing(arc[3], s.operators) : arc \in {arc \in Arcs : arc[1] = s.at /\ arc[2] = word}}
        \cup (IF s.at \in {"first", "second"} /\ token = "("
              THEN {Parsing("first", <<"none">> \o s.operators)} ELSE {})
        \cup (IF done /\ token = ")" /\ outer # <<>> THEN {Parsing("operand", outer)} ELSE {})
        \cup (IF done /\ token \in Operators /\ Head(s.operators) \in {"none", token} \ {"but not"}
              THEN {Parsing("second", <<token>> \o outer)} ELSE {})

(* The state after a prefix, in a set; {} after one that is no definition.     *)
Parsed(p) ==
    LET states[i \in 0..Len(p)] ==
            IF i = 0 THEN {Start} ELSE UNION {Shift(s, p[i]) : s \in states[i - 1]}
    IN  states[Len(p)]

-------------------------------------------------------------------------------
CompletionInit ==
    /\ place = Nowhere
    /\ prefix = <<>>

StartDefinition(u, line) ==
    /\ place = Nowhere
    /\ place' = [doc |-> u, line |-> line]
    /\ UNCHANGED prefix

TypeToken(token) ==
    /\ place # Nowhere
    /\ Len(prefix) < MaxTokens
    /\ Parsed(Append(prefix, token)) # {}
    /\ prefix' = Append(prefix, token)
    /\ UNCHANGED place

CompletionNext ==
    \/ \E u \in DOMAIN TypedLines : \E line \in TypedLines[u] : StartDefinition(u, line)
    \/ \E token \in TypedNames \cup Punctuation : TypeToken(token)

-------------------------------------------------------------------------------
(* The type a line belongs to: the last one that starts above it.              *)
TypeAbove(x, u, line) ==
    LET above == {i \in DOMAIN TypeLines[u] : TypeLines[u][i][1] <= line}
    IN  x[Extract[u].types[CHOOSE i \in above : \A j \in above : j <= i].name]

(* The names that can stand at the cursor without being reported as undefined. *)
Fitting(x, u, line, p, at) ==
    CASE at \in {"first", "second", "tupleset"} -> RelationsOf(x, u, TypeAbove(x, u, line))
      [] at \in {"restrictions", "restriction"} -> TypeNames(x, u)
      [] at = "userset"                         -> RelationsOf(x, u, p[Len(p) - 1])
      [] at = "condition"                       -> {x[s] : s \in ConditionsIn[u]}

(* Where a definition takes a name, completion offers the names that fit there *)
(* and no other: those of the type the line belongs to, of the type before #,  *)
(* or of the scope.  Below the reach of a type it may offer nothing.           *)
NamesOfferedFit ==
    place # Nowhere =>
        LET offered == Offers(text, place.doc, place.line, prefix) \ Punctuation
        IN  \A s \in {s \in Parsed(prefix) : \E arc \in Arcs : arc[1] = s.at /\ arc[2] = "name"} :
                \/ offered = Fitting(text, place.doc, place.line, prefix, s.at) \ Punctuation
                \/ offered = {} /\ EnclosingType(text, place.doc, place.line) = NoType

(* "Completion offers what can legally follow the cursor" (completion.go).     *)
OffersAreLegal ==
    place # Nowhere =>
        \A token \in Offers(text, place.doc, place.line, prefix) : Parsed(Append(prefix, token)) # {}
===============================================================================
