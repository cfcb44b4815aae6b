------------------------------- MODULE Spelling -------------------------------
(* Names that nearly match: what diagnostics suggest for an unknown name       *)
(* (suggest, editDistance in diag/store.go), what the agent lists (nearest in  *)
(* agent/query.go), and the search for symbols (fuzzyMatch in                  *)
(* feature/symbols.go).  A name is a sequence of bytes.                        *)
EXTENDS Positions, FiniteSetsExt

CONSTANTS
    Letters,    \* the characters of names, of one byte each
    Candidates  \* known names

ASSUME CandidatesAssumption == \A c \in Candidates : c \in Seq(Letters)

(* Faulty variant of EditDistance: a letter is never replaced by another.      *)
EditDistanceWithoutReplacing(a, b) ==
    LET row[i \in 0..Len(a)] ==
            LET previous == row[i - 1]
                current[j \in 0..Len(b)] ==
                    IF j = 0 THEN i
                    ELSE IF a[i] = b[j] THEN previous[j - 1]
                    ELSE Min({previous[j] + 1, current[j - 1] + 1})
            IN  IF i = 0 THEN [j \in 0..Len(b) |-> j] ELSE current
    IN  IF a = b THEN 0 ELSE row[Len(a)][Len(b)]

(* The i-th row, computed from the one before.                                 *)
NextRow(a, b, previous, i) ==
    LET current[j \in 0..Len(b)] ==
            IF j = 0 THEN i
            ELSE Min({previous[j] + 1, current[j - 1] + 1,
                      previous[j - 1] + (IF a[i] = b[j] THEN 0 ELSE 1)})
    IN  current

(* One row per letter of a.                                                    *)
EditDistance(a, b) ==
    LET row[i \in 0..Len(a)] ==
            IF i = 0 THEN [j \in 0..Len(b) |-> j] ELSE NextRow(a, b, row[i - 1], i)
    IN  IF a = b THEN 0 ELSE row[Len(a)][Len(b)]

NoName == <<>>

(* Faulty variant of Suggest: the last name that is close enough.              *)
SuggestLast(name, candidates) ==
    FoldLeft(LAMBDA best, c : IF EditDistance(name, c) < Len(name) \div 2 + 1 THEN c ELSE best, NoName, candidates)

(* The first of the candidates that differ least, in at most half the letters. *)
Suggest(name, candidates) ==
    LET best[i \in 0..Len(candidates)] ==
            LET distance == EditDistance(name, candidates[i])
            IN  IF i = 0 THEN [name |-> NoName, distance |-> Len(name) \div 2 + 1]
                ELSE IF distance < best[i - 1].distance THEN [name |-> candidates[i], distance |-> distance]
                ELSE best[i - 1]
    IN  best[Len(candidates)].name

(* nearest, before the list is sorted and cut to its limit.                    *)
Nearest(name, candidates) == {c \in candidates : EditDistance(name, c) <= Len(name) \div 2 + 2}

(* Faulty variant of FuzzyMatch: the letters of the query follow each other.   *)
FuzzyMatchAdjacent(query, name) ==
    \E i \in 0..(Len(name) - Len(query)) : SubSeq(name, i + 1, i + Len(query)) = query

(* The letters of the query are ticked off from left to right.                 *)
FuzzyMatch(query, name) ==
    LET ticked[i \in 0..Len(name)] ==
            IF i = 0 THEN 0
            ELSE IF ticked[i - 1] < Len(query) /\ query[ticked[i - 1] + 1] = name[i] THEN ticked[i - 1] + 1
            ELSE ticked[i - 1]
    IN  ticked[Len(name)] = Len(query)

-------------------------------------------------------------------------------
NameTyped == content # <<>> /\ ToSet(content) \subseteq Letters

(* An alignment pairs letters of two names in order; what it costs is the      *)
(* pairs that differ and the letters without partner.                          *)
Alignments(a, b) ==
    {pairs \in SUBSET ((DOMAIN a) \X (DOMAIN b)) :
        \A p, q \in pairs : p = q \/ (p[1] < q[1] /\ p[2] < q[2]) \/ (q[1] < p[1] /\ q[2] < p[2])}
Cost(a, b, pairs) ==
    Cardinality({p \in pairs : a[p[1]] # b[p[2]]}) + Len(a) + Len(b) - 2 * Cardinality(pairs)

(* The distance is that of the cheapest alignment, whichever way it is asked.  *)
EditDistanceIsMinimal ==
    NameTyped => \A c \in Candidates :
        /\ EditDistance(content, c) = Min({Cost(content, c, pairs) : pairs \in Alignments(content, c)})
        /\ EditDistance(c, content) = EditDistance(content, c)

(* A suggestion is made if a known name is close enough, none is closer, and   *)
(* the agent lists it too.                                                     *)
SuggestionsAreNearest ==
    NameTyped => \A c, d \in Candidates :
        LET suggested == Suggest(content, <<c, d>>)
            distances == {EditDistance(content, c), EditDistance(content, d)}
        IN  IF Min(distances) <= Len(content) \div 2
            THEN EditDistance(content, suggested) = Min(distances) /\ suggested \in Nearest(content, {c, d})
            ELSE suggested = NoName

(* A search finds exactly the names that contain its letters in order.         *)
FuzzyMatchIsSubsequence ==
    NameTyped => \A c \in Candidates :
        FuzzyMatch(content, c) <=>
            \E places \in [DOMAIN content -> DOMAIN c] :
                /\ \A i \in DOMAIN content : c[places[i]] = content[i]
                /\ \A i, j \in DOMAIN content : i < j => places[i] < places[j]
===============================================================================
