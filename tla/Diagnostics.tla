------------------------------ MODULE Diagnostics ------------------------------
(* Package diag: which problems it finds in which document.  A result is a     *)
(* function from the documents it touches to sets of problems; a touched       *)
(* document with no problem maps to {}, which is what clears it in an editor.  *)
(* Syntax errors are a flag of the text, and references are to type names; the *)
(* reference transformer and openfga's typesystem, which are libraries, are    *)
(* left out except for the file reading diag does for them.                    *)
EXTENDS Workspace

Problem(kind, what) == <<kind, what>>
Problems(kind, whats) == {Problem(kind, x) : x \in whats}

(* Result.append: the problems of two results, target by target.               *)
Touching(r, u) == IF u \in DOMAIN r THEN r[u] ELSE {}
Merge(r, s) == [u \in DOMAIN r \cup DOMAIN s |-> Touching(r, u) \cup Touching(s, u)]

-------------------------------------------------------------------------------
(* scope.hasType, and the non-extending declarations duplicateTypes counts.    *)
Knows(v, docs, name) == \E i \in DOMAIN docs : name \in Text(v, docs[i]).types \cup Text(v, docs[i]).extends
Declaring(v, docs, name) == SelectSeq(docs, LAMBDA u : name \in Text(v, u).types)

(* semanticErrors: a duplicate is reported at its first declaration only.      *)
SemanticErrors(v, names, u, inModuleSet) ==
    LET text == Text(v, u) IN
    (IF inModuleSet \/ text.header THEN {} ELSE {Problem("schema version required", PathOf[u])})
    \cup Problems("unknown", {n \in text.uses : ~Knows(v, names, n)})
    \cup Problems("duplicate", {n \in text.types :
            Len(Declaring(v, names, n)) > 1 /\ Declaring(v, names, n)[1] = u})

SyntaxErrors(v, u) == IF Text(v, u).broken THEN {Problem("syntax", PathOf[u])} ELSE {}

(* buildModular's reads: a member that is neither indexed nor on disk cannot   *)
(* be opened.  It is reported on the fga.mod, and only when no member has a    *)
(* syntax error.                                                               *)
UnreadableMembers(v, disk, mod) ==
    Problems("cannot open", {p \in ToSet(Listed(v, mod)) : v.owner[p] = NoURI /\ disk[p] = NoFile})

(* Faulty variant of ModelDiagnostics: only the document itself is checked.    *)
ModelDiagnosticsAlone(v, disk, u) ==
    [x \in {u} |-> SyntaxErrors(v, u) \cup
        SemanticErrors(v, ModelScope(v, u), u, ModFor(v, PathOf[u]) # NoURI)]

(* modelDiagnostics: every member of the set is touched and checked.           *)
ModelDiagnostics(v, disk, u) ==
    LET mod == ModFor(v, PathOf[u])
        docs == SetDocs(v, u)
        names == ModelScope(v, u)
        members == [x \in {u} \cup ToSet(docs) |->
                        IF x \in ToSet(docs)
                        THEN SyntaxErrors(v, x) \cup SemanticErrors(v, names, x, mod # NoURI)
                        ELSE {}]
        builds == mod # NoURI /\ \A i \in DOMAIN docs : ~Text(v, docs[i]).broken
    IN
    IF builds /\ UnreadableMembers(v, disk, mod) # {}
    THEN Merge(members, [x \in {mod} |-> UnreadableMembers(v, disk, mod)])
    ELSE members

-------------------------------------------------------------------------------
StoreDiagnostics(v, disk, u) ==
    LET text == Text(v, u)
        docs == StoreScope(v, disk, u)
    IN
    [x \in {u} |->
        CASE text.broken -> {Problem("yaml", PathOf[u])}
          [] ~text.broken /\ text.model # NoPath /\ disk[text.model] = NoFile ->
                {Problem("cannot stat", text.model)}
          [] ~text.broken /\ text.model = NoPath /\ text.inline # {} ->
                Problems("unknown", text.uses \ text.inline)
          [] ~text.broken /\ docs # <<>> ->
                Problems("unknown", {n \in text.uses : ~Knows(v, docs, n)})
          [] OTHER -> {}]

(* modDiagnostics, short of its last step: every entry on disk is touched, and *)
(* one that is not is reported by a check of its own, in its own words.        *)
ModEntries(v, disk, u) ==
    LET listed == Listed(v, u)
        twice == {p \in ToSet(listed) : \E i, j \in DOMAIN listed : i # j /\ listed[i] = p /\ listed[j] = p}
        own == (IF Text(v, u).broken THEN {Problem("fga.mod", PathOf[u])} ELSE {})
               \cup Problems("listed twice", twice)
               \cup Problems("cannot stat", {p \in ToSet(listed) : disk[p] = NoFile})
    IN
    [x \in {u} \cup {FileURI[p] : p \in {p \in ToSet(listed) : disk[p] # NoFile}} |->
        IF x = u THEN own ELSE {}]

(* modDiagnostics: the module set is checked through the first entry.          *)
ModDiagnostics(v, disk, u) ==
    LET listed == Listed(v, u) IN
    IF listed = <<>> \/ v.owner[Head(listed)] = NoURI
    THEN ModEntries(v, disk, u)
    ELSE Merge(ModEntries(v, disk, u), ModelDiagnostics(v, disk, v.owner[Head(listed)]))

(* diag.Compute.                                                               *)
Compute(v, disk, u) ==
    CASE Kind(u) = "model" -> ModelDiagnostics(v, disk, u)
      [] Kind(u) = "store" -> StoreDiagnostics(v, disk, u)
      [] Kind(u) = "mod"   -> ModDiagnostics(v, disk, u)
      [] OTHER             -> [x \in {u} |-> {}]

(* What is wrong with one document, as its own computation says.               *)
Current(v, disk, u) == Compute(v, disk, u)[u]

-------------------------------------------------------------------------------
(* Faulty variant of Results: the store tests are not recomputed.              *)
ResultsWithoutStores(v, disk, u) == IF v.entry[u] = Absent THEN [x \in {} |-> {}] ELSE Compute(v, disk, u)

(* The results of Server.publish: the document, what shares its module set,    *)
(* and the store tests whose scope includes it.                                *)
Results(v, disk, u) ==
    IF v.entry[u] = Absent THEN [x \in {} |-> {}]
    ELSE LET stores == IF Kind(u) = "store" THEN {} ELSE StoresFor(v, u)
         IN  Merge(Compute(v, disk, u), [s \in stores |-> Current(v, disk, s)])
===============================================================================
