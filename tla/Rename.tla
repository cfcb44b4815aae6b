-------------------------------- MODULE Rename --------------------------------
(* Navigation and rename (feature/target.go, navigate.go, rename.go) and the   *)
(* agent's queries by name (agent/find.go), for an editor in which names are   *)
(* retyped and renamed.                                                        *)
EXTENDS Names

CONSTANTS
    FirstText,    \* what is written at each site at first
    Identifiers,  \* names that match identifierPattern
    NewNames,     \* names asked for in a rename
    Typed,        \* names typed over another one
    NoRequest,    \* no rename has been made
    MaxTyped,     \* bound: how many names are typed over
    MaxRenames    \* bound: how many renames are made

VARIABLES
    text,     \* text[s]: the name written at a site
    typed,    \* how many names were typed over
    renames,  \* how many renames were made
    request   \* the last rename

vars == <<text, typed, renames, request>>

Sites == DOMAIN FirstText
Names == {FirstText[s] : s \in Sites} \cup NewNames \cup Typed

ASSUME BoundsAssumption == MaxTyped \in Nat /\ MaxRenames \in Nat
ASSUME NamesAssumption == FirstText \in [Sites -> Names] /\ NoSite \notin Names

(* The index of a server to which no file is known under two URIs.             *)
ASSUME ViewAssumption ==
    /\ View.owner \in [Paths -> URIs \cup {NoURI}]
    /\ \A p \in Paths : View.owner[p] # NoURI => PathOf[View.owner[p]] = p /\ View.owner[p] \in Docs(View)
    /\ \A u \in Docs(View) : Kind(u) # "unknown" => View.owner[PathOf[u]] = u
    /\ \A u \in DocsOfKind(View, "mod") : Listed(View, u) \in Seq({p \in Paths : KindOf[p] = "model"})
    /\ \A u \in Stores : Text(View, u).model \in Paths \cup {NoPath}

(* What the grammar lets a model be, once it is free of syntax errors, and     *)
(* what is read of a store test.                                               *)
OptionalSite == Sites \cup {NoSite}
TermTree ==
    [node : {"restriction"}, type : Sites, wildcard : BOOLEAN, relation : OptionalSite, cond : OptionalSite]
        \cup [node : {"computed"}, relation : Sites]
        \cup [node : {"from"}, relation : Sites, tupleset : Sites]
OperandTree ==
    {o \in [form : {"direct", "computed", "from", "group"}, terms : Seq(TermTree)] :
        o.form = "direct" => \A t \in ToSet(o.terms) : t.node = "restriction"}
RelationTree == [name : Sites, operator : STRING, operands : Seq(OperandTree) \ {<<>>}]
TypeTree == [name : Sites, extend : BOOLEAN, relations : Seq(RelationTree)]
ModelTree == [types : Seq(TypeTree), conds : Seq(Sites)]
EntryTree ==
    [objects : Seq(Sites), users : Seq([type : Sites, relation : OptionalSite]),
     filters : Seq(Sites), relations : Seq(Sites)]
ASSUME TreesAssumption ==
    /\ NoSite \notin Sites
    /\ \A u \in Models : Tree[u] \in ModelTree
    /\ \A u \in DOMAIN Inline : Inline[u] \in ModelTree
    /\ \A u \in Stores : Tests[u] \in Seq(EntryTree)

-------------------------------------------------------------------------------
(* Target: what a name denotes.  Types and conditions have no owners.          *)
Target(kind, name, owners, at, declaration) ==
    [kind |-> kind, name |-> name, owners |-> owners, at |-> at, declaration |-> declaration]

(* A tupleset is no target.                                                    *)
TargetFromRef(x, u, type, ref) ==
    LET use(kind, owners) == {Target(kind, x[ref.at], owners, ref.at, FALSE)}
    IN  CASE ref.kind = "type"                  -> use("type", {})
          [] ref.kind = "relation on self"      -> use("relation", {type})
          [] ref.kind = "relation on type"      -> use("relation", {x[ref.by]})
          [] ref.kind = "relation via tupleset" ->
                use("relation", TuplesetTargets(x, u, type, x[ref.by]))
          [] ref.kind = "condition"             -> use("condition", {})
          [] ref.kind = "tupleset"              -> {}

RelationSymbols(x, u, type, rel) ==
    {Target("relation", x[rel.name], {type}, rel.name, TRUE)} \cup
    UNION {TargetFromRef(x, u, type, ref) : ref \in rel.refs}

ModelSymbols(x, u) ==
    {Target("condition", x[s], {}, s, TRUE) : s \in ToSet(Extract[u].conds)} \cup
    UNION {{Target("type", x[d.name], {}, d.name, TRUE)} \cup
           UNION {RelationSymbols(x, u, x[d.name], r) : r \in ToSet(d.relations)} :
               d \in ToSet(Extract[u].types)}

(* objectSymbol, userSymbols, and the relations of an entry, which belong to   *)
(* the type of its first object whether it is declared or not.                 *)
EntrySymbols(x, e) ==
    LET use(kind, s, owners) == Target(kind, x[s], owners, s, FALSE)
        first == IF e.objects = <<>> THEN {} ELSE {x[e.objects[1]]}
        sets == {user \in ToSet(e.users) : user.relation # NoSite}
    IN  {use("type", s, {}) : s \in ToSet(e.objects) \cup ToSet(e.filters) \cup {user.type : user \in ToSet(e.users)}}
        \cup {use("relation", user.relation, {x[user.type]}) : user \in sets}
        \cup {use("relation", s, first) : s \in ToSet(e.relations)}

FileRef(p) == Target("file", p, {}, <<"file", p>>, FALSE)

StoreSymbols(x, u) ==
    {FileRef(p) : p \in {Text(View, u).model} \ {NoPath}} \cup UNION {EntrySymbols(x, e) : e \in ToSet(Tests[u])}

Symbols(x, u) ==
    CASE Kind(u) = "model" -> ModelSymbols(x, u)
      [] Kind(u) = "store" -> StoreSymbols(x, u)
      [] Kind(u) = "mod"   -> {FileRef(p) : p \in ToSet(Listed(View, u))}
      [] OTHER             -> {}

(* The places of a document where names can be pointed at, each with what else a     *)
(* name there depends on: the name of the type whose relation it is in, and    *)
(* the name written with it.  No two of them are one site.  The names in a     *)
(* model that a store test carries are of no document: nothing points at them. *)
Leaf(role, at, type, by) == [role |-> role, at |-> at, type |-> type, by |-> by]

RelationLeaves(d, rel) ==
    {Leaf("relation", rel.name, d.name, NoSite)} \cup {Leaf(ref.kind, ref.at, d.name, ref.by) : ref \in rel.refs}

TypeLeaves(d) == {Leaf("type name", d.name, NoSite, NoSite)} \cup UNION {RelationLeaves(d, r) : r \in ToSet(d.relations)}

EntryLeaves(e) ==
    LET type(s) == Leaf("entry type", s, NoSite, NoSite)
        relation(s, t) == Leaf("entry relation", s, NoSite, t)
    IN  {type(s) : s \in ToSet(e.objects) \cup ToSet(e.filters) \cup {user.type : user \in ToSet(e.users)}}
        \cup {relation(user.relation, user.type) : user \in {user \in ToSet(e.users) : user.relation # NoSite}}
        \cup {relation(s, IF e.objects = <<>> THEN NoSite ELSE e.objects[1]) : s \in ToSet(e.relations)}

Leaves(u) ==
    CASE Kind(u) = "model" -> {Leaf("condition name", s, NoSite, NoSite) : s \in ToSet(Extract[u].conds)}
                                \cup UNION {TypeLeaves(d) : d \in ToSet(Extract[u].types)}
      [] Kind(u) = "store" -> UNION {EntryLeaves(e) : e \in ToSet(Tests[u])}
      [] OTHER             -> {}

ASSUME SitesAssumption ==
    \A u, w \in Docs(View) : \A k \in Leaves(u), l \in Leaves(w) : k.at = l.at => u = w /\ k = l

Places(symbols) == {s.at : s \in symbols}
AllSymbols(x) == UNION {{u} \X Symbols(x, u) : u \in Docs(View)}

-------------------------------------------------------------------------------
(* Faulty variant of Declarations: one type a relation may belong to will do.  *)
DeclarationsOfOne(x, u, t) ==
    CASE t.kind = "type"      -> {d.name : d \in TypeDecls(x, u, t.name)}
      [] t.kind = "relation"  ->
            IF t.owners = {} THEN {}
            ELSE {r.name : r \in RelationDecls(x, u, CHOOSE o \in t.owners : TRUE, t.name)}
      [] t.kind = "condition" -> ConditionDecls(x, u, t.name)
      [] t.kind = "file"      -> {t.at}

(* Definition: where what a target denotes is declared.                        *)
Declarations(x, u, t) ==
    CASE t.kind = "type"      -> {d.name : d \in TypeDecls(x, u, t.name)}
      [] t.kind = "relation"  ->
            UNION {{r.name : r \in RelationDecls(x, u, o, t.name)} : o \in t.owners}
      [] t.kind = "condition" -> ConditionDecls(x, u, t.name)
      [] t.kind = "file"      -> {t.at}

(* Faulty variant of Matches: a relation must belong to the same types.        *)
MatchesExactly(s, t) == s.kind = t.kind /\ s.name = t.name /\ s.owners = t.owners

(* matches: a relation of no known type matches any.                           *)
Matches(s, t) ==
    /\ s.kind = t.kind
    /\ s.name = t.name
    /\ s.kind = "relation" => {} \in {s.owners, t.owners} \/ s.owners \cap t.owners # {}

(* Faulty variant of RelatedDocuments: the models of the scope only.           *)
RelatedModels(u) == ToSet(Scope[u])

(* The models of the scope, the store tests that share one of them, and the    *)
(* document itself.                                                            *)
RelatedDocuments(u) ==
    ToSet(Scope[u])
        \cup {s \in Stores : ToSet(Scope[s]) \cap ToSet(Scope[u]) # {}}
        \cup (IF Kind(u) = "store" THEN {} ELSE {u})

ReferencesTo(symbols, u, t) ==
    LET related == RelatedDocuments(u)
    IN  {found[2] : found \in {found \in symbols : found[1] \in related /\ Matches(found[2], t)}}

(* Faulty variant of ExistingName: only types are looked up.                   *)
ExistingType(x, u, t, new) == t.kind = "type" /\ HasType(x, u, new)

(* existingName: the new name is taken in the scope of the request.            *)
ExistingName(x, u, t, new) ==
    CASE t.kind = "type"      -> HasType(x, u, new)
      [] t.kind = "relation"  -> \E o \in t.owners : HasRelation(x, u, o, new)
      [] t.kind = "condition" -> ConditionDecls(x, u, new) # {}

-------------------------------------------------------------------------------
(* Workspace.FindReferences(type, relation), where NoSite is no relation: the  *)
(* owners of a relation of that name if no type has it, or the symbols of all  *)
(* documents.  The scope is the one of the first model.                        *)
AgentDoc == ModelDocs(View)[1]

Owners(x, relation) == {t \in TypeNames(x, AgentDoc) : HasRelation(x, AgentDoc, t, relation)}

(* Faulty variant of AgentMatches: a relation must belong to no other type.    *)
AgentMatchesExactly(s, type, relation) ==
    IF relation = NoSite THEN s.kind = "type" /\ s.name = type
    ELSE s.kind = "relation" /\ s.name = relation /\ s.owners = {type}

AgentMatches(s, type, relation) ==
    IF relation = NoSite THEN s.kind = "type" /\ s.name = type
    ELSE s.kind = "relation" /\ s.name = relation /\ (s.owners # {} => type \in s.owners)

FindReferences(x, symbols, type, relation) ==
    IF relation = NoSite /\ ~HasType(x, AgentDoc, type) /\ Owners(x, type) # {} THEN {}
    ELSE {found[2] : found \in {found \in symbols : AgentMatches(found[2], type, relation)}}

FindDefinition(x, type, relation) ==
    IF relation = NoSite THEN {d.name : d \in TypeDecls(x, AgentDoc, type)}
    ELSE {r.name : r \in RelationDecls(x, AgentDoc, type, relation)}

-------------------------------------------------------------------------------
RenameInit ==
    /\ text = FirstText
    /\ typed = 0
    /\ renames = 0
    /\ request = NoRequest

(* Faulty variant of Rename: any text is taken for a name.                     *)
RenameToAnything(u, t, new, symbols) ==
    /\ renames < MaxRenames
    /\ t.kind # "file"
    /\ Declarations(text, u, t) # {}
    /\ ~ExistingName(text, u, t, new)
    /\ LET edited == Places(ReferencesTo(symbols, u, t))
       IN  text' = [s \in Sites |-> IF s \in edited THEN new ELSE text[s]]
    /\ renames' = renames + 1
    /\ request' = [from |-> u, target |-> t, to |-> new]
    /\ UNCHANGED typed

(* Rename of the symbol t of the document u, and the editor applying it.       *)
Rename(u, t, new, symbols) ==
    /\ renames < MaxRenames
    /\ new \in Identifiers
    /\ t.kind # "file"
    /\ Declarations(text, u, t) # {}
    /\ ~ExistingName(text, u, t, new)
    /\ LET edited == Places(ReferencesTo(symbols, u, t))
       IN  text' = [s \in Sites |-> IF s \in edited THEN new ELSE text[s]]
    /\ renames' = renames + 1
    /\ request' = [from |-> u, target |-> t, to |-> new]
    /\ UNCHANGED typed

(* Somebody types another name.                                                *)
TypeOver(s, name) ==
    /\ typed < MaxTyped
    /\ renames = 0
    /\ text[s] # name
    /\ text' = [text EXCEPT ![s] = name]
    /\ typed' = typed + 1
    /\ UNCHANGED <<renames, request>>

(* What TargetAt finds under the cursor, which of the sites it is aside.       *)
Denoting(s) == Target(s.kind, s.name, s.owners, NoSite, FALSE)

RenameNext ==
    \/ LET symbols == AllSymbols(text)
       IN  \E u \in Docs(View) : \E t \in {Denoting(s) : s \in Symbols(text, u)}, new \in NewNames :
               Rename(u, t, new, symbols)
    \/ \E s \in Sites, name \in Typed : TypeOver(s, name)

-------------------------------------------------------------------------------
RenameTypeOK ==
    /\ text \in [Sites -> Names]
    /\ typed \in 0..MaxTyped
    /\ renames \in 0..MaxRenames
    /\ request = NoRequest \/ request.to \in Identifiers

(* The documents whose names are bounded like those of u.                      *)
SameScope(u) == {w \in Models \cup Stores : ToSet(Scope[w]) = ToSet(Scope[u])}

(* A use of a relation right of `from`, which no request reaches.              *)
TuplesetUses(x, u) ==
    UNION {UNION {{[type |-> x[d.name], at |-> ref.at] :
                      ref \in {ref \in r.refs : ref.kind = "tupleset"}} :
                   r \in ToSet(d.relations)} : d \in ToSet(Extract[u].types)}
UsedAsTupleset(x, u, t) ==
    t.kind = "relation" /\ \E w \in SameScope(u) \cap Models : \E use \in TuplesetUses(x, w) :
        use.type \in t.owners /\ x[use.at] = t.name

(* A rename keeps what every name of the scope denotes, in models and store    *)
(* tests: what was bound is bound to the same declarations.  Not so where a    *)
(* relation stands right of `from`, which rename overlooks, nor for a name     *)
(* that may belong to several types, of which a rename may change one.         *)
RenameKeepsBindings ==
    [][ renames' > renames =>
        LET from == request'.from
            owned(s) == s.kind = "relation" => \E o \in s.owners : s.owners = {o}
        IN  ~UsedAsTupleset(text, from, request'.target) =>
            \A w \in SameScope(from) : \A s \in {s \in Symbols(text, w) : owned(s)} :
                LET bound == Declarations(text, w, s)
                IN  bound # {} => \E now \in Symbols(text', w) :
                        now.at = s.at /\ Declarations(text', w, now) = bound ]_vars

Correct(x, u) == (IF Kind(u) = "model" THEN ModelErrors(x, u) ELSE StoreErrors(x, u)) = {}

(* A rename of t to new mistakes a relation that may belong to several types,  *)
(* or to none: it is written like the new name, so that t cannot be told from  *)
(* it any more, or it matches t by a type that does not have the relation, and *)
(* is renamed though it stands for another one.                                *)
Mistaken(x, u, t, new) ==
    \E w \in SameScope(u) : \E s \in {s \in Symbols(x, w) : s.kind = "relation" /\ \A o \in s.owners : s.owners # {o}} :
        \/ Matches(s, Target(t.kind, new, t.owners, NoSite, FALSE))
        \/ s.owners # {} /\ Matches(s, t) /\ Declarations(x, w, s) \cap Declarations(x, u, t) = {}

(* A rename among correct models breaks none of them, and no correct store     *)
(* test in their scope: it finds every use, and a name it accepts collides     *)
(* with nothing.  The same exception, names like "this", which                 *)
(* identifierPattern accepts and nameErrors does not, and names that may       *)
(* belong to several types: existingName does not look for them, and matches   *)
(* takes any of their types for one that has the relation.  A store test that  *)
(* carries its model is left out: its names are edited as if they were those   *)
(* of any model of the workspace, and the model it carries is not.             *)
RenameBreaksNothing ==
    [][ /\ renames' > renames /\ request'.to \notin Refused
        /\ \A w \in SameScope(request'.from) \cap Models : Correct(text, w)
        /\ ~UsedAsTupleset(text, request'.from, request'.target)
        /\ ~Mistaken(text, request'.from, request'.target, request'.to)
        => \A w \in SameScope(request'.from) \ Inlined : Correct(text, w) => Correct(text', w) ]_vars

(* Go to definition finds nothing for a name of a model exactly if diagnostics *)
(* report the term it stands in, whose names they resolve by other code.       *)
DefinitionsAgree ==
    \A u \in Models : \A d \in ToSet(Extract[u].types) : \A r \in ToSet(d.relations) : \A t \in ToSet(r.terms) :
        LET type == text[d.name]
            problems == UNION {ResolveRef(text, u, type, ref) : ref \in TermRefs(t)}
            targets == UNION {TargetFromRef(text, u, type, ref) : ref \in TermRefs(t)}
        IN  (\A p \in problems : p.what # "not direct") =>
                ((\E target \in targets : Declarations(text, u, target) = {}) <=> problems # {})

(* A store test whose model_file is on disk and leads to models of the index.  *)
Backed(u) ==
    /\ ~Text(View, u).broken /\ Text(View, u).model # NoPath
    /\ Disk[Text(View, u).model] # NoFile
    /\ ScopeOfModelRef(View, Text(View, u).model) # <<>>

(* The same of the entries of a store test that name an object, if its         *)
(* model_file leads to a model.  If not, navigation takes its names for those  *)
(* of any model, while diagnostics look them up in the model it carries or     *)
(* not at all.                                                                 *)
StoreNamesAgree ==
    \A u \in {u \in Stores : Backed(u)} : \A e \in ToSet(Tests[u]) :
        e.objects # <<>> =>
            ((\E target \in EntrySymbols(text, e) : Declarations(text, u, target) = {}) <=> EntryErrors(text, u, e) # {})

(* The declarations a name in a relation of a type stands for.                 *)
Denoted(x, u, type, ref) ==
    LET relation(owners) == UNION {{r.name : r \in RelationDecls(x, u, o, x[ref.at])} : o \in owners}
    IN  CASE ref.kind = "type"                  -> {d.name : d \in TypeDecls(x, u, x[ref.at])}
          [] ref.kind = "condition"             -> ConditionDecls(x, u, x[ref.at])
          [] ref.kind = "relation on type"      -> relation({x[ref.by]})
          [] ref.kind = "relation via tupleset" -> relation(TuplesetTargets(x, u, type, x[ref.by]))
          [] OTHER                              -> relation({type})

(* What the names of a model denote.                                           *)
Uses(x, u) ==
    UNION {{[kind |-> ref.kind, at |-> ref.at, denotes |-> Denoted(x, u, x[r.type], ref)] : ref \in r.rel.refs} :
               r \in {r \in RelationsIn[u] : r.type \in {d.name : d \in ToSet(Extract[u].types)}}}

(* "Find references" from a declaration lists every use of it in the models    *)
(* with the same scope, but for those right of `from`.                         *)
UsesAreListed ==
    LET symbols == AllSymbols(text)
    IN  \A w \in Models : \A u \in SameScope(w) \cap Models :
            LET uses == Uses(text, w)
            IN  \A t \in {t \in Symbols(text, u) : t.declaration} :
                    LET listed == Places(ReferencesTo(symbols, u, t))
                    IN  \A use \in uses : (t.at \in use.denotes /\ use.kind # "tupleset") => use.at \in listed

(* fga_references finds what the editor finds from a declaration, and          *)
(* fga_definition finds the declaration, although they ask by name and in the  *)
(* scope of the first model.                                                   *)
AgentFindsWhatTheEditorFinds ==
    LET symbols == AllSymbols(text)
    IN  \A u \in ToSet(Scope[AgentDoc]) : \A t \in {t \in Symbols(text, u) : t.declaration /\ t.kind # "condition"} :
            LET type == IF t.kind = "type" THEN t.name ELSE CHOOSE o \in t.owners : TRUE
                relation == IF t.kind = "type" THEN NoSite ELSE t.name
            IN  /\ Places(ReferencesTo(symbols, u, t)) \subseteq Places(FindReferences(text, symbols, type, relation))
                /\ t.at \in FindDefinition(text, type, relation)

(* "The agent and JSON forms return everything by default" (docs/agent-api.md, *)
(* on whether a relation is safe to remove): every use of a relation in its    *)
(* scope, right of `from` included.                                            *)
EveryUseIsListed ==
    LET symbols == AllSymbols(text)
    IN  \A r \in RelationsIn[AgentDoc] :
            LET listed == Places(FindReferences(text, symbols, text[r.type], text[r.rel.name]))
            IN  \A w \in ToSet(Scope[AgentDoc]) : \A use \in Uses(text, w) :
                    r.rel.name \in use.denotes => use.at \in listed
===============================================================================
