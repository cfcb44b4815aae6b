-------------------------------- MODULE Names ---------------------------------
(* The names in models and store tests: what extraction keeps of them          *)
(* (analysis/model.go), how navigation resolves them in a scope                *)
(* (analysis/scope.go), how diagnostics do by code of their own in scopes of   *)
(* their own (diag/scope.go), and what diagnostics say of them                 *)
(* (diag/semantic.go and diag/store.go).                                       *)
(*                                                                             *)
(* A document is its syntax tree, whose leaves are sites; x[s] is the name     *)
(* written at the site s, so that an edit of names changes x and no tree.      *)
(*   model        [types, conds]      conds: the sites of their names          *)
(*   type         [name, extend, relations]                                    *)
(*   relation     [name, operator, operands]                                   *)
(*   operand      [form, terms]       "direct", "computed", "from" or "group"  *)
(*   term         [node |-> "restriction", type, wildcard, relation, cond],    *)
(*                [node |-> "computed", relation], or                          *)
(*                [node |-> "from", relation, tupleset]                        *)
(*   store test   a sequence of [objects, users, filters, relations]           *)
(* A tuple, check, list_objects or list_users entry of a store test is the     *)
(* last: its objects (of list_objects its type), its users [type, relation],   *)
(* its user_filter and the relations it asserts.                               *)
EXTENDS Workspace

CONSTANTS
    View,     \* the index: which documents there are, and what refers to what
    Disk,     \* what is on disk at each path
    Tree,     \* Tree[u]: the syntax tree of a model
    Inline,   \* Inline[u]: the syntax tree of the model in a store test that has one
    Tests,    \* Tests[u]: the entries of a store test
    NoSite,   \* the optional part is not there
    Refused   \* names nameErrors reports: reserved, or against the naming rule

Models == DocsOfKind(View, "model")
Stores == DocsOfKind(View, "store")

(* ScopeFor of every document.                                                 *)
Scope == [u \in Docs(View) |-> ScopeFor(View, u)]

Each(seq, Op(_)) == [i \in DOMAIN seq |-> Op(seq[i])]

-------------------------------------------------------------------------------
(* collectRefs, appendRef: the names a term points at.  `by` is the OwnerType  *)
(* of a relation in a restriction, the Tupleset of one before `from`.          *)
Ref(kind, at, by, term) ==
    IF at = NoSite THEN {} ELSE {[kind |-> kind, at |-> at, by |-> by, term |-> term]}

TermRefs(t) ==
    CASE t.node = "computed" ->
            Ref("relation on self", t.relation, NoSite, t)
      [] t.node = "from" ->
            Ref("relation via tupleset", t.relation, t.tupleset, t)
                \cup Ref("tupleset", t.tupleset, NoSite, t)
      [] t.node = "restriction" ->
            Ref("type", t.type, NoSite, t)
                \cup Ref("relation on type", t.relation, t.type, t)
                \cup Ref("condition", t.cond, NoSite, t)

(* onlyPlainTypes: what may stand right of `from`.                             *)
DirectOnly(rel) ==
    /\ rel.operator = "none"
    /\ rel.operands[1].form = "direct"
    /\ \A t \in ToSet(rel.operands[1].terms) : ~t.wildcard /\ t.relation = NoSite

(* extractRelation, extractType, Extract: the declarations of a model.         *)
ExtractRelation(rel) ==
    LET terms == FlattenSeq(Each(rel.operands, LAMBDA o : o.terms))
    IN  [name |-> rel.name, directOnly |-> DirectOnly(rel), partials |-> rel.operands,
         terms |-> terms, refs |-> UNION {TermRefs(t) : t \in ToSet(terms)}]

ExtractType(d) == [name |-> d.name, extend |-> d.extend, relations |-> Each(d.relations, ExtractRelation)]
ExtractTree(tree) == [types |-> Each(tree.types, ExtractType), conds |-> tree.conds]
Extract == [u \in Models |-> ExtractTree(Tree[u])]

(* The text of a term, and of the operands of the top-level operator.          *)
Parts(t) == DOMAIN t \cap {"type", "relation", "tupleset", "cond"}
Written(x, t) ==
    <<t.node, "wildcard" \in DOMAIN t /\ t.wildcard,
      [part \in Parts(t) |-> IF t[part] = NoSite THEN NoSite ELSE x[t[part]]]>>
Partials(x, rel) == Each(rel.partials, LAMBDA o : <<o.form, Each(o.terms, LAMBDA t : Written(x, t))>>)

-------------------------------------------------------------------------------
(* Scope: the declarations navigation takes a name in the document u for.      *)
TypesIn == [u \in Docs(View) |-> FlattenSeq(Each(Scope[u], LAMBDA w : Extract[w].types))]
RelationsIn ==
    [u \in Docs(View) |-> UNION {{[type |-> d.name, rel |-> r] : r \in ToSet(d.relations)} : d \in ToSet(TypesIn[u])}]
ConditionsIn == [u \in Docs(View) |-> UNION {ToSet(Extract[w].conds) : w \in ToSet(Scope[u])}]

TypeDecls(x, u, name) == {d \in ToSet(TypesIn[u]) : x[d.name] = name}
HasType(x, u, name) == \E i \in DOMAIN TypesIn[u] : x[TypesIn[u][i].name] = name

RelationDecls(x, u, type, name) ==
    {r.rel : r \in {r \in RelationsIn[u] : x[r.type] = type /\ x[r.rel.name] = name}}
HasRelation(x, u, type, name) == \E r \in RelationsIn[u] : x[r.type] = type /\ x[r.rel.name] = name

(* RelationsOf and TypeNames: without what has been seen before.               *)
RelationsOf(x, u, type) == {x[r.rel.name] : r \in {r \in RelationsIn[u] : x[r.type] = type}}
TypeNames(x, u) == {x[TypesIn[u][i].name] : i \in DOMAIN TypesIn[u]}

ConditionDecls(x, u, name) == {s \in ConditionsIn[u] : x[s] = name}

(* The types a tupleset relation can point at.                                 *)
TuplesetTargets(x, u, type, tupleset) ==
    UNION {{x[ref.at] : ref \in {ref \in r.refs : ref.kind = "type"}} : r \in RelationDecls(x, u, type, tupleset)}

-------------------------------------------------------------------------------
(* scope: the models diagnostics look a name in the document u up in.  A store *)
(* test without model_file is checked against the model it carries, and        *)
(* against none if its model_file cannot be read or is not loaded.             *)
Inlined == {u \in Stores \cap DOMAIN Inline : Text(View, u).model = NoPath}
NoModel == [types |-> <<>>, conds |-> <<>>]
Checked ==
    [u \in Models \cup Stores |->
        IF u \in Inlined THEN <<ExtractTree(Inline[u])>>
        ELSE Each(IF u \in Models THEN ModelScope(View, u) ELSE StoreScope(View, Disk, u),
                  LAMBDA w : IF w \in Models THEN Extract[w] ELSE NoModel)]
TypesChecked == [u \in Models \cup Stores |-> FlattenSeq(Each(Checked[u], LAMBDA m : m.types))]
CondsChecked == [u \in Models \cup Stores |-> UNION {ToSet(m.conds) : m \in ToSet(Checked[u])}]

KnownTypes(x, u, name) == {d \in ToSet(TypesChecked[u]) : x[d.name] = name}
KnowsType(x, u, name) == \E d \in ToSet(TypesChecked[u]) : x[d.name] = name
KnownRelations(x, u, type, name) ==
    UNION {{r \in ToSet(d.relations) : x[r.name] = name} : d \in KnownTypes(x, u, type)}
KnowsRelation(x, u, type, name) ==
    \E d \in ToSet(TypesChecked[u]) : x[d.name] = type /\ \E r \in ToSet(d.relations) : x[r.name] = name
KnownConditions(x, u, name) == {s \in CondsChecked[u] : x[s] = name}
KnownTargets(x, u, type, tupleset) ==
    {x[ref.at] : ref \in {ref \in UNION {r.refs : r \in KnownRelations(x, u, type, tupleset)} : ref.kind = "type"}}

-------------------------------------------------------------------------------
(* resolveRef: what is wrong with a name used in a relation of a type, once    *)
(* for all types it may belong to.                                             *)
ResolveRef(x, u, type, ref) ==
    LET name == x[ref.at]
        problem(what) == {[what |-> what, at |-> ref.at, name |-> name]}
        unless(fine, what) == IF fine THEN {} ELSE problem(what)
    IN  CASE ref.kind = "type" -> unless(KnowsType(x, u, name), "type")
          [] ref.kind = "relation on self" -> unless(KnowsRelation(x, u, type, name), "relation")
          [] ref.kind = "relation on type" ->
                unless(KnowsType(x, u, x[ref.by]) => KnowsRelation(x, u, x[ref.by], name), "relation")
          [] ref.kind = "tupleset" ->
                IF KnowsRelation(x, u, type, name)
                THEN unless(\A r \in KnownRelations(x, u, type, name) : r.directOnly, "not direct")
                ELSE problem("relation")
          [] ref.kind = "relation via tupleset" ->
                LET targets == KnownTargets(x, u, type, x[ref.by])
                IN  unless(targets = {} \/ \E t \in targets : KnowsRelation(x, u, t, name), "relation")
          [] ref.kind = "condition" -> unless(KnownConditions(x, u, name) # {}, "condition")

(* Where a sequence has a value it had before.                                 *)
Repeats(seq) == {i \in DOMAIN seq : \E j \in 1..(i - 1) : seq[j] = seq[i]}

NameErrors(x, decl) ==
    {[what |-> "refused", at |-> s, name |-> x[s]] :
        s \in {s \in {decl.name} \cup {r.name : r \in ToSet(decl.relations)} : x[s] \in Refused}}

(* duplicateTypes: the declaration that comes first is the one reported.       *)
DuplicateTypes(x, u) ==
    LET declared(name) == Filter(TypesChecked[u], {d \in KnownTypes(x, u, name) : ~d.extend})
    IN  {[what |-> "duplicate type", at |-> d.name, name |-> x[d.name]] :
            d \in {d \in ToSet(Extract[u].types) :
                    ~d.extend /\ declared(x[d.name])[1] = d /\ Len(declared(x[d.name])) > 1}}

DuplicateRelations(x, decl) ==
    {[what |-> "duplicate relation", at |-> decl.relations[i].name, name |-> x[decl.relations[i].name]] :
        i \in Repeats(Each(decl.relations, LAMBDA r : x[r.name]))}

(* Operands have no site of their own: the relation stands for them.           *)
DuplicatePartials(x, rel) ==
    {[what |-> "duplicate partial", at |-> rel.name, name |-> x[rel.name]] : i \in Repeats(Partials(x, rel))}

(* Reported where the restriction is written first.                            *)
DuplicateRestrictions(x, rel) ==
    LET types == Filter(rel.terms, {t \in ToSet(rel.terms) : t.node = "restriction"})
        written == Each(types, LAMBDA t : Written(x, t))
        first(i) == CHOOSE j \in 1..i : written[j] = written[i] /\ j \notin Repeats(written)
    IN  {[what |-> "duplicate restriction", at |-> types[first(i)].type, name |-> x[types[i].type]] :
            i \in Repeats(written)}

UnusedConditions(x, u) ==
    LET relations == UNION {ToSet(d.relations) : d \in ToSet(TypesChecked[u])}
        used == UNION {{x[ref.at] : ref \in {ref \in r.refs : ref.kind = "condition"}} : r \in relations}
    IN  {[what |-> "unused", at |-> s, name |-> x[s]] : s \in {s \in ToSet(Extract[u].conds) : x[s] \notin used}}

RelationErrors(x, u, type, rel) ==
    DuplicatePartials(x, rel) \cup DuplicateRestrictions(x, rel) \cup
    UNION {ResolveRef(x, u, type, ref) : ref \in rel.refs}

(* semanticErrors of a model, but for the schema header.                       *)
ModelErrors(x, u) ==
    DuplicateTypes(x, u) \cup UnusedConditions(x, u) \cup
    UNION {NameErrors(x, d) \cup DuplicateRelations(x, d) \cup
           UNION {RelationErrors(x, u, x[d.name], r) : r \in ToSet(d.relations)} : d \in ToSet(Extract[u].types)}

-------------------------------------------------------------------------------
(* storeChecker: the fields of an entry, and its relations by the type of its  *)
(* first object that has one.                                                  *)
UndeclaredTypes(x, u, sites) ==
    {[what |-> "type", at |-> s, name |-> x[s]] : s \in {s \in ToSet(sites) : ~KnowsType(x, u, x[s])}}

UserErrors(x, u, user) ==
    IF ~KnowsType(x, u, x[user.type]) THEN UndeclaredTypes(x, u, <<user.type>>)
    ELSE IF user.relation # NoSite /\ ~KnowsRelation(x, u, x[user.type], x[user.relation])
         THEN {[what |-> "relation", at |-> user.relation, name |-> x[user.relation]]}
         ELSE {}

(* Faulty variant of EntryErrors: users are not looked up.                     *)
EntryErrorsWithoutUsers(x, u, e) ==
    LET known == Filter(e.objects, {s \in ToSet(e.objects) : KnowsType(x, u, x[s])})
        unknown == {r \in ToSet(e.relations) : ~KnowsRelation(x, u, x[known[1]], x[r])}
    IN  UndeclaredTypes(x, u, e.objects) \cup UndeclaredTypes(x, u, e.filters) \cup
        IF known = <<>> THEN {} ELSE {[what |-> "relation", at |-> r, name |-> x[r]] : r \in unknown}

EntryErrors(x, u, e) ==
    LET known == Filter(e.objects, {s \in ToSet(e.objects) : KnowsType(x, u, x[s])})
        unknown == {r \in ToSet(e.relations) : ~KnowsRelation(x, u, x[known[1]], x[r])}
    IN  UndeclaredTypes(x, u, e.objects) \cup UndeclaredTypes(x, u, e.filters) \cup
        (UNION {UserErrors(x, u, user) : user \in ToSet(e.users)}) \cup
        IF known = <<>> THEN {} ELSE {[what |-> "relation", at |-> r, name |-> x[r]] : r \in unknown}

StoreFault(what) == {[what |-> what, at |-> NoSite, name |-> NoSite]}
Missing(u) == Text(View, u).model # NoPath /\ Disk[Text(View, u).model] = NoFile

(* storeDiagnostics: nothing is looked up where there is no model to look in.  *)
StoreErrors(x, u) ==
    CASE Text(View, u).broken                 -> StoreFault("yaml")
      [] ~Text(View, u).broken /\ Missing(u)  -> StoreFault("model_file")
      [] OTHER -> IF Checked[u] = <<>> THEN {} ELSE UNION {EntryErrors(x, u, e) : e \in ToSet(Tests[u])}
===============================================================================
