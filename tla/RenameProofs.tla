----------------------------- MODULE RenameProofs ------------------------------
(* What holds of navigation and rename for every workspace: any models and     *)
(* store tests in any scopes, and whatever names are written in them.          *)
EXTENDS Rename, WorkspaceProofs

(* The editor of Rename.                                                       *)
RenameSpec == RenameInit /\ [][RenameNext]_vars

(* The names written are names, and requests are for identifiers.              *)
THEOREM TypeCorrect == RenameSpec => []RenameTypeOK
<1>1. RenameInit => RenameTypeOK
  BY BoundsAssumption, NamesAssumption DEF RenameInit, RenameTypeOK
<1>2. RenameTypeOK /\ [RenameNext]_vars => RenameTypeOK'
  <2> SUFFICES ASSUME RenameTypeOK, [RenameNext]_vars PROVE RenameTypeOK'
    OBVIOUS
  <2>1. ASSUME NEW u, NEW t, NEW new \in NewNames, NEW symbols, Rename(u, t, new, symbols) PROVE RenameTypeOK'
    <3>1. text' \in [Sites -> Names]
      BY <2>1 DEF Rename, RenameTypeOK, Names
    <3>2. typed' \in 0..MaxTyped /\ renames' \in 0..MaxRenames
      BY <2>1, BoundsAssumption DEF Rename, RenameTypeOK
    <3>3. request'.to \in Identifiers
      BY <2>1 DEF Rename
    <3> QED BY <3>1, <3>2, <3>3 DEF RenameTypeOK
  <2>2. ASSUME NEW s \in Sites, NEW name \in Typed, TypeOver(s, name) PROVE RenameTypeOK'
    <3>1. text' \in [Sites -> Names]
      BY <2>2 DEF TypeOver, RenameTypeOK, Names
    <3>2. typed' \in 0..MaxTyped /\ renames' \in 0..MaxRenames /\ request' = request
      BY <2>2, BoundsAssumption DEF TypeOver, RenameTypeOK
    <3> QED BY <3>1, <3>2 DEF RenameTypeOK
  <2>3. CASE UNCHANGED vars
    BY <2>3 DEF vars, RenameTypeOK
  <2> QED BY <2>1, <2>2, <2>3 DEF RenameNext
<1> QED BY <1>1, <1>2, PTL DEF RenameSpec

-------------------------------------------------------------------------------
(* What the assumptions say of the index and of the scopes.                    *)
LEMMA ViewFits == ViewOK(View) /\ OwnersStored(View)
  BY ViewAssumption DEF ViewOK, OwnersStored, Stores

(* A scope is one of models, and a model is in its own.                        *)
LEMMA Scopes ==
    /\ \A u \in Docs(View) : Scope[u] \in Seq(Models) /\ ToSet(Scope[u]) \subseteq Models
    /\ \A u \in Models : u \in ToSet(Scope[u])
    /\ Models \subseteq Docs(View) /\ Stores \subseteq Docs(View)
<1>1. ASSUME NEW u \in Docs(View) PROVE Scope[u] \in Seq(Models)
  BY ViewFits, ScopesAreModels DEF Scope, Models
<1>2. Models \subseteq Docs(View) /\ Stores \subseteq Docs(View)
  BY DEF Models, Stores, DocsOfKind
<1>3. ASSUME NEW u \in Docs(View) PROVE ToSet(Scope[u]) \subseteq Models
  BY <1>1 DEF ToSet
<1>4. ASSUME NEW u \in Models PROVE u \in ToSet(Scope[u])
  <2> DEFINE mod == ModFor(View, PathOf[u])
  <2>1. u \in ModelURIs /\ u \in Docs(View) /\ Kind(u) = "model"
    BY DEF Models, DocsOfKind, Docs, ModelURIs
  <2>2. CASE mod # NoURI
    <3>1. mod \in DocsOfKind(View, "mod") /\ PathOf[u] \in ToSet(Listed(View, mod))
      BY <2>2, ModForClaims
    <3>2. Listed(View, mod) \in Seq(Paths)
      BY <3>1, ViewFits, LoadedAreModels DEF ViewOK
    <3>3. View.owner[PathOf[u]] = u
      BY <2>1, ViewAssumption
    <3>4. u \in ToSet(Loaded(View, Listed(View, mod)))
      <4>1. ToSet(Loaded(View, Listed(View, mod))) = {View.owner[p] : p \in ToSet(Listed(View, mod))} \cap URIs
        BY <3>2, ViewFits, LoadedMembers
      <4> QED BY <2>1, <3>1, <3>3, <4>1 DEF Docs
    <3>5. ToSet(LoadedModels(View, Listed(View, mod))) = ToSet(Loaded(View, Listed(View, mod))) \cap ModelURIs
      BY <3>2, ViewFits, LoadedModelsMembers
    <3>6. Scope[u] = LoadedModels(View, Listed(View, mod))
      BY <2>1, <2>2 DEF Scope, ScopeFor
    <3> QED BY <2>1, <3>4, <3>5, <3>6
  <2>3. CASE mod = NoURI
    <3>1. Scope[u] = ModelDocs(View)
      BY <2>1, <2>3 DEF Scope, ScopeFor
    <3>2. ToSet(ModelDocs(View)) = Models
      BY ByPathMembers DEF ModelDocs, Models, DocsOfKind, Docs
    <3> QED BY <3>1, <3>2
  <2> QED BY <2>2, <2>3
<1> QED BY <1>1, <1>2, <1>3, <1>4

-------------------------------------------------------------------------------
(* The declarations and uses in a relation, as extraction keeps them.          *)
RelationOK(r) ==
    /\ r.name \in Sites
    /\ ToSet(r.terms) \subseteq TermTree
    /\ r.refs = UNION {TermRefs(t) : t \in ToSet(r.terms)}
    /\ r.directOnly =>
          \E o \in ToSet(r.partials) :
              o.form = "direct" /\ (o.terms # <<>> => \E t \in ToSet(r.terms) : t.node = "restriction")
DeclarationOK(d) == d.name \in Sites /\ \A r \in ToSet(d.relations) : RelationOK(r)

(* ExtractRelation keeps every name and term of a relation, and marks it       *)
(* assignable only if it starts with a list of types.                          *)
LEMMA ExtractedRelations ==
    ASSUME NEW rel \in RelationTree
    PROVE  RelationOK(ExtractRelation(rel))
<1> DEFINE parts == [i \in DOMAIN rel.operands |-> rel.operands[i].terms]
           terms == FlattenSeq(parts)
           r == ExtractRelation(rel)
<1>1. /\ rel.name \in Sites /\ rel.operands \in Seq(OperandTree) /\ rel.operands # <<>>
      /\ DOMAIN rel.operands = 1..Len(rel.operands) /\ Len(rel.operands) \in Nat
  BY DEF RelationTree
<1>2. \A i \in DOMAIN rel.operands :
          /\ rel.operands[i].terms \in Seq(TermTree)
          /\ rel.operands[i].form = "direct" => \A t \in ToSet(rel.operands[i].terms) : t.node = "restriction"
  BY <1>1 DEF OperandTree
<1>3. parts \in Seq(Seq(TermTree)) /\ DOMAIN parts = DOMAIN rel.operands
  BY <1>1, <1>2
<1>4. terms \in Seq(TermTree) /\ ToSet(terms) = UNION {ToSet(parts[i]) : i \in DOMAIN parts}
  <2> HIDE DEF parts
  <2> QED BY <1>3, FlattenMembers
<1>5. /\ r.name = rel.name /\ r.terms = terms /\ r.directOnly = DirectOnly(rel) /\ r.partials = rel.operands
      /\ r.refs = UNION {TermRefs(t) : t \in ToSet(terms)}
  <2>1. r = [name |-> rel.name, directOnly |-> DirectOnly(rel), partials |-> rel.operands,
             terms |-> terms, refs |-> UNION {TermRefs(t) : t \in ToSet(terms)}]
    BY DEF ExtractRelation, Each
  <2> HIDE DEF r, terms
  <2> QED BY <2>1
<1>6. ToSet(terms) \subseteq TermTree
  <2> HIDE DEF terms
  <2> QED BY <1>4 DEF ToSet
<1>7. ASSUME DirectOnly(rel)
      PROVE  \E o \in ToSet(rel.operands) :
                 o.form = "direct" /\ (o.terms # <<>> => \E t \in ToSet(terms) : t.node = "restriction")
  <2> DEFINE o == rel.operands[1]
  <2>1. 1 \in DOMAIN rel.operands /\ o \in ToSet(rel.operands) /\ o.form = "direct"
    BY <1>1, <1>7 DEF DirectOnly, ToSet
  <2>2. o.terms \in Seq(TermTree) /\ ToSet(o.terms) \subseteq ToSet(terms)
    <3>1. parts[1] = o.terms /\ 1 \in DOMAIN parts
      BY <1>3, <2>1
    <3> HIDE DEF terms, parts, o
    <3> QED BY <1>2, <1>4, <2>1, <3>1 DEF o
  <2>3. ASSUME o.terms # <<>> PROVE \E t \in ToSet(terms) : t.node = "restriction"
    <3>1. o.terms[1] \in ToSet(o.terms)
      BY <2>2, <2>3 DEF ToSet
    <3>2. o.terms[1].node = "restriction"
      BY <1>2, <2>1, <3>1
    <3> HIDE DEF terms, o
    <3> QED BY <2>2, <3>1, <3>2
  <2> HIDE DEF terms
  <2> QED BY <2>1, <2>3
<1> HIDE DEF r, terms, parts
<1> QED BY <1>1, <1>5, <1>6, <1>7 DEF RelationOK, r

(* What extraction keeps of the declarations of a model.                       *)
LEMMA Extracted ==
    ASSUME NEW u \in Models
    PROVE  /\ Extract[u].types \in Seq(ToSet(Extract[u].types))
           /\ \A d \in ToSet(Extract[u].types) : DeclarationOK(d)
           /\ ToSet(Extract[u].conds) \subseteq Sites
<1> DEFINE types == Tree[u].types
<1>1. types \in Seq(TypeTree) /\ Tree[u].conds \in Seq(Sites)
  BY TreesAssumption DEF ModelTree
<1>2. Extract[u].types = [i \in DOMAIN types |-> ExtractType(types[i])] /\ Extract[u].conds = Tree[u].conds
  BY DEF Extract, ExtractTree, Each
<1>3. DOMAIN types = 1..Len(types) /\ Len(types) \in Nat /\ \A i \in DOMAIN types : types[i] \in TypeTree
  BY <1>1
<1>4. Extract[u].types \in Seq(ToSet(Extract[u].types))
  <2> DEFINE e == Extract[u].types
  <2>1. DOMAIN e = 1..Len(types) /\ e = [i \in 1..Len(types) |-> e[i]]
    BY <1>2, <1>3
  <2> HIDE DEF e, types
  <2> QED BY <1>3, <2>1 DEF ToSet, e
<1>5. ASSUME NEW d \in ToSet(Extract[u].types) PROVE DeclarationOK(d)
  <2>1. PICK tree \in TypeTree : d = ExtractType(tree)
    BY <1>2, <1>3 DEF ToSet
  <2>2. tree.name \in Sites /\ tree.relations \in Seq(RelationTree)
    BY DEF TypeTree
  <2>3. d.name = tree.name /\ d.relations = [i \in DOMAIN tree.relations |-> ExtractRelation(tree.relations[i])]
    BY <2>1 DEF ExtractType, Each
  <2>4. ASSUME NEW r \in ToSet(d.relations) PROVE RelationOK(r)
    <3>1. PICK i \in DOMAIN tree.relations : r = ExtractRelation(tree.relations[i])
      BY <2>3 DEF ToSet
    <3>2. tree.relations[i] \in RelationTree
      BY <2>2
    <3> QED BY <3>1, <3>2, ExtractedRelations
  <2> QED BY <2>2, <2>3, <2>4 DEF DeclarationOK
<1>6. ToSet(Extract[u].conds) \subseteq Sites
  BY <1>1, <1>2 DEF ToSet
<1> QED BY <1>4, <1>5, <1>6

(* The types of a scope are those of its models.                               *)
LEMMA TypesOfScope ==
    ASSUME NEW u \in Docs(View)
    PROVE  ToSet(TypesIn[u]) = UNION {ToSet(Extract[w].types) : w \in ToSet(Scope[u])}
<1> DEFINE T == UNION {ToSet(Extract[w].types) : w \in Models}
           s == [i \in DOMAIN Scope[u] |-> Extract[Scope[u][i]].types]
<1>1. DOMAIN Scope[u] = 1..Len(Scope[u]) /\ Len(Scope[u]) \in Nat /\ \A i \in DOMAIN Scope[u] : Scope[u][i] \in Models
  BY Scopes
<1>2. ASSUME NEW w \in Models PROVE Extract[w].types \in Seq(T)
  <2>1. ToSet(Extract[w].types) \subseteq T
    OBVIOUS
  <2>2. Extract[w].types \in Seq(ToSet(Extract[w].types))
    BY Extracted
  <2> HIDE DEF T
  <2> QED BY <2>1, <2>2
<1>3. s \in Seq(Seq(T)) /\ DOMAIN s = DOMAIN Scope[u]
  <2> HIDE DEF T
  <2> QED BY <1>1, <1>2
<1>4. TypesIn[u] = FlattenSeq(s)
  BY DEF TypesIn, Each
<1>5. ToSet(FlattenSeq(s)) = UNION {ToSet(s[i]) : i \in DOMAIN s}
  <2> HIDE DEF s, T
  <2> QED BY <1>3, FlattenMembers
<1>6. UNION {ToSet(s[i]) : i \in DOMAIN s} = UNION {ToSet(Extract[w].types) : w \in ToSet(Scope[u])}
  <2>1. ToSet(Scope[u]) = {Scope[u][i] : i \in DOMAIN Scope[u]}
    BY DEF ToSet
  <2>2. \A i \in DOMAIN s : s[i] = Extract[Scope[u][i]].types
    OBVIOUS
  <2>3. DOMAIN s = DOMAIN Scope[u]
    BY <1>3
  <2> HIDE DEF s, T
  <2>4. {ToSet(s[i]) : i \in DOMAIN s} = {ToSet(Extract[w].types) : w \in ToSet(Scope[u])}
    BY <2>1, <2>2, <2>3
  <2> QED BY <2>4
<1> QED BY <1>4, <1>5, <1>6

-------------------------------------------------------------------------------
(* A scope knows a name exactly if it has a declaration of it.                 *)
LEMMA Known ==
    ASSUME NEW x, NEW u
    PROVE  /\ \A n : HasType(x, u, n) <=> TypeDecls(x, u, n) # {}
           /\ \A n, o : HasRelation(x, u, o, n) <=> RelationDecls(x, u, o, n) # {}
<1>1. ASSUME NEW n PROVE HasType(x, u, n) <=> TypeDecls(x, u, n) # {}
  BY DEF HasType, TypeDecls, ToSet
<1>2. ASSUME NEW n, NEW o PROVE HasRelation(x, u, o, n) <=> RelationDecls(x, u, o, n) # {}
  BY DEF HasRelation, RelationDecls
<1> QED BY <1>1, <1>2

(* Go to definition finds a declaration exactly if the scope knows the name.   *)
LEMMA Found ==
    ASSUME NEW x, NEW u, NEW t
    PROVE  /\ t.kind = "type" => (Declarations(x, u, t) = {} <=> ~HasType(x, u, t.name))
           /\ t.kind = "relation" =>
                (Declarations(x, u, t) = {} <=> \A o \in t.owners : ~HasRelation(x, u, o, t.name))
           /\ t.kind = "condition" => (Declarations(x, u, t) = {} <=> ConditionDecls(x, u, t.name) = {})
<1>1. ASSUME t.kind = "type" PROVE Declarations(x, u, t) = {} <=> ~HasType(x, u, t.name)
  <2>1. Declarations(x, u, t) = {d.name : d \in TypeDecls(x, u, t.name)}
    BY <1>1 DEF Declarations
  <2> QED BY <2>1, Known
<1>2. ASSUME t.kind = "relation"
      PROVE  Declarations(x, u, t) = {} <=> \A o \in t.owners : ~HasRelation(x, u, o, t.name)
  <2> DEFINE of(o) == {r.name : r \in RelationDecls(x, u, o, t.name)}
  <2>1. Declarations(x, u, t) = UNION {of(o) : o \in t.owners}
    BY <1>2 DEF Declarations
  <2>2. \A o \in t.owners : of(o) = {} <=> ~HasRelation(x, u, o, t.name)
    BY Known
  <2> HIDE DEF of
  <2>3. UNION {of(o) : o \in t.owners} = {} <=> \A o \in t.owners : of(o) = {}
    OBVIOUS
  <2> QED BY <2>1, <2>2, <2>3
<1>3. ASSUME t.kind = "condition" PROVE Declarations(x, u, t) = {} <=> ConditionDecls(x, u, t.name) = {}
  BY <1>3 DEF Declarations
<1> QED BY <1>1, <1>2, <1>3

(* Diagnostics look names up in a document as navigation does.                 *)
Alike(u) == TypesChecked[u] = TypesIn[u] /\ CondsChecked[u] = ConditionsIn[u]

(* They do so if they have the same models in the same order.                  *)
LEMMA SameScopesAlike ==
    ASSUME NEW u \in Models \cup Stores, u \notin Inlined,
           (IF u \in Models THEN ModelScope(View, u) ELSE StoreScope(View, Disk, u)) = Scope[u]
    PROVE  Alike(u)
<1> DEFINE n == DOMAIN Scope[u]
           checked == [i \in n |-> Extract[Scope[u][i]]]
<1>1. u \in Docs(View) /\ \A i \in n : Scope[u][i] \in Models
  BY Scopes
<1>2. Checked[u] = [i \in n |-> IF Scope[u][i] \in Models THEN Extract[Scope[u][i]] ELSE NoModel]
  BY DEF Checked, Each
<1>3. Checked[u] = checked
  BY <1>1, <1>2
<1>4. TypesChecked[u] = FlattenSeq([i \in DOMAIN Checked[u] |-> Checked[u][i].types])
  BY DEF TypesChecked, Each
<1>5. [i \in DOMAIN checked |-> checked[i].types] = [i \in n |-> Extract[Scope[u][i]].types]
  OBVIOUS
<1>6. TypesIn[u] = FlattenSeq([i \in n |-> Extract[Scope[u][i]].types])
  BY <1>1 DEF TypesIn, Each
<1>7. CondsChecked[u] = ConditionsIn[u]
  <2>1. CondsChecked[u] = UNION {ToSet(m.conds) : m \in ToSet(checked)}
    BY <1>3 DEF CondsChecked
  <2>2. ConditionsIn[u] = UNION {ToSet(Extract[w].conds) : w \in ToSet(Scope[u])}
    BY <1>1 DEF ConditionsIn
  <2>3. \A m : m \in ToSet(checked) <=> \E w \in ToSet(Scope[u]) : m = Extract[w]
    BY DEF ToSet
  <2> HIDE DEF checked
  <2> QED BY <2>1, <2>2, <2>3
<1> QED BY <1>3, <1>4, <1>5, <1>6, <1>7 DEF Alike

(* The modules of an fga.mod are its loaded members, as its members are models. *)
LEMMA MembersAreModels ==
    ASSUME NEW mod \in DocsOfKind(View, "mod")
    PROVE  LoadedModels(View, Listed(View, mod)) = Loaded(View, Listed(View, mod))
<1> DEFINE loaded == Loaded(View, Listed(View, mod))
<1>1. loaded \in Seq(URIs) /\ ToSet(loaded) \subseteq ModelURIs
  BY ViewFits, LoadedMembers, LoadedAreModels DEF ViewOK
<1>2. loaded \in Seq(ModelURIs)
  <2> HIDE DEF loaded
  <2> QED BY <1>1 DEF ToSet
<1>3. LoadedModels(View, Listed(View, mod)) = Filter(loaded, ModelURIs)
  BY DEF LoadedModels, ModelURIs
<1> QED BY <1>2, <1>3, FilterAll

(* Diagnostics resolve the names of a model in the scope of navigation.        *)
LEMMA ModelsAlike ==
    ASSUME NEW u \in Models
    PROVE  Alike(u)
<1> DEFINE mod == ModFor(View, PathOf[u])
<1>1. u \in Docs(View) /\ Kind(u) = "model" /\ u \notin Stores /\ u \notin Inlined
  BY DEF Models, Stores, DocsOfKind, Inlined
<1>2. Scope[u] = IF mod # NoURI THEN LoadedModels(View, Listed(View, mod)) ELSE ModelDocs(View)
  BY <1>1 DEF Scope, ScopeFor
<1>3. ASSUME mod # NoURI PROVE SetDocs(View, u) = LoadedModels(View, Listed(View, mod))
  <2>1. LoadedModels(View, Listed(View, mod)) = Loaded(View, Listed(View, mod))
    BY <1>3, ModForClaims, MembersAreModels
  <2>2. Scope[u] # <<>>
    BY <1>1, Scopes DEF ToSet
  <2>3. Loaded(View, Listed(View, mod)) # <<>>
    BY <1>2, <1>3, <2>1, <2>2
  <2> QED BY <1>3, <2>1, <2>3 DEF SetDocs, OrElse
<1>4. ModelScope(View, u) = Scope[u]
  BY <1>2, <1>3 DEF ModelScope
<1> QED BY <1>1, <1>4, SameScopesAlike

(* ... and those of a store test, if its model_file leads to models.           *)
LEMMA StoresAlike ==
    ASSUME NEW u \in Stores, Backed(u)
    PROVE  Alike(u)
<1> DEFINE path == Text(View, u).model
           w == View.owner[path]
<1>1. /\ u \in Docs(View) /\ Kind(u) = "store" /\ u \notin Models /\ u \notin Inlined
      /\ path \in Paths /\ path # NoPath /\ Disk[path] # NoFile
  BY ViewAssumption DEF Models, Stores, DocsOfKind, Inlined, Backed
<1>2. Scope[u] = ScopeOfModelRef(View, path)
  BY <1>1 DEF Scope, ScopeFor, OrElse, Backed
<1>3. w # NoURI /\ Kind(w) \in {"mod", "model"}
  BY DEF Backed, ScopeOfModelRef
<1>4. w \in Docs(View) /\ PathOf[w] = path /\ w \in URIs
  BY <1>1, <1>3, ViewAssumption DEF Docs
<1>5. KindOf[path] = Kind(w)
  BY <1>1, <1>4 DEF Kind
<1>6. CASE Kind(w) = "mod"
  <2>1. Scope[u] = LoadedModels(View, Listed(View, w))
    BY <1>2, <1>3, <1>6 DEF ScopeOfModelRef
  <2>2. LoadedModels(View, Listed(View, w)) = Loaded(View, Listed(View, w))
    BY <1>4, <1>6, MembersAreModels DEF DocsOfKind
  <2>3. StoreScope(View, Disk, u) = Loaded(View, Listed(View, w))
    BY <1>1, <1>3, <1>5, <1>6 DEF StoreScope
  <2> QED BY <1>1, <2>1, <2>2, <2>3, SameScopesAlike
<1>7. CASE Kind(w) = "model"
  <2>1. Scope[u] = <<w>>
    BY <1>2, <1>3, <1>7 DEF ScopeOfModelRef
  <2>2. StoreScope(View, Disk, u) = Loaded(View, <<path>>)
    BY <1>1, <1>3, <1>5, <1>7 DEF StoreScope
  <2>3. Loaded(View, <<path>>) = Filter(<<w>>, URIs)
    <3>1. [i \in DOMAIN <<path>> |-> View.owner[<<path>>[i]]] = <<w>>
      OBVIOUS
    <3> QED BY <3>1 DEF Loaded
  <2>4. Filter(<<w>>, URIs) = <<w>>
    <3>1. <<w>> \in Seq(URIs)
      BY <1>4
    <3> QED BY <3>1, FilterAll
  <2> QED BY <1>1, <2>1, <2>2, <2>3, <2>4, SameScopesAlike
<1> QED BY <1>3, <1>6, <1>7

(* The two implementations of the lookups find the same in the same models.    *)
LEMMA SameLookedUp ==
    ASSUME NEW x, NEW u \in Docs(View), Alike(u)
    PROVE  /\ \A n : KnowsType(x, u, n) <=> HasType(x, u, n)
           /\ \A n : KnownTypes(x, u, n) = TypeDecls(x, u, n)
           /\ \A n, o : KnowsRelation(x, u, o, n) <=> HasRelation(x, u, o, n)
           /\ \A n, o : KnownRelations(x, u, o, n) = RelationDecls(x, u, o, n)
           /\ \A n, o : KnownTargets(x, u, o, n) = TuplesetTargets(x, u, o, n)
           /\ \A n : KnownConditions(x, u, n) = ConditionDecls(x, u, n)
<1> DEFINE T == ToSet(TypesIn[u])
<1>1. ToSet(TypesChecked[u]) = T /\ CondsChecked[u] = ConditionsIn[u]
  BY DEF Alike
<1>2. RelationsIn[u] = UNION {{[type |-> d.name, rel |-> r] : r \in ToSet(d.relations)} : d \in T}
  BY DEF RelationsIn
<1>3. \A n : KnownTypes(x, u, n) = TypeDecls(x, u, n)
  BY <1>1 DEF KnownTypes, TypeDecls
<1>4. \A n : KnowsType(x, u, n) <=> TypeDecls(x, u, n) # {}
  BY <1>1 DEF KnowsType, TypeDecls
<1>5. ASSUME NEW n, NEW o PROVE KnownRelations(x, u, o, n) = RelationDecls(x, u, o, n)
  <2>1. \A r : r \in KnownRelations(x, u, o, n)
                 <=> \E d \in T : x[d.name] = o /\ r \in ToSet(d.relations) /\ x[r.name] = n
    BY <1>1 DEF KnownRelations, KnownTypes
  <2>2. \A r : r \in RelationDecls(x, u, o, n)
                 <=> \E e \in RelationsIn[u] : x[e.type] = o /\ x[e.rel.name] = n /\ r = e.rel
    BY DEF RelationDecls
  <2>3. \A e : e \in RelationsIn[u] <=> \E d \in T : \E r \in ToSet(d.relations) : e = [type |-> d.name, rel |-> r]
    BY <1>2
  <2> HIDE DEF T
  <2>4. \A r : r \in RelationDecls(x, u, o, n)
                 <=> \E d \in T : x[d.name] = o /\ r \in ToSet(d.relations) /\ x[r.name] = n
    <3>1. ASSUME NEW r, NEW e \in RelationsIn[u], x[e.type] = o, x[e.rel.name] = n, r = e.rel
          PROVE  \E d \in T : x[d.name] = o /\ r \in ToSet(d.relations) /\ x[r.name] = n
      <4>1. PICK d \in T : \E q \in ToSet(d.relations) : e = [type |-> d.name, rel |-> q]
        BY <2>3
      <4> QED BY <3>1, <4>1
    <3>2. ASSUME NEW d \in T, NEW r \in ToSet(d.relations), x[d.name] = o, x[r.name] = n
          PROVE  r \in RelationDecls(x, u, o, n)
      <4> DEFINE e == [type |-> d.name, rel |-> r]
      <4>1. e \in RelationsIn[u] /\ e.type = d.name /\ e.rel = r
        BY <2>3
      <4> HIDE DEF e
      <4> QED BY <2>2, <3>2, <4>1
    <3> QED BY <2>2, <3>1, <3>2
  <2> QED BY <2>1, <2>4
<1>6. ASSUME NEW n, NEW o PROVE KnowsRelation(x, u, o, n) <=> RelationDecls(x, u, o, n) # {}
  <2>1. KnowsRelation(x, u, o, n) <=> KnownRelations(x, u, o, n) # {}
    BY <1>1 DEF KnowsRelation, KnownRelations, KnownTypes
  <2> QED BY <2>1, <1>5
<1>7. ASSUME NEW n, NEW o PROVE KnownTargets(x, u, o, n) = TuplesetTargets(x, u, o, n)
  BY <1>5 DEF KnownTargets, TuplesetTargets
<1>8. \A n : KnownConditions(x, u, n) = ConditionDecls(x, u, n)
  BY <1>1 DEF KnownConditions, ConditionDecls
<1> QED BY <1>3, <1>4, <1>5, <1>6, <1>7, <1>8, Known

(* ... which are the models of the scope for the names of a model.             *)
LEMMA LookedUpInModels ==
    ASSUME NEW x, NEW u \in Models
    PROVE  /\ \A n : KnowsType(x, u, n) <=> HasType(x, u, n)
           /\ \A n, o : KnowsRelation(x, u, o, n) <=> HasRelation(x, u, o, n)
           /\ \A n, o : KnownRelations(x, u, o, n) = RelationDecls(x, u, o, n)
           /\ \A n, o : KnownTargets(x, u, o, n) = TuplesetTargets(x, u, o, n)
           /\ \A n : KnownConditions(x, u, n) = ConditionDecls(x, u, n)
  BY Scopes, ModelsAlike, SameLookedUp

(* A relation right of `from` says of which types relations are meant, if it   *)
(* may stand there and names a type at all: the grammar lets a list of types   *)
(* be empty.                                                                   *)
NoEmptyLists ==
    \A u \in Models : \A d \in ToSet(Extract[u].types) : \A r \in ToSet(d.relations) : \A o \in ToSet(r.partials) :
        o.form = "direct" => o.terms # <<>>

(* The relations of a scope are those of the types of its models.              *)
LEMMA RelationsOfScope ==
    ASSUME NEW u \in Docs(View), NEW r
    PROVE  /\ r \in RelationsIn[u] <=>
                \E w \in ToSet(Scope[u]) : \E d \in ToSet(Extract[w].types) : \E rel \in ToSet(d.relations) :
                    r = [type |-> d.name, rel |-> rel]
<1>1. RelationsIn[u] = UNION {{[type |-> d.name, rel |-> q] : q \in ToSet(d.relations)} : d \in ToSet(TypesIn[u])}
  BY DEF RelationsIn
<1>2. r \in RelationsIn[u] <=> \E d \in ToSet(TypesIn[u]) : \E rel \in ToSet(d.relations) : r = [type |-> d.name, rel |-> rel]
  BY <1>1
<1>3. \A d : d \in ToSet(TypesIn[u]) <=> \E w \in ToSet(Scope[u]) : d \in ToSet(Extract[w].types)
  BY TypesOfScope
<1> QED BY <1>2, <1>3

(* In a language without empty lists an assignable relation names a type, so   *)
(* a tupleset that diagnostics accept has targets.                             *)
LEMMA TuplesetsNameTypes ==
    ASSUME NoEmptyLists, NEW x, NEW u \in Docs(View), NEW type, NEW name,
           NEW r \in RelationDecls(x, u, type, name), r.directOnly
    PROVE  TuplesetTargets(x, u, type, name) # {}
<1>1. PICK e \in RelationsIn[u] : e.rel = r
  BY DEF RelationDecls
<1>2. PICK w \in Models : \E d \in ToSet(Extract[w].types) : r \in ToSet(d.relations)
  <2>1. PICK w \in ToSet(Scope[u]) : \E d \in ToSet(Extract[w].types) : \E rel \in ToSet(d.relations) :
            e = [type |-> d.name, rel |-> rel]
    BY <1>1, RelationsOfScope
  <2> QED BY <1>1, <2>1, Scopes
<1>3. RelationOK(r)
  BY <1>2, Extracted DEF DeclarationOK
<1>4. PICK t \in ToSet(r.terms) : t.node = "restriction"
  BY <1>2, <1>3 DEF RelationOK, NoEmptyLists
<1>5. t.type \in Sites /\ t.type # NoSite
  BY <1>3, <1>4, TreesAssumption DEF RelationOK, TermTree
<1>6. \E ref \in TermRefs(t) : ref.kind = "type"
  <2>1. TermRefs(t) = Ref("type", t.type, NoSite, t) \cup Ref("relation on type", t.relation, t.type, t)
                          \cup Ref("condition", t.cond, NoSite, t)
    BY <1>4 DEF TermRefs
  <2>2. [kind |-> "type", at |-> t.type, by |-> NoSite, term |-> t] \in TermRefs(t)
    BY <1>5, <2>1 DEF Ref
  <2> QED BY <2>2
<1>7. \E ref \in r.refs : ref.kind = "type"
  BY <1>3, <1>4, <1>6 DEF RelationOK
<1> QED BY <1>7 DEF TuplesetTargets

-------------------------------------------------------------------------------
(* The names a term points at, by what kind of term it is.                     *)
Use(kind, at, by, t) == [kind |-> kind, at |-> at, by |-> by, term |-> t]

(* termRefs, by what kind of term it is given.                                 *)
LEMMA RefsOfTerms ==
    ASSUME NEW t \in TermTree
    PROVE  /\ t.node \in {"computed", "from", "restriction"}
           /\ t.node = "computed" =>
                t.relation \in Sites /\ TermRefs(t) = {Use("relation on self", t.relation, NoSite, t)}
           /\ t.node = "from" =>
                /\ t.relation \in Sites /\ t.tupleset \in Sites
                /\ TermRefs(t) = {Use("relation via tupleset", t.relation, t.tupleset, t),
                                  Use("tupleset", t.tupleset, NoSite, t)}
           /\ t.node = "restriction" =>
                /\ t.type \in Sites /\ t.relation \in OptionalSite /\ t.cond \in OptionalSite
                /\ TermRefs(t) = {Use("type", t.type, NoSite, t)}
                      \cup (IF t.relation = NoSite THEN {} ELSE {Use("relation on type", t.relation, t.type, t)})
                      \cup (IF t.cond = NoSite THEN {} ELSE {Use("condition", t.cond, NoSite, t)})
<1>1. t.node \in {"computed", "from", "restriction"}
  BY DEF TermTree
<1>2. ASSUME t.node = "computed"
      PROVE  t.relation \in Sites /\ TermRefs(t) = {Use("relation on self", t.relation, NoSite, t)}
  <2>1. t.relation \in Sites /\ t.relation # NoSite
    BY <1>2, TreesAssumption DEF TermTree
  <2>2. TermRefs(t) = Ref("relation on self", t.relation, NoSite, t)
    BY <1>2 DEF TermRefs
  <2> QED BY <2>1, <2>2 DEF Ref, Use
<1>3. ASSUME t.node = "from"
      PROVE  /\ t.relation \in Sites /\ t.tupleset \in Sites
             /\ TermRefs(t) = {Use("relation via tupleset", t.relation, t.tupleset, t),
                               Use("tupleset", t.tupleset, NoSite, t)}
  <2>1. t.relation \in Sites /\ t.tupleset \in Sites /\ NoSite \notin Sites
    BY <1>3, TreesAssumption DEF TermTree
  <2>2. TermRefs(t) = Ref("relation via tupleset", t.relation, t.tupleset, t) \cup Ref("tupleset", t.tupleset, NoSite, t)
    BY <1>3 DEF TermRefs
  <2> QED BY <2>1, <2>2 DEF Ref, Use
<1>4. ASSUME t.node = "restriction"
      PROVE  /\ t.type \in Sites /\ t.relation \in OptionalSite /\ t.cond \in OptionalSite
             /\ TermRefs(t) = {Use("type", t.type, NoSite, t)}
                   \cup (IF t.relation = NoSite THEN {} ELSE {Use("relation on type", t.relation, t.type, t)})
                   \cup (IF t.cond = NoSite THEN {} ELSE {Use("condition", t.cond, NoSite, t)})
  <2>1. t.type \in Sites /\ t.type # NoSite /\ t.relation \in OptionalSite /\ t.cond \in OptionalSite
    BY <1>4, TreesAssumption DEF TermTree
  <2>2. TermRefs(t) = Ref("type", t.type, NoSite, t) \cup Ref("relation on type", t.relation, t.type, t)
                          \cup Ref("condition", t.cond, NoSite, t)
    BY <1>4 DEF TermRefs
  <2> QED BY <2>1, <2>2 DEF Ref, Use
<1> QED BY <1>1, <1>2, <1>3, <1>4

(* Definitions and diagnostics agree on one term.                              *)
TermAgrees(x, u, type, t) ==
    LET problems == UNION {ResolveRef(x, u, type, ref) : ref \in TermRefs(t)}
        targets == UNION {TargetFromRef(x, u, type, ref) : ref \in TermRefs(t)}
    IN  (\A p \in problems : p.what # "not direct") =>
            ((\E target \in targets : Declarations(x, u, target) = {}) <=> problems # {})

(* definition, which looks declarations up, and resolveRef, which has its own  *)
(* cases, agree on every term.                                                 *)
LEMMA TermsAgree ==
    ASSUME NoEmptyLists, NEW x, NEW u \in Models, NEW type, NEW t \in TermTree
    PROVE  TermAgrees(x, u, type, t)
<1> DEFINE problems == UNION {ResolveRef(x, u, type, ref) : ref \in TermRefs(t)}
           missing(ref) == \E target \in TargetFromRef(x, u, type, ref) : Declarations(x, u, target) = {}
<1> SUFFICES ASSUME \A ref \in TermRefs(t) : \A p \in ResolveRef(x, u, type, ref) : p.what # "not direct"
             PROVE  (\E ref \in TermRefs(t) : missing(ref)) <=> (\E ref \in TermRefs(t) : ResolveRef(x, u, type, ref) # {})
  BY DEF TermAgrees
<1> DEFINE unknown(o, s) == ~HasRelation(x, u, o, x[s])
<1>0. /\ \A n : KnowsType(x, u, n) <=> HasType(x, u, n)
      /\ \A n, o : KnowsRelation(x, u, o, n) <=> HasRelation(x, u, o, n)
      /\ \A n, o : KnownRelations(x, u, o, n) = RelationDecls(x, u, o, n)
      /\ \A n, o : KnownTargets(x, u, o, n) = TuplesetTargets(x, u, o, n)
      /\ \A n : KnownConditions(x, u, n) = ConditionDecls(x, u, n)
  BY LookedUpInModels
<1>1. ASSUME NEW at, NEW by
      PROVE  /\ missing(Use("type", at, by, t)) <=> ~HasType(x, u, x[at])
             /\ missing(Use("relation on self", at, by, t)) <=> unknown(type, at)
             /\ missing(Use("relation on type", at, by, t)) <=> unknown(x[by], at)
             /\ missing(Use("relation via tupleset", at, by, t))
                    <=> \A o \in TuplesetTargets(x, u, type, x[by]) : unknown(o, at)
             /\ missing(Use("condition", at, by, t)) <=> ConditionDecls(x, u, x[at]) = {}
             /\ ~missing(Use("tupleset", at, by, t))
  <2>1. ASSUME NEW kind, NEW owners, NEW ref,
               TargetFromRef(x, u, type, ref) = {Target(kind, x[at], owners, at, FALSE)}
        PROVE  /\ kind = "type" => (missing(ref) <=> ~HasType(x, u, x[at]))
               /\ kind = "relation" => (missing(ref) <=> \A o \in owners : unknown(o, at))
               /\ kind = "condition" => (missing(ref) <=> ConditionDecls(x, u, x[at]) = {})
    <3> DEFINE target == Target(kind, x[at], owners, at, FALSE)
    <3>1. target.kind = kind /\ target.name = x[at] /\ target.owners = owners
      BY DEF Target
    <3>2. missing(ref) <=> Declarations(x, u, target) = {}
      BY <2>1
    <3> HIDE DEF target, missing
    <3> QED BY <3>1, <3>2, Found
  <2> HIDE DEF missing
  <2>2. missing(Use("type", at, by, t)) <=> ~HasType(x, u, x[at])
    <3>1. TargetFromRef(x, u, type, Use("type", at, by, t)) = {Target("type", x[at], {}, at, FALSE)}
      BY DEF TargetFromRef, Use
    <3> QED BY <2>1, <3>1
  <2>3. missing(Use("relation on self", at, by, t)) <=> unknown(type, at)
    <3>1. TargetFromRef(x, u, type, Use("relation on self", at, by, t)) = {Target("relation", x[at], {type}, at, FALSE)}
      BY DEF TargetFromRef, Use
    <3> QED BY <2>1, <3>1
  <2>4. missing(Use("relation on type", at, by, t)) <=> unknown(x[by], at)
    <3>1. TargetFromRef(x, u, type, Use("relation on type", at, by, t)) = {Target("relation", x[at], {x[by]}, at, FALSE)}
      BY DEF TargetFromRef, Use
    <3> QED BY <2>1, <3>1
  <2>5. missing(Use("relation via tupleset", at, by, t))
            <=> \A o \in TuplesetTargets(x, u, type, x[by]) : unknown(o, at)
    <3>1. TargetFromRef(x, u, type, Use("relation via tupleset", at, by, t)) = {Target("relation", x[at], TuplesetTargets(x, u, type, x[by]), at, FALSE)}
      BY DEF TargetFromRef, Use
    <3> QED BY <2>1, <3>1
  <2>6. missing(Use("condition", at, by, t)) <=> ConditionDecls(x, u, x[at]) = {}
    <3>1. TargetFromRef(x, u, type, Use("condition", at, by, t)) = {Target("condition", x[at], {}, at, FALSE)}
      BY DEF TargetFromRef, Use
    <3> QED BY <2>1, <3>1
  <2>7. ~missing(Use("tupleset", at, by, t))
    <3>1. TargetFromRef(x, u, type, Use("tupleset", at, by, t)) = {}
      BY DEF TargetFromRef, Use
    <3> QED BY <3>1 DEF missing
  <2> QED BY <2>2, <2>3, <2>4, <2>5, <2>6, <2>7
<1> HIDE DEF missing
<1>2. CASE t.node = "computed"
  <2>1. TermRefs(t) = {Use("relation on self", t.relation, NoSite, t)}
    BY <1>2, RefsOfTerms
  <2>2. ResolveRef(x, u, type, Use("relation on self", t.relation, NoSite, t)) = {} <=> ~unknown(type, t.relation)
    BY <1>0 DEF ResolveRef, Use
  <2>3. missing(Use("relation on self", t.relation, NoSite, t)) <=> unknown(type, t.relation)
    BY <1>1
  <2> QED BY <2>1, <2>2, <2>3
<1>3. CASE t.node = "restriction"
  <2> DEFINE a == Use("type", t.type, NoSite, t)
             b == Use("relation on type", t.relation, t.type, t)
             c == Use("condition", t.cond, NoSite, t)
  <2>1. TermRefs(t) = {a} \cup (IF t.relation = NoSite THEN {} ELSE {b}) \cup (IF t.cond = NoSite THEN {} ELSE {c})
    BY <1>3, RefsOfTerms
  <2>2. missing(a) <=> ResolveRef(x, u, type, a) # {}
    <3>1. missing(a) <=> ~HasType(x, u, x[t.type])
      BY <1>1
    <3>2. ResolveRef(x, u, type, a) = {} <=> HasType(x, u, x[t.type])
      BY <1>0 DEF ResolveRef, Use
    <3> QED BY <3>1, <3>2
  <2>3. missing(c) <=> ResolveRef(x, u, type, c) # {}
    <3>1. missing(c) <=> ConditionDecls(x, u, x[t.cond]) = {}
      BY <1>1
    <3>2. ResolveRef(x, u, type, c) = {} <=> ConditionDecls(x, u, x[t.cond]) # {}
      BY <1>0 DEF ResolveRef, Use
    <3> QED BY <3>1, <3>2
  <2>4. ~missing(a) => (missing(b) <=> ResolveRef(x, u, type, b) # {})
    <3>1. missing(b) <=> unknown(x[t.type], t.relation)
      BY <1>1
    <3>2. ResolveRef(x, u, type, b) = {} <=> (HasType(x, u, x[t.type]) => ~unknown(x[t.type], t.relation))
      BY <1>0 DEF ResolveRef, Use
    <3>3. missing(a) <=> ~HasType(x, u, x[t.type])
      BY <1>1
    <3> QED BY <3>1, <3>2, <3>3
  <2> HIDE DEF a, b, c
  <2> QED BY <2>1, <2>2, <2>3, <2>4
<1>4. CASE t.node = "from"
  <2> DEFINE a == Use("relation via tupleset", t.relation, t.tupleset, t)
             b == Use("tupleset", t.tupleset, NoSite, t)
             targets == TuplesetTargets(x, u, type, x[t.tupleset])
  <2>1. TermRefs(t) = {a, b}
    BY <1>4, RefsOfTerms
  <2>2. missing(a) <=> \A o \in targets : unknown(o, t.relation)
    BY <1>1
  <2>3. ~missing(b)
    BY <1>1
  <2>4. ResolveRef(x, u, type, a) = {} <=> targets = {} \/ \E o \in targets : ~unknown(o, t.relation)
    BY <1>0 DEF ResolveRef, Use
  <2>5. CASE unknown(type, t.tupleset)
    <3>1. RelationDecls(x, u, type, x[t.tupleset]) = {}
      BY <2>5, Known
    <3>2. targets = {}
      BY <3>1 DEF TuplesetTargets
    <3>3. ResolveRef(x, u, type, b) # {}
      BY <2>5, <1>0 DEF ResolveRef, Use
    <3> HIDE DEF a, b, targets
    <3> QED BY <2>1, <2>2, <3>2, <3>3
  <2>6. CASE ~unknown(type, t.tupleset)
    <3>1. ASSUME NEW p \in ResolveRef(x, u, type, b) PROVE p.what = "not direct"
      <4>1. p = [what |-> "not direct", at |-> t.tupleset, name |-> x[t.tupleset]]
        BY <2>6, <1>0 DEF ResolveRef, Use
      <4> QED BY <4>1
    <3>2. ResolveRef(x, u, type, b) = {}
      <4> HIDE DEF a, b
      <4> QED BY <2>1, <3>1
    <3>3. \A r \in RelationDecls(x, u, type, x[t.tupleset]) : r.directOnly
      BY <2>6, <3>2, <1>0 DEF ResolveRef, Use
    <3>4. PICK r \in RelationDecls(x, u, type, x[t.tupleset]) : TRUE
      BY <2>6, Known
    <3>5. targets # {}
      BY <3>3, <3>4, TuplesetsNameTypes, Scopes
    <3> HIDE DEF a, b, targets
    <3> QED BY <2>1, <2>2, <2>3, <2>4, <3>2, <3>5
  <2> QED BY <2>5, <2>6
<1> QED BY <1>2, <1>3, <1>4, RefsOfTerms

(* Where no list of types is empty, go to definition finds nothing for a name  *)
(* of a model exactly if diagnostics report its term: targetFromRef and        *)
(* resolveRef, which know the scope by two implementations, never disagree.    *)
THEOREM DefinitionsAlwaysAgree ==
    ASSUME NoEmptyLists
    PROVE  RenameSpec => []DefinitionsAgree
<1>1. ASSUME NEW u \in Models, NEW d \in ToSet(Extract[u].types), NEW r \in ToSet(d.relations), NEW t \in ToSet(r.terms)
      PROVE  TermAgrees(text, u, text[d.name], t)
  <2>1. t \in TermTree
    BY Extracted DEF DeclarationOK, RelationOK
  <2> QED BY <2>1, TermsAgree
<1>2. DefinitionsAgree
  BY <1>1 DEF DefinitionsAgree, TermAgrees
<1> QED BY <1>2, PTL

-------------------------------------------------------------------------------
(* What is wrong with a user of an entry.                                      *)
LEMMA UserProblems ==
    ASSUME NEW x, NEW u \in Docs(View), Alike(u), NEW user
    PROVE  UserErrors(x, u, user) # {}
             <=> \/ ~HasType(x, u, x[user.type])
                 \/ user.relation # NoSite /\ ~HasRelation(x, u, x[user.type], x[user.relation])
<1>1. ASSUME ~HasType(x, u, x[user.type]) PROVE UserErrors(x, u, user) # {}
  <2>1. user.type \in ToSet(<<user.type>>)
    BY DEF ToSet
  <2> QED BY <1>1, <2>1, SameLookedUp DEF UserErrors, UndeclaredTypes
<1>2. ASSUME HasType(x, u, x[user.type])
      PROVE  UserErrors(x, u, user) # {}
               <=> user.relation # NoSite /\ ~HasRelation(x, u, x[user.type], x[user.relation])
  BY <1>2, SameLookedUp DEF UserErrors
<1> QED BY <1>1, <1>2

(* What can be wrong with an entry of a store test.                            *)
EntryWrong(x, u, e) ==
    \/ \E s \in ToSet(e.objects) \cup ToSet(e.filters) \cup {user.type : user \in ToSet(e.users)} : ~HasType(x, u, x[s])
    \/ \E user \in {user \in ToSet(e.users) : user.relation # NoSite} :
          ~HasRelation(x, u, x[user.type], x[user.relation])
    \/ e.objects # <<>> /\ \E s \in ToSet(e.relations) : ~HasRelation(x, u, x[e.objects[1]], x[s])

(* The first object that has a type is the first one if all of them do.        *)
LEMMA EntryProblems ==
    ASSUME NEW x, NEW u \in Docs(View), Alike(u), NEW e \in EntryTree
    PROVE  EntryErrors(x, u, e) # {} <=> EntryWrong(x, u, e)
<1> DEFINE undeclared(s) == ~HasType(x, u, x[s])
           unknown(t, s) == ~HasRelation(x, u, x[t], x[s])
           types == ToSet(e.objects) \cup ToSet(e.filters) \cup {user.type : user \in ToSet(e.users)}
           sets == {user \in ToSet(e.users) : user.relation # NoSite}
           known == Filter(e.objects, {s \in ToSet(e.objects) : HasType(x, u, x[s])})
           notFound == {r \in ToSet(e.relations) : ~HasRelation(x, u, x[known[1]], x[r])}
           problems == IF known = <<>> THEN {} ELSE {[what |-> "relation", at |-> r, name |-> x[r]] : r \in notFound}
           ofUsers == UNION {UserErrors(x, u, user) : user \in ToSet(e.users)}
<1>1. EntryWrong(x, u, e) <=>
          \/ \E s \in types : undeclared(s)
          \/ \E user \in sets : unknown(user.type, user.relation)
          \/ e.objects # <<>> /\ \E s \in ToSet(e.relations) : unknown(e.objects[1], s)
  BY DEF EntryWrong
<1>2. e.objects \in Seq(Sites) /\ (e.objects # <<>> => e.objects[1] \in ToSet(e.objects))
  BY DEF EntryTree, ToSet
<1>3. EntryErrors(x, u, e) = UndeclaredTypes(x, u, e.objects) \cup UndeclaredTypes(x, u, e.filters)
                               \cup ofUsers \cup problems
  <2>1. Filter(e.objects, {s \in ToSet(e.objects) : KnowsType(x, u, x[s])}) = known
    BY SameLookedUp
  <2>2. {r \in ToSet(e.relations) : ~KnowsRelation(x, u, x[known[1]], x[r])} = notFound
    BY SameLookedUp
  <2> HIDE DEF known, ofUsers
  <2> QED BY <2>1, <2>2 DEF EntryErrors, ofUsers
<1>4. ASSUME NEW list PROVE UndeclaredTypes(x, u, list) # {} <=> \E s \in ToSet(list) : undeclared(s)
  BY SameLookedUp DEF UndeclaredTypes
<1>5. ofUsers # {} <=> \/ \E user \in ToSet(e.users) : undeclared(user.type)
                       \/ \E user \in sets : unknown(user.type, user.relation)
  <2>1. ofUsers # {} <=> \E user \in ToSet(e.users) : UserErrors(x, u, user) # {}
    OBVIOUS
  <2> HIDE DEF ofUsers
  <2> QED BY <2>1, UserProblems
<1>6. CASE \E s \in ToSet(e.objects) : undeclared(s)
  <2> HIDE DEF ofUsers, problems, undeclared, unknown, sets
  <2> QED BY <1>1, <1>3, <1>4, <1>6
<1>7. CASE \A s \in ToSet(e.objects) : ~undeclared(s)
  <2> DEFINE S == {s \in ToSet(e.objects) : HasType(x, u, x[s])}
  <2>1. CASE e.objects # <<>>
    <3>1. e.objects[1] \in S
      BY <1>2, <1>7, <2>1
    <3>2. known # <<>> /\ known[1] = e.objects[1]
      <4> HIDE DEF S
      <4>1. Filter(e.objects, S) # <<>> /\ Filter(e.objects, S)[1] = e.objects[1]
        BY <1>2, <2>1, <3>1, FilterMembers
      <4> QED BY <4>1 DEF S
    <3>3. problems # {} <=> \E s \in ToSet(e.relations) : unknown(e.objects[1], s)
      <4> HIDE DEF known
      <4> QED BY <3>2
    <3> HIDE DEF ofUsers, problems, undeclared, unknown, sets
    <3> QED BY <1>1, <1>3, <1>4, <1>5, <1>7, <2>1, <3>3
  <2>2. CASE e.objects = <<>>
    <3>1. known = <<>>
      <4> HIDE DEF S
      <4>1. ToSet(Filter(e.objects, S)) = ToSet(e.objects) \cap S /\ Filter(e.objects, S) \in Seq(Sites \cap S)
        BY <1>2, FilterMembers, Zenon
      <4>2. ToSet(e.objects) = {}
        BY <2>2 DEF ToSet
      <4>3. DOMAIN Filter(e.objects, S) = {}
        BY <4>1, <4>2 DEF ToSet
      <4>4. Filter(e.objects, S) = <<>>
        BY <4>1, <4>3
      <4> QED BY <4>4 DEF S
    <3>2. problems = {}
      BY <3>1
    <3> HIDE DEF ofUsers, problems, undeclared, unknown, sets
    <3> QED BY <1>1, <1>3, <1>4, <1>5, <1>7, <2>2, <3>2
  <2> QED BY <2>1, <2>2
<1> QED BY <1>6, <1>7

(* Definitions and diagnostics agree on one entry of a store test.             *)
EntryAgrees(x, u, e) ==
    e.objects # <<>> =>
        ((\E target \in EntrySymbols(x, e) : Declarations(x, u, target) = {}) <=> EntryErrors(x, u, e) # {})

(* definition and storeChecker agree on every entry of a store test.           *)
LEMMA EntriesAgree ==
    ASSUME NEW x, NEW u \in Docs(View), Alike(u), NEW e \in EntryTree
    PROVE  EntryAgrees(x, u, e)
<1> SUFFICES ASSUME e.objects # <<>>
             PROVE  (\E target \in EntrySymbols(x, e) : Declarations(x, u, target) = {}) <=> EntryErrors(x, u, e) # {}
  BY DEF EntryAgrees
<1> DEFINE undeclared(s) == ~HasType(x, u, x[s])
           unknown(t, s) == ~HasRelation(x, u, x[t], x[s])
           types == ToSet(e.objects) \cup ToSet(e.filters) \cup {user.type : user \in ToSet(e.users)}
           sets == {user \in ToSet(e.users) : user.relation # NoSite}
           wrong == \/ \E s \in types : undeclared(s)
                    \/ \E user \in sets : unknown(user.type, user.relation)
                    \/ \E s \in ToSet(e.relations) : unknown(e.objects[1], s)
<1>1. e.objects \in Seq(Sites) /\ e.objects[1] \in ToSet(e.objects)
  BY DEF EntryTree, ToSet
<1>2. (\E target \in EntrySymbols(x, e) : Declarations(x, u, target) = {}) <=> wrong
  <2> DEFINE use(kind, s, owners) == Target(kind, x[s], owners, s, FALSE)
             missing(target) == Declarations(x, u, target) = {}
  <2>1. EntrySymbols(x, e) =
          {use("type", s, {}) : s \in types}
            \cup {use("relation", user.relation, {x[user.type]}) : user \in sets}
            \cup {use("relation", s, {x[e.objects[1]]}) : s \in ToSet(e.relations)}
    BY DEF EntrySymbols
  <2>2. ASSUME NEW s PROVE missing(use("type", s, {})) <=> undeclared(s)
    <3>1. use("type", s, {}).kind = "type" /\ use("type", s, {}).name = x[s]
      BY DEF Target
    <3> HIDE DEF use
    <3> QED BY <3>1, Found
  <2>3. ASSUME NEW s, NEW t PROVE missing(use("relation", s, {x[t]})) <=> unknown(t, s)
    <3> DEFINE target == use("relation", s, {x[t]})
    <3>1. target.kind = "relation" /\ target.name = x[s] /\ target.owners = {x[t]}
      BY DEF Target
    <3>2. missing(target) <=> \A o \in target.owners : ~HasRelation(x, u, o, target.name)
      <4> HIDE DEF target
      <4> QED BY <3>1, Found
    <3> HIDE DEF target, missing
    <3> QED BY <3>1, <3>2 DEF target
  <2> HIDE DEF missing, use, undeclared, unknown, types, sets
  <2>4. (\E target \in {use("type", s, {}) : s \in types} : missing(target)) <=> \E s \in types : undeclared(s)
    BY <2>2
  <2>5. (\E target \in {use("relation", user.relation, {x[user.type]}) : user \in sets} : missing(target))
            <=> \E user \in sets : unknown(user.type, user.relation)
    <3>1. \A user \in sets :
              missing(use("relation", user.relation, {x[user.type]})) <=> unknown(user.type, user.relation)
      BY <2>3
    <3> QED BY <3>1
  <2>6. (\E target \in {use("relation", s, {x[e.objects[1]]}) : s \in ToSet(e.relations)} : missing(target))
            <=> \E s \in ToSet(e.relations) : unknown(e.objects[1], s)
    BY <2>3
  <2>7. (\E target \in EntrySymbols(x, e) : missing(target)) <=> wrong
    BY <2>1, <2>4, <2>5, <2>6 DEF wrong
  <2> QED BY <2>7 DEF missing
<1>3. EntryErrors(x, u, e) # {} <=> wrong
  <2>1. EntryWrong(x, u, e) <=> wrong
    BY DEF EntryWrong
  <2> QED BY <2>1, EntryProblems
<1> HIDE DEF wrong
<1> QED BY <1>2, <1>3

(* Go to definition and diagnostics agree on the store tests whose model_file  *)
(* leads to a model, of which scopeOfModelRef and storeScope, each by code of  *)
(* its own, find the same documents: for every entry that names an object, the *)
(* symbols of the entry have declarations exactly if storeChecker, which takes *)
(* the first object of a known type, finds no fault.                           *)
THEOREM StoreNamesAlwaysAgree == RenameSpec => []StoreNamesAgree
<1>1. ASSUME NEW u \in {u \in Stores : Backed(u)}, NEW e \in ToSet(Tests[u]) PROVE EntryAgrees(text, u, e)
  <2>1. e \in EntryTree
    BY TreesAssumption DEF ToSet
  <2>2. u \in Docs(View) /\ Alike(u)
    BY Scopes, StoresAlike
  <2> QED BY <2>1, <2>2, EntriesAgree
<1>2. StoreNamesAgree
  BY <1>1 DEF StoreNamesAgree, EntryAgrees
<1> QED BY <1>2, PTL

-------------------------------------------------------------------------------
(* The uses in a relation: whatever else a name depends on is named beside it. *)
UseKinds == {"type", "relation on self", "relation on type", "relation via tupleset", "tupleset", "condition"}

(* What a use in a relation may be; the type or the tupleset that it depends   *)
(* on is a use of the same relation.                                           *)
LEMMA UsesOfRelations ==
    ASSUME NEW r, RelationOK(r), NEW ref \in r.refs
    PROVE  /\ ref.kind \in UseKinds /\ ref.at \in Sites
           /\ ref.kind = "relation on type" => \E other \in r.refs : other.kind = "type" /\ other.at = ref.by
           /\ ref.kind = "relation via tupleset" => \E other \in r.refs : other.kind = "tupleset" /\ other.at = ref.by
<1>1. PICK t \in TermTree : t \in ToSet(r.terms) /\ ref \in TermRefs(t)
  BY DEF RelationOK
<1>2. TermRefs(t) \subseteq r.refs
  BY <1>1 DEF RelationOK
<1>3. CASE t.node = "computed"
  <2>1. ref = Use("relation on self", t.relation, NoSite, t) /\ t.relation \in Sites
    BY <1>1, <1>3, RefsOfTerms
  <2> QED BY <2>1 DEF Use, UseKinds
<1>4. CASE t.node = "from"
  <2> DEFINE a == Use("relation via tupleset", t.relation, t.tupleset, t)
             b == Use("tupleset", t.tupleset, NoSite, t)
  <2>1. TermRefs(t) = {a, b} /\ t.relation \in Sites /\ t.tupleset \in Sites
    BY <1>1, <1>4, RefsOfTerms
  <2>2. b \in r.refs /\ b.kind = "tupleset" /\ b.at = t.tupleset
    BY <1>2, <2>1 DEF Use
  <2>3. CASE ref = a
    BY <2>1, <2>2, <2>3 DEF Use, UseKinds
  <2>4. CASE ref = b
    BY <2>1, <2>4 DEF Use, UseKinds
  <2> HIDE DEF a, b
  <2> QED BY <1>1, <2>1, <2>3, <2>4
<1>5. CASE t.node = "restriction"
  <2> DEFINE a == Use("type", t.type, NoSite, t)
             b == Use("relation on type", t.relation, t.type, t)
             c == Use("condition", t.cond, NoSite, t)
  <2>1. /\ t.type \in Sites /\ t.relation \in OptionalSite /\ t.cond \in OptionalSite
        /\ TermRefs(t) = {a} \cup (IF t.relation = NoSite THEN {} ELSE {b}) \cup (IF t.cond = NoSite THEN {} ELSE {c})
    BY <1>1, <1>5, RefsOfTerms
  <2>2. a \in r.refs /\ a.kind = "type" /\ a.at = t.type
    BY <1>2, <2>1 DEF Use
  <2>3. CASE ref = a
    BY <2>1, <2>3 DEF Use, UseKinds
  <2>4. CASE ref = b /\ t.relation # NoSite
    BY <2>1, <2>2, <2>4 DEF Use, UseKinds, OptionalSite
  <2>5. CASE ref = c /\ t.cond # NoSite
    BY <2>1, <2>5 DEF Use, UseKinds, OptionalSite
  <2> HIDE DEF a, b, c
  <2> QED BY <1>1, <2>1, <2>3, <2>4, <2>5
<1> QED BY <1>1, <1>3, <1>4, <1>5, RefsOfTerms

(* The symbol at a leaf.                                                       *)
KindAt(role) ==
    IF role \in {"type name", "type", "entry type"} THEN "type"
    ELSE IF role \in {"condition name", "condition"} THEN "condition" ELSE "relation"
Declares(role) == IF role \in {"type name", "condition name", "relation"} THEN TRUE ELSE FALSE

OwnersAt(x, u, l) ==
    CASE l.role \in {"relation", "relation on self"} -> {x[l.type]}
      [] l.role = "relation on type"                 -> {x[l.by]}
      [] l.role = "relation via tupleset"            -> TuplesetTargets(x, u, x[l.type], x[l.by])
      [] l.role = "entry relation"                   -> IF l.by = NoSite THEN {} ELSE {x[l.by]}
      [] OTHER                                       -> {}

SymbolAt(x, u, l) == Target(KindAt(l.role), x[l.at], OwnersAt(x, u, l), l.at, Declares(l.role))

(* targetFromRef makes of a use the symbol at its leaf, of a tupleset none.    *)
LEMMA TargetsAtLeaves ==
    ASSUME NEW x, NEW u, NEW d, NEW ref, ref.kind \in UseKinds
    PROVE  LET l == Leaf(ref.kind, ref.at, d.name, ref.by)
           IN  TargetFromRef(x, u, x[d.name], ref) = IF ref.kind = "tupleset" THEN {} ELSE {SymbolAt(x, u, l)}
<1> DEFINE l == Leaf(ref.kind, ref.at, d.name, ref.by)
<1>1. l.role = ref.kind /\ l.at = ref.at /\ l.type = d.name /\ l.by = ref.by
  BY DEF Leaf
<1> HIDE DEF l
<1>2. TargetFromRef(x, u, x[d.name], ref) = IF ref.kind = "tupleset" THEN {} ELSE {SymbolAt(x, u, l)}
  <2>1. CASE ref.kind = "type"
    BY <1>1, <2>1 DEF TargetFromRef, SymbolAt, KindAt, OwnersAt, Declares
  <2>2. CASE ref.kind = "relation on self"
    BY <1>1, <2>2 DEF TargetFromRef, SymbolAt, KindAt, OwnersAt, Declares
  <2>3. CASE ref.kind = "relation on type"
    BY <1>1, <2>3 DEF TargetFromRef, SymbolAt, KindAt, OwnersAt, Declares
  <2>4. CASE ref.kind = "relation via tupleset"
    BY <1>1, <2>4 DEF TargetFromRef, SymbolAt, KindAt, OwnersAt, Declares
  <2>5. CASE ref.kind = "condition"
    BY <1>1, <2>5 DEF TargetFromRef, SymbolAt, KindAt, OwnersAt, Declares
  <2>6. CASE ref.kind = "tupleset"
    BY <2>6 DEF TargetFromRef
  <2> QED BY <2>1, <2>2, <2>3, <2>4, <2>5, <2>6 DEF UseKinds
<1> QED BY <1>2 DEF l

(* s is the symbol at a leaf where a request can be made.                      *)
Stands(s, x, u, l) == l.role # "tupleset" /\ s = SymbolAt(x, u, l)

(* The symbols of a relation are those at its leaves.                          *)
LEMMA RelationSymbolsAtLeaves ==
    ASSUME NEW x, NEW u, NEW d, NEW r, RelationOK(r), NEW s
    PROVE  s \in RelationSymbols(x, u, x[d.name], r)
             <=> \E l \in RelationLeaves(d, r) : Stands(s, x, u, l)
<1> DEFINE own == Leaf("relation", r.name, d.name, NoSite)
           leaf(ref) == Leaf(ref.kind, ref.at, d.name, ref.by)
           is(l) == Stands(s, x, u, l)
<1>1. is(own) <=> s = Target("relation", x[r.name], {x[d.name]}, r.name, TRUE)
  <2>1. own.role = "relation" /\ own.at = r.name /\ own.type = d.name
    BY DEF Leaf
  <2> HIDE DEF own
  <2>2. SymbolAt(x, u, own) = Target("relation", x[r.name], {x[d.name]}, r.name, TRUE)
    BY <2>1 DEF SymbolAt, KindAt, OwnersAt, Declares
  <2> QED BY <2>1, <2>2 DEF Stands
<1>2. ASSUME NEW ref \in r.refs PROVE is(leaf(ref)) <=> s \in TargetFromRef(x, u, x[d.name], ref)
  <2>1. ref.kind \in UseKinds
    BY UsesOfRelations
  <2>2. TargetFromRef(x, u, x[d.name], ref) = IF ref.kind = "tupleset" THEN {} ELSE {SymbolAt(x, u, leaf(ref))}
    BY <2>1, TargetsAtLeaves
  <2>3. leaf(ref).role = ref.kind
    BY DEF Leaf
  <2> HIDE DEF leaf
  <2> QED BY <2>2, <2>3 DEF Stands
<1>3. RelationLeaves(d, r) = {own} \cup {leaf(ref) : ref \in r.refs}
  BY DEF RelationLeaves
<1>4. s \in RelationSymbols(x, u, x[d.name], r)
        <=> \/ s = Target("relation", x[r.name], {x[d.name]}, r.name, TRUE)
            \/ \E ref \in r.refs : s \in TargetFromRef(x, u, x[d.name], ref)
  BY DEF RelationSymbols
<1>5. (\E l \in RelationLeaves(d, r) : is(l)) <=> s \in RelationSymbols(x, u, x[d.name], r)
  <2> HIDE DEF own, leaf, is
  <2> QED BY <1>1, <1>2, <1>3, <1>4
<1> QED BY <1>5

(* The symbols of a model are those at its leaves.                             *)
LEMMA ModelSymbolsAtLeaves ==
    ASSUME NEW x, NEW u \in Models, NEW s
    PROVE  s \in ModelSymbols(x, u) <=> \E l \in Leaves(u) : Stands(s, x, u, l)
<1> DEFINE is(l) == Stands(s, x, u, l)
           conds == ToSet(Extract[u].conds)
           types == ToSet(Extract[u].types)
<1>1. ASSUME NEW c
      PROVE  is(Leaf("condition name", c, NoSite, NoSite)) <=> s = Target("condition", x[c], {}, c, TRUE)
  <2> DEFINE l == Leaf("condition name", c, NoSite, NoSite)
  <2>1. l.role = "condition name" /\ l.at = c
    BY DEF Leaf
  <2> HIDE DEF l
  <2>2. SymbolAt(x, u, l) = Target("condition", x[c], {}, c, TRUE)
    BY <2>1 DEF SymbolAt, KindAt, OwnersAt, Declares
  <2>3. is(l) <=> s = Target("condition", x[c], {}, c, TRUE)
    BY <2>1, <2>2 DEF Stands
  <2> QED BY <2>3 DEF l
<1>2. ASSUME NEW n
      PROVE  is(Leaf("type name", n, NoSite, NoSite)) <=> s = Target("type", x[n], {}, n, TRUE)
  <2> DEFINE l == Leaf("type name", n, NoSite, NoSite)
  <2>1. l.role = "type name" /\ l.at = n
    BY DEF Leaf
  <2> HIDE DEF l
  <2>2. SymbolAt(x, u, l) = Target("type", x[n], {}, n, TRUE)
    BY <2>1 DEF SymbolAt, KindAt, OwnersAt, Declares
  <2>3. is(l) <=> s = Target("type", x[n], {}, n, TRUE)
    BY <2>1, <2>2 DEF Stands
  <2> QED BY <2>3 DEF l
<1>3. ASSUME NEW d \in types, NEW r \in ToSet(d.relations)
      PROVE  (\E l \in RelationLeaves(d, r) : is(l)) <=> s \in RelationSymbols(x, u, x[d.name], r)
  <2>1. RelationOK(r)
    BY Extracted DEF DeclarationOK
  <2> QED BY <2>1, RelationSymbolsAtLeaves
<1>4. s \in ModelSymbols(x, u)
        <=> \/ \E c \in conds : s = Target("condition", x[c], {}, c, TRUE)
            \/ \E d \in types : \/ s = Target("type", x[d.name], {}, d.name, TRUE)
                                \/ \E r \in ToSet(d.relations) : s \in RelationSymbols(x, u, x[d.name], r)
  <2> DEFINE of(d) == {Target("type", x[d.name], {}, d.name, TRUE)} \cup
                      UNION {RelationSymbols(x, u, x[d.name], r) : r \in ToSet(d.relations)}
  <2>1. ModelSymbols(x, u) = {Target("condition", x[c], {}, c, TRUE) : c \in conds} \cup UNION {of(d) : d \in types}
    BY DEF ModelSymbols
  <2>2. \A d : s \in of(d) <=> \/ s = Target("type", x[d.name], {}, d.name, TRUE)
                              \/ \E r \in ToSet(d.relations) : s \in RelationSymbols(x, u, x[d.name], r)
    OBVIOUS
  <2> HIDE DEF of, conds, types
  <2> QED BY <2>1, <2>2
<1>5. Leaves(u) = {Leaf("condition name", c, NoSite, NoSite) : c \in conds} \cup UNION {TypeLeaves(d) : d \in types}
  BY DEF Leaves, Models, DocsOfKind
<1>6. \A d \in types : TypeLeaves(d) =
          {Leaf("type name", d.name, NoSite, NoSite)} \cup UNION {RelationLeaves(d, r) : r \in ToSet(d.relations)}
  BY DEF TypeLeaves
<1> HIDE DEF is, conds, types
<1>7. \A d \in types : (\E l \in TypeLeaves(d) : is(l))
        <=> \/ s = Target("type", x[d.name], {}, d.name, TRUE)
            \/ \E r \in ToSet(d.relations) : s \in RelationSymbols(x, u, x[d.name], r)
  <2> SUFFICES ASSUME NEW d \in types
               PROVE  (\E l \in TypeLeaves(d) : is(l))
                        <=> \/ s = Target("type", x[d.name], {}, d.name, TRUE)
                            \/ \E r \in ToSet(d.relations) : s \in RelationSymbols(x, u, x[d.name], r)
    OBVIOUS
  <2>1. (\E l \in TypeLeaves(d) : is(l))
          <=> is(Leaf("type name", d.name, NoSite, NoSite)) \/ \E r \in ToSet(d.relations) : \E l \in RelationLeaves(d, r) : is(l)
    <3>1. \A l : l \in TypeLeaves(d) <=> \/ l = Leaf("type name", d.name, NoSite, NoSite)
                                        \/ \E r \in ToSet(d.relations) : l \in RelationLeaves(d, r)
      <4> DEFINE rest == UNION {RelationLeaves(d, r) : r \in ToSet(d.relations)}
      <4>1. \A l : l \in rest <=> \E r \in ToSet(d.relations) : l \in RelationLeaves(d, r)
        OBVIOUS
      <4>2. TypeLeaves(d) = {Leaf("type name", d.name, NoSite, NoSite)} \cup rest
        BY <1>6
      <4> HIDE DEF rest
      <4> QED BY <4>1, <4>2
    <3> QED BY <3>1
  <2> QED BY <1>2, <1>3, <2>1
<1>8. (\E l \in Leaves(u) : is(l))
        <=> \/ \E c \in conds : is(Leaf("condition name", c, NoSite, NoSite))
            \/ \E d \in types : \E l \in TypeLeaves(d) : is(l)
  BY <1>5
<1>9. (\E l \in Leaves(u) : is(l)) <=> s \in ModelSymbols(x, u)
  BY <1>1, <1>4, <1>7, <1>8
<1> QED BY <1>9 DEF is

(* The symbols of an entry of a store test are those at its leaves.            *)
LEMMA EntrySymbolsAtLeaves ==
    ASSUME NEW x, NEW u, NEW e \in EntryTree, NEW s
    PROVE  s \in EntrySymbols(x, e) <=> \E l \in EntryLeaves(e) : Stands(s, x, u, l)
<1> DEFINE types == ToSet(e.objects) \cup ToSet(e.filters) \cup {user.type : user \in ToSet(e.users)}
           sets == {user \in ToSet(e.users) : user.relation # NoSite}
           first == IF e.objects = <<>> THEN NoSite ELSE e.objects[1]
           type(a) == Leaf("entry type", a, NoSite, NoSite)
           relation(a, t) == Leaf("entry relation", a, NoSite, t)
           is(l) == Stands(s, x, u, l)
           use(kind, a, owners) == Target(kind, x[a], owners, a, FALSE)
<1>1. ASSUME NEW a PROVE is(type(a)) <=> s = use("type", a, {})
  <2> DEFINE l == type(a)
  <2>1. l.role = "entry type" /\ l.at = a
    BY DEF Leaf
  <2> HIDE DEF l
  <2>2. SymbolAt(x, u, l) = use("type", a, {})
    BY <2>1 DEF SymbolAt, KindAt, OwnersAt, Declares
  <2>3. is(l) <=> s = use("type", a, {})
    BY <2>1, <2>2 DEF Stands
  <2> QED BY <2>3 DEF l
<1>2. ASSUME NEW a, NEW t
      PROVE  is(relation(a, t)) <=> s = use("relation", a, IF t = NoSite THEN {} ELSE {x[t]})
  <2> DEFINE l == relation(a, t)
             owners == IF t = NoSite THEN {} ELSE {x[t]}
  <2>1. l.role = "entry relation" /\ l.at = a /\ l.by = t
    BY DEF Leaf
  <2> HIDE DEF l
  <2>2. OwnersAt(x, u, l) = owners /\ KindAt(l.role) = "relation" /\ Declares(l.role) = FALSE
    BY <2>1 DEF KindAt, OwnersAt, Declares
  <2> HIDE DEF owners
  <2>3. is(l) <=> s = use("relation", a, owners)
    BY <2>1, <2>2 DEF Stands, SymbolAt
  <2> QED BY <2>3 DEF l, owners
<1>3. \A user \in sets : user.type # NoSite
  <2>1. e.users \in Seq([type : Sites, relation : OptionalSite]) /\ NoSite \notin Sites
    BY TreesAssumption DEF EntryTree
  <2>2. ToSet(e.users) \subseteq [type : Sites, relation : OptionalSite]
    <3> DEFINE T == [type : Sites, relation : OptionalSite]
    <3>1. e.users \in Seq(T)
      BY <2>1
    <3> HIDE DEF T
    <3>2. ToSet(e.users) \subseteq T
      BY <3>1 DEF ToSet
    <3> QED BY <3>2 DEF T
  <2> QED BY <2>1, <2>2
<1>4. e.objects # <<>> => first # NoSite
  BY TreesAssumption DEF EntryTree
<1>5. EntryLeaves(e) = {type(a) : a \in types} \cup {relation(user.relation, user.type) : user \in sets}
                         \cup {relation(a, first) : a \in ToSet(e.relations)}
  BY DEF EntryLeaves
<1> DEFINE owners == IF e.objects = <<>> THEN {} ELSE {x[e.objects[1]]}
<1>6. EntrySymbols(x, e) = {use("type", a, {}) : a \in types}
                             \cup {use("relation", user.relation, {x[user.type]}) : user \in sets}
                             \cup {use("relation", a, owners) : a \in ToSet(e.relations)}
  BY DEF EntrySymbols
<1>7. ASSUME NEW a PROVE is(relation(a, first)) <=> s = use("relation", a, owners)
  BY <1>2, <1>4
<1>8. ASSUME NEW user \in sets
      PROVE  is(relation(user.relation, user.type)) <=> s = use("relation", user.relation, {x[user.type]})
  BY <1>2, <1>3
<1> HIDE DEF types, sets, first, type, relation, is, use, owners
<1>9. (\E l \in EntryLeaves(e) : is(l))
        <=> \/ \E a \in types : is(type(a))
            \/ \E user \in sets : is(relation(user.relation, user.type))
            \/ \E a \in ToSet(e.relations) : is(relation(a, first))
  BY <1>5
<1>10. s \in EntrySymbols(x, e)
        <=> \/ \E a \in types : s = use("type", a, {})
            \/ \E user \in sets : s = use("relation", user.relation, {x[user.type]})
            \/ \E a \in ToSet(e.relations) : s = use("relation", a, owners)
  BY <1>6
<1>11. s \in EntrySymbols(x, e) <=> \E l \in EntryLeaves(e) : is(l)
  BY <1>1, <1>7, <1>8, <1>9, <1>10
<1> QED BY <1>11 DEF is

(* What denotes a file is the same whatever names are written.                 *)
LEMMA SymbolsAtLeaves ==
    ASSUME NEW x, NEW u \in Docs(View), NEW s
    PROVE  /\ (s \in Symbols(x, u) /\ s.kind # "file") <=> \E l \in Leaves(u) : Stands(s, x, u, l)
           /\ \A y : (s \in Symbols(x, u) /\ s.kind = "file") => s \in Symbols(y, u)
<1>1. ASSUME NEW l PROVE SymbolAt(x, u, l).kind \in {"type", "relation", "condition"}
  BY DEF SymbolAt, Target, KindAt
<1>2. ASSUME NEW p PROVE FileRef(p).kind = "file"
  BY DEF FileRef, Target
<1>3. CASE Kind(u) = "model"
  <2>1. u \in Models
    BY <1>3 DEF Models, DocsOfKind
  <2>2. \A y : Symbols(y, u) = ModelSymbols(y, u)
    BY <1>3 DEF Symbols
  <2>3. s \in Symbols(x, u) <=> \E l \in Leaves(u) : Stands(s, x, u, l)
    BY <2>1, <2>2, ModelSymbolsAtLeaves
  <2>4. s \in Symbols(x, u) => s.kind # "file"
    BY <1>1, <2>3 DEF Stands
  <2> QED BY <2>3, <2>4
<1>4. CASE Kind(u) = "store"
  <2> DEFINE files == {FileRef(p) : p \in {Text(View, u).model} \ {NoPath}}
  <2>1. u \in Stores
    BY <1>4 DEF Stores, DocsOfKind
  <2>2. \A y : Symbols(y, u) = files \cup UNION {EntrySymbols(y, e) : e \in ToSet(Tests[u])}
    BY <1>4 DEF Symbols, StoreSymbols
  <2>3. ToSet(Tests[u]) \subseteq EntryTree
    BY <2>1, TreesAssumption DEF ToSet
  <2>4. Leaves(u) = UNION {EntryLeaves(e) : e \in ToSet(Tests[u])}
    BY <1>4 DEF Leaves
  <2>5. \A f \in files : f.kind = "file"
    BY <1>2
  <2> HIDE DEF files
  <2>6. (\E l \in Leaves(u) : Stands(s, x, u, l))
          <=> \E e \in ToSet(Tests[u]) : \E l \in EntryLeaves(e) : Stands(s, x, u, l)
    BY <2>4
  <2>7. (\E l \in Leaves(u) : Stands(s, x, u, l)) <=> \E e \in ToSet(Tests[u]) : s \in EntrySymbols(x, e)
    BY <2>3, <2>6, EntrySymbolsAtLeaves
  <2>8. (\E l \in Leaves(u) : Stands(s, x, u, l)) => s.kind # "file"
    BY <1>1 DEF Stands
  <2> QED BY <2>2, <2>5, <2>7, <2>8
<1>5. CASE Kind(u) = "mod"
  <2>1. \A y : Symbols(y, u) = {FileRef(p) : p \in ToSet(Listed(View, u))}
    BY <1>5 DEF Symbols
  <2>2. Leaves(u) = {}
    BY <1>5 DEF Leaves
  <2> QED BY <1>2, <2>1, <2>2
<1>6. CASE Kind(u) \notin {"model", "store", "mod"}
  <2>1. \A y : Symbols(y, u) = {}
    BY <1>6 DEF Symbols
  <2>2. Leaves(u) = {}
    BY <1>6 DEF Leaves
  <2> QED BY <2>1, <2>2
<1> QED BY <1>3, <1>4, <1>5, <1>6

-------------------------------------------------------------------------------
(* l is a leaf of a relation, or of anything in a model.                       *)
StandsIn(l, d, r) ==
    \/ l = Leaf("relation", r.name, d.name, NoSite)
    \/ \E ref \in r.refs : l = Leaf(ref.kind, ref.at, d.name, ref.by)

StandsInModel(l, u) ==
    \/ \E c \in ToSet(Extract[u].conds) : l = Leaf("condition name", c, NoSite, NoSite)
    \/ \E d \in ToSet(Extract[u].types) :
         \/ l = Leaf("type name", d.name, NoSite, NoSite)
         \/ \E r \in ToSet(d.relations) : StandsIn(l, d, r)

(* Where the leaves of a model come from.                                      *)
LEMMA LeavesOfModels ==
    ASSUME NEW u \in Models, NEW l
    PROVE  l \in Leaves(u) <=> StandsInModel(l, u)
<1> DEFINE conds == ToSet(Extract[u].conds)
           types == ToSet(Extract[u].types)
<1>1. Leaves(u) = {Leaf("condition name", c, NoSite, NoSite) : c \in conds} \cup UNION {TypeLeaves(d) : d \in types}
  BY DEF Leaves, Models, DocsOfKind
<1>2. ASSUME NEW d PROVE l \in TypeLeaves(d) <=> \/ l = Leaf("type name", d.name, NoSite, NoSite)
                                                 \/ \E r \in ToSet(d.relations) : l \in RelationLeaves(d, r)
  BY DEF TypeLeaves
<1>3. ASSUME NEW d, NEW r PROVE l \in RelationLeaves(d, r) <=> \/ l = Leaf("relation", r.name, d.name, NoSite)
                                                               \/ \E ref \in r.refs : l = Leaf(ref.kind, ref.at, d.name, ref.by)
  BY DEF RelationLeaves
<1>4. l \in Leaves(u) <=> \/ \E c \in conds : l = Leaf("condition name", c, NoSite, NoSite)
                          \/ \E d \in types : l \in TypeLeaves(d)
  <2> HIDE DEF conds, types
  <2> QED BY <1>1
<1> HIDE DEF conds, types
<1>5. \A d : l \in TypeLeaves(d) <=>
                  \/ l = Leaf("type name", d.name, NoSite, NoSite)
                  \/ \E r \in ToSet(d.relations) :
                       \/ l = Leaf("relation", r.name, d.name, NoSite)
                       \/ \E ref \in r.refs : l = Leaf(ref.kind, ref.at, d.name, ref.by)
  BY <1>2, <1>3
<1> QED BY <1>4, <1>5 DEF conds, types, StandsInModel, StandsIn

(* Whoever is in a scope has its leaves in a model of the scope.               *)
LEMMA RelationsHaveLeaves ==
    ASSUME NEW u \in Docs(View), NEW e \in RelationsIn[u]
    PROVE  /\ RelationOK(e.rel)
           /\ \E w \in ToSet(Scope[u]) :
                 /\ Leaf("type name", e.type, NoSite, NoSite) \in Leaves(w)
                 /\ Leaf("relation", e.rel.name, e.type, NoSite) \in Leaves(w)
                 /\ \A ref \in e.rel.refs : Leaf(ref.kind, ref.at, e.type, ref.by) \in Leaves(w)
<1>1. PICK w \in ToSet(Scope[u]) : \E d \in ToSet(Extract[w].types) : \E rel \in ToSet(d.relations) :
          e = [type |-> d.name, rel |-> rel]
  BY RelationsOfScope
<1>2. PICK d \in ToSet(Extract[w].types) : \E rel \in ToSet(d.relations) : e = [type |-> d.name, rel |-> rel]
  BY <1>1
<1>3. e.rel \in ToSet(d.relations) /\ e.type = d.name
  BY <1>2
<1>4. w \in Models
  BY Scopes
<1>5. RelationOK(e.rel)
  BY <1>3, <1>4, Extracted DEF DeclarationOK
<1>6. Leaf("type name", e.type, NoSite, NoSite) \in Leaves(w)
  BY <1>3, <1>4, LeavesOfModels DEF StandsInModel, StandsIn
<1>7. Leaf("relation", e.rel.name, e.type, NoSite) \in Leaves(w)
  BY <1>3, <1>4, LeavesOfModels DEF StandsInModel, StandsIn
<1>8. ASSUME NEW ref \in e.rel.refs PROVE Leaf(ref.kind, ref.at, e.type, ref.by) \in Leaves(w)
  BY <1>3, <1>4, LeavesOfModels DEF StandsInModel, StandsIn
<1> QED BY <1>5, <1>6, <1>7, <1>8

(* A type of a scope has its leaf in a model of the scope.                     *)
LEMMA TypesHaveLeaves ==
    ASSUME NEW u \in Docs(View), NEW d \in ToSet(TypesIn[u])
    PROVE  \E w \in ToSet(Scope[u]) : Leaf("type name", d.name, NoSite, NoSite) \in Leaves(w)
<1>1. PICK w \in ToSet(Scope[u]) : d \in ToSet(Extract[w].types)
  BY TypesOfScope
<1>2. w \in Models
  BY Scopes
<1> QED BY <1>1, <1>2, LeavesOfModels DEF StandsInModel, StandsIn

(* A condition of a scope has its leaf in a model of the scope.                *)
LEMMA ConditionsHaveLeaves ==
    ASSUME NEW u \in Docs(View), NEW c \in ConditionsIn[u]
    PROVE  \E w \in ToSet(Scope[u]) : Leaf("condition name", c, NoSite, NoSite) \in Leaves(w)
<1>1. PICK w \in ToSet(Scope[u]) : c \in ToSet(Extract[w].conds)
  BY DEF ConditionsIn
<1>2. w \in Models
  BY Scopes
<1> QED BY <1>1, <1>2, LeavesOfModels DEF StandsInModel, StandsIn

(* No two leaves are one site.                                                 *)
LEMMA OneLeafPerSite ==
    ASSUME NEW u \in Docs(View), NEW w \in Docs(View), NEW k \in Leaves(u), NEW l \in Leaves(w), k.at = l.at
    PROVE  u = w /\ k = l
  BY SitesAssumption

(* The leaf where a type is declared.                                          *)
LEMMA TypeAtLeaf ==
    ASSUME NEW x, NEW u \in Docs(View), NEW w \in Docs(View), NEW l \in Leaves(w),
           NEW n, l.at \in {d.name : d \in TypeDecls(x, u, n)}
    PROVE  l.role = "type name" /\ x[l.at] = n
<1>1. PICK d \in ToSet(TypesIn[u]) : x[d.name] = n /\ d.name = l.at
  BY DEF TypeDecls
<1> DEFINE k == Leaf("type name", d.name, NoSite, NoSite)
<1>2. PICK v \in Docs(View) : k \in Leaves(v)
  BY <1>1, TypesHaveLeaves, Scopes
<1>3. k.at = d.name /\ k.role = "type name"
  BY DEF Leaf
<1> HIDE DEF k
<1>4. k = l
  BY <1>1, <1>2, <1>3, OneLeafPerSite
<1> QED BY <1>1, <1>3, <1>4

(* The leaf where a condition is declared.                                     *)
LEMMA ConditionAtLeaf ==
    ASSUME NEW x, NEW u \in Docs(View), NEW w \in Docs(View), NEW l \in Leaves(w),
           NEW n, l.at \in ConditionDecls(x, u, n)
    PROVE  l.role = "condition name" /\ x[l.at] = n
<1> DEFINE k == Leaf("condition name", l.at, NoSite, NoSite)
<1>1. l.at \in ConditionsIn[u] /\ x[l.at] = n
  BY DEF ConditionDecls
<1>2. PICK v \in Docs(View) : k \in Leaves(v)
  BY <1>1, ConditionsHaveLeaves, Scopes
<1>3. k.at = l.at /\ k.role = "condition name"
  BY DEF Leaf
<1> HIDE DEF k
<1>4. k = l
  BY <1>2, <1>3, OneLeafPerSite
<1> QED BY <1>1, <1>3, <1>4

(* The leaf where a relation is declared, beside the name of its type.         *)
LEMMA RelationAtLeaf ==
    ASSUME NEW x, NEW u \in Docs(View), NEW w \in Docs(View), NEW l \in Leaves(w),
           NEW o, NEW n, NEW r \in RelationDecls(x, u, o, n), r.name = l.at
    PROVE  l.role = "relation" /\ x[l.at] = n /\ x[l.type] = o
<1>1. PICK e \in RelationsIn[u] : e.rel = r /\ x[e.type] = o /\ x[r.name] = n
  BY DEF RelationDecls
<1> DEFINE k == Leaf("relation", r.name, e.type, NoSite)
<1>2. PICK v \in Docs(View) : k \in Leaves(v)
  BY <1>1, RelationsHaveLeaves, Scopes
<1>3. k.at = r.name /\ k.role = "relation" /\ k.type = e.type
  BY DEF Leaf
<1> HIDE DEF k
<1>4. k = l
  BY <1>2, <1>3, OneLeafPerSite
<1> QED BY <1>1, <1>3, <1>4

(* The places a request lists are the sites of the leaves that match.          *)
LEMMA PlacesListed ==
    ASSUME NEW x, NEW u, NEW t, t.kind # "file", NEW p
    PROVE  p \in Places(ReferencesTo(AllSymbols(x), u, t)) <=>
             \E w \in Docs(View) \cap RelatedDocuments(u) : \E l \in Leaves(w) :
                 l.role # "tupleset" /\ Matches(SymbolAt(x, w, l), t) /\ l.at = p
<1>1. p \in Places(ReferencesTo(AllSymbols(x), u, t)) <=>
        \E w \in Docs(View) \cap RelatedDocuments(u) : \E s \in Symbols(x, w) : Matches(s, t) /\ s.at = p
  <2>1. ASSUME NEW f PROVE f \in AllSymbols(x) <=> \E w \in Docs(View) : \E s \in Symbols(x, w) : f = <<w, s>>
    BY DEF AllSymbols
  <2>2. ASSUME NEW s PROVE s \in ReferencesTo(AllSymbols(x), u, t)
            <=> \E w \in Docs(View) \cap RelatedDocuments(u) : s \in Symbols(x, w) /\ Matches(s, t)
    <3>1. s \in ReferencesTo(AllSymbols(x), u, t)
            <=> \E f \in AllSymbols(x) : f[1] \in RelatedDocuments(u) /\ Matches(f[2], t) /\ s = f[2]
      BY DEF ReferencesTo
    <3>2. ASSUME NEW w \in Docs(View) \cap RelatedDocuments(u), s \in Symbols(x, w), Matches(s, t)
          PROVE  s \in ReferencesTo(AllSymbols(x), u, t)
      <4>1. <<w, s>> \in AllSymbols(x)
        BY <2>1, <3>2
      <4> QED BY <3>1, <3>2, <4>1
    <3> QED BY <2>1, <3>1, <3>2
  <2> QED BY <2>2 DEF Places
<1>2. ASSUME NEW w, NEW l PROVE SymbolAt(x, w, l).at = l.at
  BY DEF SymbolAt, Target
<1>3. ASSUME NEW s, Matches(s, t) PROVE s.kind # "file"
  BY <1>3 DEF Matches
<1>4. ASSUME NEW w \in Docs(View)
      PROVE  (\E s \in Symbols(x, w) : Matches(s, t) /\ s.at = p)
               <=> \E l \in Leaves(w) : l.role # "tupleset" /\ Matches(SymbolAt(x, w, l), t) /\ l.at = p
  <2>1. ASSUME NEW s \in Symbols(x, w), Matches(s, t), s.at = p
        PROVE  \E l \in Leaves(w) : l.role # "tupleset" /\ Matches(SymbolAt(x, w, l), t) /\ l.at = p
    <3>1. PICK l \in Leaves(w) : Stands(s, x, w, l)
      BY <1>3, <2>1, SymbolsAtLeaves
    <3> QED BY <1>2, <2>1, <3>1 DEF Stands
  <2>2. ASSUME NEW l \in Leaves(w), l.role # "tupleset", Matches(SymbolAt(x, w, l), t), l.at = p
        PROVE  SymbolAt(x, w, l) \in Symbols(x, w)
    <3>1. Stands(SymbolAt(x, w, l), x, w, l)
      BY <2>2 DEF Stands
    <3> QED BY <3>1, SymbolsAtLeaves
  <2> QED BY <1>2, <2>1, <2>2
<1> QED BY <1>1, <1>4

-------------------------------------------------------------------------------
(* What a request is for: a symbol that declares something is at the leaf of   *)
(* its declaration.                                                            *)
LEMMA DeclaringSymbols ==
    ASSUME NEW x, NEW u \in Docs(View), NEW t \in Symbols(x, u), t.declaration
    PROVE  /\ t.kind # "file"
           /\ \E l \in Leaves(u) : t = SymbolAt(x, u, l) /\ l.role \in {"type name", "condition name", "relation"}
<1>1. t.kind # "file"
  <2> SUFFICES ASSUME t.kind = "file" PROVE FALSE
    OBVIOUS
  <2>1. \A p : FileRef(p).declaration = FALSE
    BY DEF FileRef, Target
  <2>2. ~\E l \in Leaves(u) : Stands(t, x, u, l)
    BY SymbolsAtLeaves
  <2>3. CASE Kind(u) = "model"
    <3>1. u \in Models
      BY <2>3 DEF Models, DocsOfKind
    <3> QED BY <2>2, <2>3, <3>1, ModelSymbolsAtLeaves DEF Symbols
  <2>4. CASE Kind(u) = "store"
    <3>1. u \in Stores
      BY <2>4 DEF Stores, DocsOfKind
    <3>2. ToSet(Tests[u]) \subseteq EntryTree
      BY <3>1, TreesAssumption DEF ToSet
    <3>3. ASSUME NEW e \in ToSet(Tests[u]) PROVE t \notin EntrySymbols(x, e)
      <4>1. EntryLeaves(e) \subseteq Leaves(u)
        BY <2>4 DEF Leaves
      <4> QED BY <2>2, <3>2, <4>1, EntrySymbolsAtLeaves
    <3>4. \E p : t = FileRef(p)
      BY <2>4, <3>3 DEF Symbols, StoreSymbols
    <3> QED BY <2>1, <3>4
  <2>5. CASE Kind(u) \notin {"model", "store"}
    BY <2>1, <2>5 DEF Symbols
  <2> QED BY <2>3, <2>4, <2>5
<1>2. PICK l \in Leaves(u) : t = SymbolAt(x, u, l)
  BY <1>1, SymbolsAtLeaves DEF Stands
<1>3. Declares(l.role)
  BY <1>2 DEF SymbolAt, Target
<1> QED BY <1>1, <1>2, <1>3 DEF Declares

(* What a name in a relation denotes is what the symbol at its leaf finds.     *)
LEMMA UsesMatch ==
    ASSUME NEW x, NEW u \in Docs(View), NEW w \in Docs(View), NEW type, NEW ref, ref.kind \in UseKinds,
           NEW k, k = Leaf(ref.kind, ref.at, type, ref.by), ref.kind # "tupleset",
           NEW l \in Leaves(u), l.at \in Denoted(x, w, x[type], ref)
    PROVE  Matches(SymbolAt(x, w, k), SymbolAt(x, u, l))
<1> DEFINE s == SymbolAt(x, w, k)
           t == SymbolAt(x, u, l)
<1>1. k.role = ref.kind /\ k.at = ref.at /\ k.type = type /\ k.by = ref.by
  BY DEF Leaf
<1>2. /\ s.kind = KindAt(k.role) /\ s.name = x[k.at] /\ s.owners = OwnersAt(x, w, k)
      /\ t.kind = KindAt(l.role) /\ t.name = x[l.at] /\ t.owners = OwnersAt(x, u, l)
  BY DEF SymbolAt, Target
<1> HIDE DEF s, t
<1>3. CASE ref.kind = "type"
  <2>1. Denoted(x, w, x[type], ref) = {d.name : d \in TypeDecls(x, w, x[ref.at])}
    BY <1>3 DEF Denoted
  <2>2. l.role = "type name" /\ x[l.at] = x[ref.at]
    <3> DEFINE n == x[ref.at]
    <3>1. l.at \in {d.name : d \in TypeDecls(x, w, n)}
      BY <2>1
    <3>2. l.role = "type name" /\ x[l.at] = n
      <4> HIDE DEF n
      <4> QED BY <3>1, TypeAtLeaf
    <3> QED BY <3>2
  <2>3. s.kind = "type" /\ t.kind = "type" /\ s.name = t.name
    BY <1>1, <1>2, <1>3, <2>2 DEF KindAt
  <2>4. Matches(s, t)
    BY <2>3 DEF Matches
  <2> QED BY <2>4 DEF s, t
<1>4. CASE ref.kind = "condition"
  <2>1. Denoted(x, w, x[type], ref) = ConditionDecls(x, w, x[ref.at])
    BY <1>4 DEF Denoted
  <2>2. l.role = "condition name" /\ x[l.at] = x[ref.at]
    <3> DEFINE n == x[ref.at]
    <3>1. l.at \in ConditionDecls(x, w, n)
      BY <2>1
    <3>2. l.role = "condition name" /\ x[l.at] = n
      <4> HIDE DEF n
      <4> QED BY <3>1, ConditionAtLeaf
    <3> QED BY <3>2
  <2>3. s.kind = "condition" /\ t.kind = "condition" /\ s.name = t.name
    BY <1>1, <1>2, <1>4, <2>2 DEF KindAt
  <2>4. Matches(s, t)
    BY <2>3 DEF Matches
  <2> QED BY <2>4 DEF s, t
<1>5. CASE ref.kind \notin {"type", "condition"}
  <2>1. Denoted(x, w, x[type], ref) = UNION {{r.name : r \in RelationDecls(x, w, o, x[ref.at])} : o \in OwnersAt(x, w, k)}
    <3>1. CASE ref.kind = "relation on self"
      <4>1. OwnersAt(x, w, k) = {x[type]}
        BY <1>1, <3>1 DEF OwnersAt
      <4> QED BY <3>1, <4>1 DEF Denoted
    <3>2. CASE ref.kind = "relation on type"
      <4>1. OwnersAt(x, w, k) = {x[ref.by]}
        BY <1>1, <3>2 DEF OwnersAt
      <4> QED BY <3>2, <4>1 DEF Denoted
    <3>3. CASE ref.kind = "relation via tupleset"
      <4>1. OwnersAt(x, w, k) = TuplesetTargets(x, w, x[type], x[ref.by])
        BY <1>1, <3>3 DEF OwnersAt
      <4> QED BY <3>3, <4>1 DEF Denoted
    <3> QED BY <1>5, <3>1, <3>2, <3>3 DEF UseKinds
  <2>2. PICK o \in OwnersAt(x, w, k) : \E r \in RelationDecls(x, w, o, x[ref.at]) : r.name = l.at
    BY <2>1
  <2>3. l.role = "relation" /\ x[l.at] = x[ref.at] /\ x[l.type] = o
    BY <2>2, RelationAtLeaf
  <2>4. s.kind = "relation" /\ t.kind = "relation" /\ s.name = t.name
    BY <1>1, <1>2, <1>5, <2>3 DEF KindAt, UseKinds
  <2>5. t.owners = {o}
    BY <1>2, <2>3 DEF OwnersAt
  <2>6. o \in s.owners \cap t.owners
    BY <1>2, <2>2, <2>5
  <2>7. Matches(s, t)
    BY <2>4, <2>6 DEF Matches
  <2> QED BY <2>7 DEF s, t
<1> QED BY <1>3, <1>4, <1>5

(* "Find references" lists every use of what is declared.                      *)
LEMMA UsesListed ==
    ASSUME NEW x, NEW w \in Models, NEW u \in SameScope(w) \cap Models,
           NEW t \in Symbols(x, u), t.declaration,
           NEW use \in Uses(x, w), t.at \in use.denotes, use.kind # "tupleset"
    PROVE  use.at \in Places(ReferencesTo(AllSymbols(x), u, t))
<1>1. u \in Docs(View) /\ w \in Docs(View) /\ w \in RelatedDocuments(u)
  BY Scopes DEF SameScope, RelatedDocuments
<1>2. PICK e \in RelationsIn[w] : \E ref \in e.rel.refs :
          /\ e.type \in {d.name : d \in ToSet(Extract[w].types)}
          /\ use = [kind |-> ref.kind, at |-> ref.at, denotes |-> Denoted(x, w, x[e.type], ref)]
  BY DEF Uses
<1>3. PICK ref \in e.rel.refs :
          use = [kind |-> ref.kind, at |-> ref.at, denotes |-> Denoted(x, w, x[e.type], ref)]
  BY <1>2
<1>4. use.kind = ref.kind /\ use.at = ref.at /\ use.denotes = Denoted(x, w, x[e.type], ref)
  BY <1>3
<1>5. Leaf("type name", e.type, NoSite, NoSite) \in Leaves(w)
  BY <1>2, LeavesOfModels DEF StandsInModel, StandsIn
<1> DEFINE k == Leaf(ref.kind, ref.at, e.type, ref.by)
<1>6. k \in Leaves(w)
  <2> DEFINE n == Leaf("type name", e.type, NoSite, NoSite)
  <2>1. PICK v \in ToSet(Scope[w]) : n \in Leaves(v) /\ k \in Leaves(v)
    BY <1>1, RelationsHaveLeaves
  <2>2. v \in Docs(View)
    BY <1>1, Scopes
  <2>3. n \in Leaves(w)
    BY <1>5
  <2> HIDE DEF k, n
  <2>4. v = w
    BY <1>1, <2>1, <2>2, <2>3, SitesAssumption
  <2> QED BY <2>1, <2>4
<1>7. ref.kind \in UseKinds
  BY <1>1, RelationsHaveLeaves, UsesOfRelations
<1>8. t.kind # "file"
  BY <1>1, DeclaringSymbols
<1>9. PICK l \in Leaves(u) : t = SymbolAt(x, u, l)
  BY <1>1, DeclaringSymbols
<1>10. t.at = l.at
  BY <1>9 DEF SymbolAt, Target
<1>11. Matches(SymbolAt(x, w, k), t)
  <2>1. l.at \in Denoted(x, w, x[e.type], ref) /\ ref.kind # "tupleset"
    BY <1>4, <1>10
  <2> QED BY <1>1, <1>7, <1>9, <2>1, UsesMatch
<1>12. k.at = use.at /\ k.role # "tupleset"
  BY <1>4 DEF Leaf
<1> HIDE DEF k
<1> QED BY <1>1, <1>6, <1>8, <1>11, <1>12, PlacesListed

(* "Find references", asked for at a declaration of a model, lists every name  *)
(* of the models of the same scope that denotes it, but for those right of     *)
(* `from`: RelatedDocuments and matches overlook none.                         *)
THEOREM UsesAreAlwaysListed == RenameSpec => []UsesAreListed
<1>1. UsesAreListed
  BY UsesListed DEF UsesAreListed
<1> QED BY <1>1, PTL

-------------------------------------------------------------------------------
(* A leaf of a model that is no condition belongs to a type.                   *)
LEMMA DeclaredAt ==
    ASSUME NEW u \in Models, NEW l \in Leaves(u), l.role # "condition name"
    PROVE  \E d \in ToSet(Extract[u].types) :
               \/ l = Leaf("type name", d.name, NoSite, NoSite)
               \/ \E r \in ToSet(d.relations) : StandsIn(l, d, r)
<1>1. StandsInModel(l, u)
  BY LeavesOfModels
<1>2. ASSUME NEW c PROVE l # Leaf("condition name", c, NoSite, NoSite)
  <2>1. Leaf("condition name", c, NoSite, NoSite).role = "condition name"
    BY DEF Leaf
  <2> QED BY <2>1
<1> QED BY <1>1, <1>2 DEF StandsInModel

(* A type that has a leaf.                                                     *)
LEMMA LeafOfType ==
    ASSUME NEW u \in Models, NEW l \in Leaves(u), l.role = "type name"
    PROVE  \E d \in ToSet(Extract[u].types) : d.name = l.at /\ l.at \in Sites
<1>1. PICK d \in ToSet(Extract[u].types) :
          \/ l = Leaf("type name", d.name, NoSite, NoSite)
          \/ \E r \in ToSet(d.relations) : StandsIn(l, d, r)
  BY DeclaredAt
<1>2. d.name \in Sites /\ \A r \in ToSet(d.relations) : RelationOK(r)
  BY Extracted DEF DeclarationOK
<1>3. ASSUME NEW r \in ToSet(d.relations) PROVE ~StandsIn(l, d, r)
  <2>1. RelationOK(r)
    BY <1>2
  <2>2. \A ref \in r.refs : ref.kind # "type name"
    BY <2>1, UsesOfRelations DEF UseKinds
  <2>3. \A ref \in r.refs : l # Leaf(ref.kind, ref.at, d.name, ref.by)
    <3>1. ASSUME NEW ref PROVE Leaf(ref.kind, ref.at, d.name, ref.by).role = ref.kind
      BY DEF Leaf
    <3> QED BY <2>2, <3>1
  <2>4. l # Leaf("relation", r.name, d.name, NoSite)
    <3>1. Leaf("relation", r.name, d.name, NoSite).role = "relation"
      BY DEF Leaf
    <3> QED BY <3>1
  <2> QED BY <2>3, <2>4 DEF StandsIn
<1>4. l = Leaf("type name", d.name, NoSite, NoSite)
  BY <1>1, <1>3
<1>5. l.at = d.name
  BY <1>4 DEF Leaf
<1> QED BY <1>2, <1>5

(* A relation that has a leaf, in the type that has the name beside it.        *)
LEMMA LeafOfRelation ==
    ASSUME NEW u \in Models, NEW l \in Leaves(u), l.role = "relation"
    PROVE  \E d \in ToSet(Extract[u].types) : \E r \in ToSet(d.relations) :
               d.name = l.type /\ r.name = l.at /\ l.at \in Sites
<1>1. PICK d \in ToSet(Extract[u].types) :
          \/ l = Leaf("type name", d.name, NoSite, NoSite)
          \/ \E r \in ToSet(d.relations) : StandsIn(l, d, r)
  BY DeclaredAt
<1>2. l # Leaf("type name", d.name, NoSite, NoSite)
  <2>1. Leaf("type name", d.name, NoSite, NoSite).role = "type name"
    BY DEF Leaf
  <2> QED BY <2>1
<1>3. PICK r \in ToSet(d.relations) : StandsIn(l, d, r)
  BY <1>1, <1>2
<1>4. RelationOK(r)
  BY Extracted DEF DeclarationOK
<1>5. \A ref \in r.refs : ref.kind # "relation"
  BY <1>4, UsesOfRelations DEF UseKinds
<1>6. l = Leaf("relation", r.name, d.name, NoSite)
  BY <1>3, <1>5 DEF StandsIn, Leaf
<1>7. d.name = l.type /\ r.name = l.at
  BY <1>6 DEF Leaf
<1>8. r.name \in Sites
  BY <1>4 DEF RelationOK
<1> QED BY <1>7, <1>8

(* What the agent finds of a symbol that declares a type or a relation.        *)
AgentFinds(x, u, t) ==
    LET symbols == AllSymbols(x)
        type == IF t.kind = "type" THEN t.name ELSE CHOOSE o \in t.owners : TRUE
        relation == IF t.kind = "type" THEN NoSite ELSE t.name
    IN  /\ Places(ReferencesTo(symbols, u, t)) \subseteq Places(FindReferences(x, symbols, type, relation))
        /\ t.at \in FindDefinition(x, type, relation)

(* FindReferences and FindDefinition, asked by name for what is declared in    *)
(* the scope of the first model, find what the editor finds.                   *)
LEMMA AgentFindsEverything ==
    ASSUME Models # {}, NEW x \in [Sites -> Names], NEW u \in ToSet(Scope[AgentDoc]),
           NEW t \in Symbols(x, u), t.declaration, t.kind # "condition"
    PROVE  AgentFinds(x, u, t)
<1> DEFINE symbols == AllSymbols(x)
<1>1. AgentDoc \in Models
  <2>1. Models \in SUBSET URIs
    BY DEF Models, DocsOfKind, Docs
  <2> QED BY <2>1, ByPathMembers DEF AgentDoc, ModelDocs, Models
<1>2. AgentDoc \in Docs(View) /\ u \in Models /\ u \in Docs(View)
  BY <1>1, Scopes
<1>3. PICK l \in Leaves(u) : t = SymbolAt(x, u, l) /\ l.role \in {"type name", "condition name", "relation"}
  BY <1>2, DeclaringSymbols
<1>4. t.kind = KindAt(l.role) /\ t.name = x[l.at] /\ t.owners = OwnersAt(x, u, l) /\ t.at = l.at
  BY <1>3 DEF SymbolAt, Target
<1>5. l.role \in {"type name", "relation"}
  BY <1>3, <1>4 DEF KindAt
<1>6. ASSUME NEW type, NEW relation,
             FindReferences(x, symbols, type, relation)
                = {found[2] : found \in {found \in symbols : AgentMatches(found[2], type, relation)}},
             \A s : Matches(s, t) => AgentMatches(s, type, relation)
      PROVE  Places(ReferencesTo(symbols, u, t)) \subseteq Places(FindReferences(x, symbols, type, relation))
  <2>1. ReferencesTo(symbols, u, t) \subseteq FindReferences(x, symbols, type, relation)
    <3> HIDE DEF symbols
    <3> QED BY <1>6 DEF ReferencesTo
  <2> HIDE DEF symbols
  <2> QED BY <2>1 DEF Places
<1> HIDE DEF symbols
<1>7. CASE l.role = "type name"
  <2>1. t.kind = "type"
    BY <1>4, <1>7 DEF KindAt
  <2>2. PICK d \in ToSet(Extract[u].types) : d.name = l.at
    BY <1>2, <1>7, LeafOfType
  <2>3. d \in TypeDecls(x, AgentDoc, t.name)
    BY <1>2, <1>4, <2>2, TypesOfScope DEF TypeDecls
  <2>4. t.at \in FindDefinition(x, t.name, NoSite)
    BY <1>4, <2>2, <2>3 DEF FindDefinition
  <2>5. HasType(x, AgentDoc, t.name)
    BY <2>3, Known
  <2>6. FindReferences(x, symbols, t.name, NoSite)
            = {found[2] : found \in {found \in symbols : AgentMatches(found[2], t.name, NoSite)}}
    BY <2>5 DEF FindReferences
  <2>7. \A s : Matches(s, t) => AgentMatches(s, t.name, NoSite)
    BY <2>1 DEF Matches, AgentMatches
  <2>8. Places(ReferencesTo(symbols, u, t)) \subseteq Places(FindReferences(x, symbols, t.name, NoSite))
    BY <1>6, <2>6, <2>7
  <2> QED BY <2>1, <2>4, <2>8 DEF AgentFinds, symbols
<1>8. CASE l.role = "relation"
  <2> DEFINE o == x[l.type]
  <2>1. t.kind = "relation" /\ t.owners = {o}
    BY <1>4, <1>8 DEF KindAt, OwnersAt
  <2>2. PICK d \in ToSet(Extract[u].types) : \E r \in ToSet(d.relations) :
            d.name = l.type /\ r.name = l.at /\ l.at \in Sites
    BY <1>2, <1>8, LeafOfRelation
  <2>3. PICK r \in ToSet(d.relations) : r.name = l.at
    BY <2>2
  <2>4. t.name # NoSite
    BY <1>4, <2>2, NamesAssumption
  <2>5. [type |-> d.name, rel |-> r] \in RelationsIn[AgentDoc]
    BY <1>2, RelationsOfScope
  <2>6. r \in RelationDecls(x, AgentDoc, o, t.name)
    <3> DEFINE e == [type |-> d.name, rel |-> r]
    <3>1. e.rel = r /\ x[e.type] = o /\ x[e.rel.name] = t.name
      BY <1>4, <2>2, <2>3
    <3>2. e \in RelationsIn[AgentDoc]
      BY <2>5
    <3> HIDE DEF e, o
    <3> QED BY <3>1, <3>2 DEF RelationDecls
  <2>7. t.at \in FindDefinition(x, o, t.name)
    BY <1>4, <2>3, <2>4, <2>6 DEF FindDefinition
  <2>8. FindReferences(x, symbols, o, t.name)
            = {found[2] : found \in {found \in symbols : AgentMatches(found[2], o, t.name)}}
    BY <2>4 DEF FindReferences
  <2>9. \A s : Matches(s, t) => AgentMatches(s, o, t.name)
    <3> HIDE DEF o
    <3> QED BY <2>1, <2>4 DEF Matches, AgentMatches
  <2>10. Places(ReferencesTo(symbols, u, t)) \subseteq Places(FindReferences(x, symbols, o, t.name))
    BY <1>6, <2>8, <2>9
  <2>11. (CHOOSE q \in t.owners : TRUE) = o
    <3> HIDE DEF o
    <3> QED BY <2>1
  <2> HIDE DEF o
  <2> QED BY <2>1, <2>7, <2>10, <2>11 DEF AgentFinds, symbols
<1> QED BY <1>5, <1>7, <1>8

(* Unless there is no model, fga_references finds whatever the editor finds    *)
(* from a declaration in the scope of the first model, and fga_definition the  *)
(* declaration: FindReferences and its own matching by name lose nothing.      *)
THEOREM AgentAlwaysFinds ==
    ASSUME Models # {}
    PROVE  RenameSpec => []AgentFindsWhatTheEditorFinds
<1>1. RenameTypeOK => AgentFindsWhatTheEditorFinds
  <2> SUFFICES ASSUME RenameTypeOK, NEW u \in ToSet(Scope[AgentDoc]), NEW t \in Symbols(text, u),
                      t.declaration, t.kind # "condition"
               PROVE  AgentFinds(text, u, t)
    BY DEF AgentFindsWhatTheEditorFinds, AgentFinds
  <2> QED BY AgentFindsEverything DEF RenameTypeOK
<1> QED BY <1>1, TypeCorrect, PTL

-------------------------------------------------------------------------------
(* x becomes y by a rename of the symbol t of the document u to new.           *)
Renamed(x, y, u, t, new) ==
    /\ u \in Docs(View)
    /\ t.kind \in {"type", "relation", "condition"}
    /\ Declarations(x, u, t) # {}
    /\ ~ExistingName(x, u, t, new)
    /\ y = [s \in Sites |-> IF s \in Places(ReferencesTo(AllSymbols(x), u, t)) THEN new ELSE x[s]]

(* What becomes of the name of a type or a condition, and of a relation of the *)
(* type o.                                                                     *)
NameAfter(t, new, kind, n) == IF t.kind = kind /\ n = t.name THEN new ELSE n
RelationAfter(t, new, o, n) == IF t.kind = "relation" /\ n = t.name /\ o \in t.owners THEN new ELSE n

-------------------------------------------------------------------------------
(* Where the names stand that a name depends on: in the same document.         *)
LeafFits(u, l) ==
    /\ l.at \in Sites
    /\ l.role \in {"type name", "condition name", "relation", "entry type", "entry relation"} \cup UseKinds
    /\ l.role \in {"relation"} \cup UseKinds => u \in Models /\ Leaf("type name", l.type, NoSite, NoSite) \in Leaves(u)
    /\ l.role = "relation on type" => \E k \in Leaves(u) : k.role = "type" /\ k.at = l.by
    /\ l.role = "relation via tupleset" => \E k \in Leaves(u) : k.role = "tupleset" /\ k.at = l.by /\ k.type = l.type
    /\ l.role = "entry relation" => l.by = NoSite \/ \E k \in Leaves(u) : k.role = "entry type" /\ k.at = l.by

(* The leaves of a relation of a model.                                        *)
LEMMA RelationLeavesFit ==
    ASSUME NEW u \in Models, NEW d \in ToSet(Extract[u].types), NEW r \in ToSet(d.relations),
           NEW l, StandsIn(l, d, r)
    PROVE  LeafFits(u, l)
<1>1. RelationOK(r) /\ r.name \in Sites
  BY Extracted DEF DeclarationOK, RelationOK
<1>2. Leaf("type name", d.name, NoSite, NoSite) \in Leaves(u)
  BY LeavesOfModels DEF StandsInModel
<1>3. ASSUME NEW ref \in r.refs PROVE Leaf(ref.kind, ref.at, d.name, ref.by) \in Leaves(u)
  <2>1. StandsIn(Leaf(ref.kind, ref.at, d.name, ref.by), d, r)
    BY DEF StandsIn
  <2> QED BY <2>1, LeavesOfModels DEF StandsInModel
<1>4. CASE l = Leaf("relation", r.name, d.name, NoSite)
  BY <1>1, <1>2, <1>4 DEF LeafFits, Leaf, UseKinds
<1>5. ASSUME NEW ref \in r.refs, l = Leaf(ref.kind, ref.at, d.name, ref.by) PROVE LeafFits(u, l)
  <2>1. l.role = ref.kind /\ l.at = ref.at /\ l.type = d.name /\ l.by = ref.by
    BY <1>5 DEF Leaf
  <2>2. ref.kind \in UseKinds /\ ref.at \in Sites
    BY <1>1, UsesOfRelations
  <2>3. ASSUME ref.kind = "relation on type" PROVE \E k \in Leaves(u) : k.role = "type" /\ k.at = l.by
    <3>1. PICK other \in r.refs : other.kind = "type" /\ other.at = ref.by
      BY <1>1, <2>3, UsesOfRelations
    <3> DEFINE k == Leaf(other.kind, other.at, d.name, other.by)
    <3>2. k \in Leaves(u)
      BY <1>3
    <3>3. k.role = "type" /\ k.at = l.by
      BY <2>1, <3>1 DEF Leaf
    <3> QED BY <3>2, <3>3
  <2>4. ASSUME ref.kind = "relation via tupleset"
        PROVE  \E k \in Leaves(u) : k.role = "tupleset" /\ k.at = l.by /\ k.type = l.type
    <3>1. PICK other \in r.refs : other.kind = "tupleset" /\ other.at = ref.by
      BY <1>1, <2>4, UsesOfRelations
    <3> DEFINE k == Leaf(other.kind, other.at, d.name, other.by)
    <3>2. k \in Leaves(u)
      BY <1>3
    <3>3. k.role = "tupleset" /\ k.at = l.by /\ k.type = l.type
      BY <2>1, <3>1 DEF Leaf
    <3> QED BY <3>2, <3>3
  <2>5. ref.kind # "entry relation"
    BY <2>2 DEF UseKinds
  <2>6. l.role \in UseKinds
    BY <2>1, <2>2
  <2>7. Leaf("type name", l.type, NoSite, NoSite) \in Leaves(u)
    BY <1>2, <2>1
  <2> QED BY <2>1, <2>2, <2>3, <2>4, <2>5, <2>6, <2>7 DEF LeafFits
<1> QED BY <1>4, <1>5 DEF StandsIn

(* The leaves of a store test.                                                 *)
LEMMA EntryLeavesFit ==
    ASSUME NEW u \in Stores, NEW l \in Leaves(u)
    PROVE  LeafFits(u, l)
<1>1. Leaves(u) = UNION {EntryLeaves(e) : e \in ToSet(Tests[u])} /\ ToSet(Tests[u]) \subseteq EntryTree
  BY TreesAssumption DEF Leaves, Stores, DocsOfKind, ToSet
<1>2. PICK e \in EntryTree : e \in ToSet(Tests[u]) /\ l \in EntryLeaves(e)
  BY <1>1
<1> DEFINE types == ToSet(e.objects) \cup ToSet(e.filters) \cup {user.type : user \in ToSet(e.users)}
           type(s) == Leaf("entry type", s, NoSite, NoSite)
           relation(s, t) == Leaf("entry relation", s, NoSite, t)
           first == IF e.objects = <<>> THEN NoSite ELSE e.objects[1]
<1>3. /\ ToSet(e.objects) \subseteq Sites /\ ToSet(e.filters) \subseteq Sites /\ ToSet(e.relations) \subseteq Sites
      /\ ToSet(e.users) \subseteq [type : Sites, relation : OptionalSite]
  <2>1. /\ e.objects \in Seq(Sites) /\ e.filters \in Seq(Sites) /\ e.relations \in Seq(Sites)
        /\ e.users \in Seq([type : Sites, relation : OptionalSite])
    BY DEF EntryTree
  <2>2. ASSUME NEW S, NEW q \in Seq(S) PROVE ToSet(q) \subseteq S
    BY DEF ToSet
  <2> QED BY <2>1, <2>2
<1>4. types \subseteq Sites
  BY <1>3
<1>5. first = NoSite \/ first \in types
  <2>1. e.objects # <<>> => e.objects[1] \in ToSet(e.objects)
    BY DEF EntryTree, ToSet
  <2> QED BY <2>1
<1>6. ASSUME NEW s \in types PROVE type(s) \in Leaves(u) /\ type(s).role = "entry type" /\ type(s).at = s
  <2>1. type(s) \in EntryLeaves(e)
    BY DEF EntryLeaves
  <2>2. type(s).role = "entry type" /\ type(s).at = s
    BY DEF Leaf
  <2> HIDE DEF type, types
  <2> QED BY <1>1, <1>2, <2>1, <2>2
<1>7. \/ \E s \in types : l = type(s)
      \/ \E user \in ToSet(e.users) : user.relation # NoSite /\ l = relation(user.relation, user.type)
      \/ \E s \in ToSet(e.relations) : l = relation(s, first)
  BY <1>2 DEF EntryLeaves
<1>8. ASSUME NEW s \in types, l = type(s) PROVE LeafFits(u, l)
  <2>1. l.at \in Sites /\ l.role = "entry type"
    BY <1>4, <1>8 DEF Leaf
  <2> QED BY <2>1 DEF LeafFits, UseKinds
<1>9. ASSUME NEW s \in Sites, NEW t, t = NoSite \/ t \in types, l = relation(s, t) PROVE LeafFits(u, l)
  <2>1. l.at \in Sites /\ l.role = "entry relation" /\ l.by = t
    BY <1>9 DEF Leaf
  <2>2. t = NoSite \/ \E k \in Leaves(u) : k.role = "entry type" /\ k.at = t
    <3> HIDE DEF type, types
    <3> QED BY <1>6, <1>9
  <2> QED BY <2>1, <2>2 DEF LeafFits, UseKinds
<1>10. ASSUME NEW user \in ToSet(e.users), user.relation # NoSite PROVE user.relation \in Sites /\ user.type \in types
  BY <1>3, <1>10 DEF OptionalSite
<1> HIDE DEF type, types, relation, first
<1> QED BY <1>3, <1>5, <1>7, <1>8, <1>9, <1>10

(* The leaves of any document.                                                 *)
LEMMA LeavesFit ==
    ASSUME NEW u \in Docs(View), NEW l \in Leaves(u)
    PROVE  LeafFits(u, l)
<1>1. CASE u \in Models
  <2>1. StandsInModel(l, u)
    BY <1>1, LeavesOfModels
  <2>2. ASSUME NEW c \in ToSet(Extract[u].conds), l = Leaf("condition name", c, NoSite, NoSite) PROVE LeafFits(u, l)
    <3>1. c \in Sites
      BY <1>1, Extracted
    <3>2. l.at = c /\ l.role = "condition name"
      BY <2>2 DEF Leaf
    <3> QED BY <3>1, <3>2 DEF LeafFits, UseKinds
  <2>3. ASSUME NEW d \in ToSet(Extract[u].types), l = Leaf("type name", d.name, NoSite, NoSite) PROVE LeafFits(u, l)
    <3>1. d.name \in Sites
      BY <1>1, Extracted DEF DeclarationOK
    <3>2. l.at = d.name /\ l.role = "type name"
      BY <2>3 DEF Leaf
    <3> QED BY <3>1, <3>2 DEF LeafFits, UseKinds
  <2> QED BY <1>1, <2>1, <2>2, <2>3, RelationLeavesFit DEF StandsInModel
<1>2. CASE u \in Stores
  BY <1>2, EntryLeavesFit
<1>3. u \in Models \cup Stores
  BY DEF Leaves, Models, Stores, DocsOfKind
<1> QED BY <1>1, <1>2, <1>3

-------------------------------------------------------------------------------
(* The documents with the scope of u look names up alike.                      *)
SameLookups(x, u, w) ==
    /\ \A n : TypeDecls(x, w, n) = TypeDecls(x, u, n)
    /\ \A o, n : RelationDecls(x, w, o, n) = RelationDecls(x, u, o, n)
    /\ \A n : ConditionDecls(x, w, n) = ConditionDecls(x, u, n)
    /\ \A o, n : TuplesetTargets(x, w, o, n) = TuplesetTargets(x, u, o, n)

(* Documents of the same scope look every name up in the same documents.     *)
LEMMA ScopesLookAlike ==
    ASSUME NEW x, NEW u \in Docs(View), NEW w \in SameScope(u)
    PROVE  SameLookups(x, u, w)
<1>1. w \in Docs(View) /\ ToSet(Scope[w]) = ToSet(Scope[u])
  BY Scopes DEF SameScope
<1>2. ToSet(TypesIn[w]) = ToSet(TypesIn[u])
  BY <1>1, TypesOfScope
<1>3. RelationsIn[w] = RelationsIn[u]
  BY <1>1, <1>2 DEF RelationsIn
<1>4. ConditionsIn[w] = ConditionsIn[u]
  BY <1>1 DEF ConditionsIn
<1>5. \A o, n : RelationDecls(x, w, o, n) = RelationDecls(x, u, o, n)
  BY <1>3 DEF RelationDecls
<1> QED BY <1>2, <1>4, <1>5 DEF SameLookups, TypeDecls, ConditionDecls, TuplesetTargets

(* What a rename reaches: the models of the scope, and every document with the *)
(* same scope.                                                                 *)
LEMMA Reached ==
    ASSUME NEW x, NEW u \in Docs(View), NEW t, t.kind \in {"type", "relation", "condition"}, Declarations(x, u, t) # {}
    PROVE  /\ ToSet(Scope[u]) \subseteq Docs(View) \cap RelatedDocuments(u)
           /\ SameScope(u) \subseteq Docs(View) \cap RelatedDocuments(u)
<1>1. ToSet(Scope[u]) \subseteq Docs(View) \cap RelatedDocuments(u)
  BY Scopes DEF RelatedDocuments
<1>2. ToSet(Scope[u]) # {}
  <2> SUFFICES ASSUME ToSet(Scope[u]) = {} PROVE Declarations(x, u, t) = {}
    OBVIOUS
  <2>1. ToSet(TypesIn[u]) = {}
    BY TypesOfScope
  <2>2. RelationsIn[u] = {} /\ ConditionsIn[u] = {}
    BY <2>1 DEF RelationsIn, ConditionsIn
  <2>3. /\ \A n : TypeDecls(x, u, n) = {} /\ ConditionDecls(x, u, n) = {}
        /\ \A o, n : RelationDecls(x, u, o, n) = {}
    BY <2>1, <2>2 DEF TypeDecls, RelationDecls, ConditionDecls
  <2>4. CASE t.kind = "type"
    BY <2>3, <2>4 DEF Declarations
  <2>5. CASE t.kind = "relation"
    BY <2>3, <2>5 DEF Declarations
  <2>6. CASE t.kind = "condition"
    BY <2>3, <2>6 DEF Declarations
  <2> QED BY <2>4, <2>5, <2>6
<1>3. ASSUME NEW w \in SameScope(u) PROVE w \in Docs(View) \cap RelatedDocuments(u)
  <2>1. w \in Docs(View) /\ ToSet(Scope[w]) = ToSet(Scope[u])
    BY Scopes DEF SameScope
  <2>2. CASE w \in Models
    BY <2>1, <2>2, Scopes DEF RelatedDocuments
  <2>3. CASE w \in Stores
    BY <2>1, <2>3, <1>2 DEF RelatedDocuments
  <2> QED BY <2>2, <2>3 DEF SameScope
<1> QED BY <1>1, <1>3

(* A rename changes the name at a leaf exactly if its symbol matches.          *)
LEMMA AtLeaf ==
    ASSUME NEW x, NEW y, NEW u, NEW t, NEW new, Renamed(x, y, u, t, new),
           NEW w \in Docs(View) \cap RelatedDocuments(u), NEW l \in Leaves(w)
    PROVE  y[l.at] = IF l.role # "tupleset" /\ Matches(SymbolAt(x, w, l), t) THEN new ELSE x[l.at]
<1> DEFINE edited == Places(ReferencesTo(AllSymbols(x), u, t))
           match(v, k) == k.role # "tupleset" /\ Matches(SymbolAt(x, v, k), t)
<1>1. l.at \in Sites
  BY LeavesFit DEF LeafFits
<1>2. y[l.at] = IF l.at \in edited THEN new ELSE x[l.at]
  BY <1>1 DEF Renamed
<1>3. l.at \in edited <=> \E v \in Docs(View) \cap RelatedDocuments(u) : \E k \in Leaves(v) : match(v, k) /\ k.at = l.at
  <2>1. t.kind # "file"
    BY DEF Renamed
  <2> QED BY <2>1, PlacesListed
<1>4. ASSUME NEW v \in Docs(View), NEW k \in Leaves(v), k.at = l.at PROVE v = w /\ k = l
  BY <1>4, OneLeafPerSite
<1>5. l.at \in edited <=> match(w, l)
  <2> HIDE DEF edited, match
  <2> QED BY <1>3, <1>4
<1> QED BY <1>2, <1>5

(* ... that is, the name of a type or a condition if it is the renamed one,    *)
(* that of a relation if it also belongs to a type of the renamed one, and     *)
(* nothing right of `from`.                                                    *)
LeafAfter(x, y, w, l, t, new) ==
    /\ KindAt(l.role) # "relation" => y[l.at] = NameAfter(t, new, KindAt(l.role), x[l.at])
    /\ l.role = "tupleset" => y[l.at] = x[l.at]
    /\ \A o : (KindAt(l.role) = "relation" /\ l.role # "tupleset" /\ OwnersAt(x, w, l) = {o})
                 => y[l.at] = RelationAfter(t, new, o, x[l.at])

(* ... as this says for every leaf.                                            *)
LEMMA NameAtLeaf ==
    ASSUME NEW x, NEW y, NEW u, NEW t, NEW new, Renamed(x, y, u, t, new),
           NEW w \in Docs(View) \cap RelatedDocuments(u), NEW l \in Leaves(w)
    PROVE  LeafAfter(x, y, w, l, t, new)
<1> DEFINE s == SymbolAt(x, w, l)
<1>1. y[l.at] = IF l.role # "tupleset" /\ Matches(s, t) THEN new ELSE x[l.at]
  BY AtLeaf
<1>2. s.kind = KindAt(l.role) /\ s.name = x[l.at] /\ s.owners = OwnersAt(x, w, l)
  BY DEF SymbolAt, Target
<1>3. l.role = "tupleset" => KindAt(l.role) = "relation"
  BY DEF KindAt
<1>4. t.kind = "relation" => t.owners # {}
  BY DEF Renamed, Declarations
<1> HIDE DEF s
<1>5. ASSUME KindAt(l.role) # "relation" PROVE y[l.at] = NameAfter(t, new, KindAt(l.role), x[l.at])
  <2>1. Matches(s, t) <=> t.kind = KindAt(l.role) /\ x[l.at] = t.name
    BY <1>2, <1>5 DEF Matches
  <2>2. l.role # "tupleset"
    BY <1>3, <1>5
  <2> QED BY <1>1, <2>1, <2>2 DEF NameAfter
<1>6. ASSUME NEW o, KindAt(l.role) = "relation", l.role # "tupleset", OwnersAt(x, w, l) = {o}
      PROVE  y[l.at] = RelationAfter(t, new, o, x[l.at])
  <2>1. Matches(s, t) <=> t.kind = "relation" /\ x[l.at] = t.name /\ o \in t.owners
    BY <1>2, <1>4, <1>6 DEF Matches
  <2> QED BY <1>1, <1>6, <2>1 DEF RelationAfter
<1> QED BY <1>1, <1>5, <1>6 DEF LeafAfter

-------------------------------------------------------------------------------
(* What becomes of the names of the scope.                                     *)
ScopeAfter(x, y, u, t, new) ==
    /\ \A d \in ToSet(TypesIn[u]) : y[d.name] = NameAfter(t, new, "type", x[d.name])
    /\ \A c \in ConditionsIn[u] : y[c] = NameAfter(t, new, "condition", x[c])
    /\ \A e \in RelationsIn[u] :
          /\ y[e.type] = NameAfter(t, new, "type", x[e.type])
          /\ y[e.rel.name] = RelationAfter(t, new, x[e.type], x[e.rel.name])
          /\ \A ref \in e.rel.refs : ref.kind = "type" => y[ref.at] = NameAfter(t, new, "type", x[ref.at])

(* A rename writes the new name in the place of the old one in all the scope. *)
LEMMA NamesOfScope ==
    ASSUME NEW x, NEW y, NEW u, NEW t, NEW new, Renamed(x, y, u, t, new)
    PROVE  ScopeAfter(x, y, u, t, new)
<1>1. u \in Docs(View) /\ ToSet(Scope[u]) \subseteq Docs(View) \cap RelatedDocuments(u)
  BY Reached DEF Renamed
<1>2. ASSUME NEW s, NEW v \in ToSet(Scope[u]), NEW role \in {"type name", "type"},
             NEW type, NEW by, Leaf(role, s, type, by) \in Leaves(v)
      PROVE  y[s] = NameAfter(t, new, "type", x[s])
  <2> DEFINE l == Leaf(role, s, type, by)
  <2>1. l.role = role /\ l.at = s
    BY DEF Leaf
  <2>2. KindAt(l.role) = "type"
    BY <2>1 DEF KindAt
  <2>3. l \in Leaves(v) /\ v \in Docs(View) \cap RelatedDocuments(u)
    BY <1>1, <1>2
  <2> HIDE DEF l
  <2>4. LeafAfter(x, y, v, l, t, new)
    BY <2>3, NameAtLeaf
  <2> QED BY <2>1, <2>2, <2>4 DEF LeafAfter
<1>3. ASSUME NEW d \in ToSet(TypesIn[u]) PROVE y[d.name] = NameAfter(t, new, "type", x[d.name])
  BY <1>1, <1>2, TypesHaveLeaves
<1>4. ASSUME NEW c \in ConditionsIn[u] PROVE y[c] = NameAfter(t, new, "condition", x[c])
  <2> DEFINE l == Leaf("condition name", c, NoSite, NoSite)
  <2>1. PICK v \in ToSet(Scope[u]) : l \in Leaves(v)
    BY <1>1, ConditionsHaveLeaves
  <2>2. l.role = "condition name" /\ l.at = c
    BY DEF Leaf
  <2>3. KindAt(l.role) = "condition"
    BY <2>2 DEF KindAt
  <2>4. v \in Docs(View) \cap RelatedDocuments(u)
    BY <1>1
  <2> HIDE DEF l
  <2>5. LeafAfter(x, y, v, l, t, new)
    BY <2>1, <2>4, NameAtLeaf
  <2> QED BY <2>2, <2>3, <2>5 DEF LeafAfter
<1>5. ASSUME NEW e \in RelationsIn[u]
      PROVE  /\ y[e.type] = NameAfter(t, new, "type", x[e.type])
             /\ y[e.rel.name] = RelationAfter(t, new, x[e.type], x[e.rel.name])
             /\ \A ref \in e.rel.refs : ref.kind = "type" => y[ref.at] = NameAfter(t, new, "type", x[ref.at])
  <2>1. PICK v \in ToSet(Scope[u]) :
            /\ Leaf("type name", e.type, NoSite, NoSite) \in Leaves(v)
            /\ Leaf("relation", e.rel.name, e.type, NoSite) \in Leaves(v)
            /\ \A ref \in e.rel.refs : Leaf(ref.kind, ref.at, e.type, ref.by) \in Leaves(v)
    BY <1>1, RelationsHaveLeaves
  <2>2. y[e.type] = NameAfter(t, new, "type", x[e.type])
    BY <1>2, <2>1
  <2>3. y[e.rel.name] = RelationAfter(t, new, x[e.type], x[e.rel.name])
    <3> DEFINE l == Leaf("relation", e.rel.name, e.type, NoSite)
    <3>1. l.role = "relation" /\ l.at = e.rel.name /\ l.type = e.type
      BY DEF Leaf
    <3>2. KindAt(l.role) = "relation"
      BY <3>1 DEF KindAt
    <3>3. OwnersAt(x, v, l) = {x[e.type]}
      BY <3>1 DEF OwnersAt
    <3>4. l \in Leaves(v) /\ v \in Docs(View) \cap RelatedDocuments(u)
      BY <1>1, <2>1
    <3> HIDE DEF l
    <3>5. LeafAfter(x, y, v, l, t, new)
      BY <3>4, NameAtLeaf
    <3> QED BY <3>1, <3>2, <3>3, <3>5 DEF LeafAfter
  <2>4. ASSUME NEW ref \in e.rel.refs, ref.kind = "type" PROVE y[ref.at] = NameAfter(t, new, "type", x[ref.at])
    <3>1. Leaf("type", ref.at, e.type, ref.by) \in Leaves(v)
      BY <2>1, <2>4
    <3> QED BY <1>2, <3>1
  <2> QED BY <2>2, <2>3, <2>4
<1> QED BY <1>3, <1>4, <1>5 DEF ScopeAfter

-------------------------------------------------------------------------------
(* No two names become one, unless one of them was the new name before.        *)
LEMMA NamesStayApart ==
    ASSUME NEW t, NEW new, NEW kind, NEW a, NEW b, t.kind = kind => a # new /\ b # new
    PROVE  NameAfter(t, new, kind, a) = NameAfter(t, new, kind, b) <=> a = b
  BY DEF NameAfter

(* The same of the relations of a type.                                        *)
LEMMA RelationsStayApart ==
    ASSUME NEW t, NEW new, NEW o, NEW a, NEW b, (t.kind = "relation" /\ o \in t.owners) => a # new /\ b # new
    PROVE  RelationAfter(t, new, o, a) = RelationAfter(t, new, o, b) <=> a = b
  BY DEF RelationAfter

(* A name that was declared leads to the same declarations by what became of   *)
(* it, and a tupleset to what became of its targets.                           *)
LookupsAfter(x, y, u, t, new) ==
    /\ \A n : TypeDecls(x, u, n) # {} => TypeDecls(y, u, NameAfter(t, new, "type", n)) = TypeDecls(x, u, n)
    /\ \A n : ConditionDecls(x, u, n) # {} =>
                  ConditionDecls(y, u, NameAfter(t, new, "condition", n)) = ConditionDecls(x, u, n)
    /\ \A o, n : RelationDecls(x, u, o, n) # {} =>
                  /\ RelationDecls(y, u, NameAfter(t, new, "type", o), RelationAfter(t, new, o, n)) = RelationDecls(x, u, o, n)
                  /\ TuplesetTargets(y, u, NameAfter(t, new, "type", o), RelationAfter(t, new, o, n))
                        = {NameAfter(t, new, "type", a) : a \in TuplesetTargets(x, u, o, n)}

(* A rename is refused if the new name exists: what is declared is not new.    *)
LEMMA NewNameIsFree ==
    ASSUME NEW x, NEW y, NEW u, NEW t, NEW new, Renamed(x, y, u, t, new)
    PROVE  /\ t.kind = "type" => TypeDecls(x, u, new) = {}
           /\ t.kind = "condition" => ConditionDecls(x, u, new) = {}
           /\ t.kind = "relation" => \A o \in t.owners : RelationDecls(x, u, o, new) = {}
<1>1. ~ExistingName(x, u, t, new)
  BY DEF Renamed
<1>2. ASSUME t.kind = "type" PROVE TypeDecls(x, u, new) = {}
  BY <1>1, <1>2, Known DEF ExistingName
<1>3. ASSUME t.kind = "condition" PROVE ConditionDecls(x, u, new) = {}
  BY <1>1, <1>3 DEF ExistingName
<1>4. ASSUME t.kind = "relation", NEW o \in t.owners PROVE RelationDecls(x, u, o, new) = {}
  BY <1>1, <1>4, Known DEF ExistingName
<1> QED BY <1>2, <1>3, <1>4

(* The relations of a scope belong to types of the scope.                      *)
LEMMA RelationsHaveTypes ==
    ASSUME NEW u \in Docs(View), NEW e \in RelationsIn[u]
    PROVE  \E d \in ToSet(TypesIn[u]) : d.name = e.type
  BY DEF RelationsIn

(* Rename leaves every lookup in the scope as it was.                          *)
LEMMA LookupsKept ==
    ASSUME NEW x, NEW y, NEW u, NEW t, NEW new, Renamed(x, y, u, t, new)
    PROVE  LookupsAfter(x, y, u, t, new)
<1> DEFINE type(n) == NameAfter(t, new, "type", n)
           condition(n) == NameAfter(t, new, "condition", n)
           relation(o, n) == RelationAfter(t, new, o, n)
<1>1. u \in Docs(View) /\ ScopeAfter(x, y, u, t, new)
  BY NamesOfScope DEF Renamed
<1>2. ASSUME NEW n, NEW m, TypeDecls(x, u, n) # {}, TypeDecls(x, u, m) # {} PROVE type(n) = type(m) <=> n = m
  <2>1. t.kind = "type" => n # new /\ m # new
    BY <1>2, NewNameIsFree
  <2> QED BY <2>1, NamesStayApart
<1>3. ASSUME NEW n, TypeDecls(x, u, n) # {} PROVE TypeDecls(y, u, type(n)) = TypeDecls(x, u, n)
  <2>1. ASSUME NEW d \in ToSet(TypesIn[u]) PROVE y[d.name] = type(n) <=> x[d.name] = n
    <3> DEFINE m == x[d.name]
    <3>1. y[d.name] = type(m)
      BY <1>1 DEF ScopeAfter
    <3>2. d \in TypeDecls(x, u, m)
      BY DEF TypeDecls
    <3>3. type(n) = type(m) <=> n = m
      <4> HIDE DEF type, m
      <4> QED BY <1>2, <1>3, <3>2
    <3> HIDE DEF type
    <3> QED BY <3>1, <3>3
  <2> HIDE DEF type
  <2> QED BY <2>1 DEF TypeDecls
<1>4. ASSUME NEW n, ConditionDecls(x, u, n) # {} PROVE ConditionDecls(y, u, condition(n)) = ConditionDecls(x, u, n)
  <2>1. ASSUME NEW c \in ConditionsIn[u] PROVE y[c] = condition(n) <=> x[c] = n
    <3> DEFINE m == x[c]
    <3>1. y[c] = condition(m)
      BY <1>1 DEF ScopeAfter
    <3>2. c \in ConditionDecls(x, u, m)
      BY DEF ConditionDecls
    <3>3. t.kind = "condition" => n # new /\ m # new
      <4> HIDE DEF m
      <4> QED BY <1>4, <3>2, NewNameIsFree
    <3>4. condition(n) = condition(m) <=> n = m
      <4> HIDE DEF m
      <4> QED BY <3>3, NamesStayApart
    <3> HIDE DEF condition
    <3> QED BY <3>1, <3>4
  <2> HIDE DEF condition
  <2> QED BY <2>1 DEF ConditionDecls
<1>5. ASSUME NEW e \in RelationsIn[u] PROVE TypeDecls(x, u, x[e.type]) # {}
  <2>1. PICK d \in ToSet(TypesIn[u]) : d.name = e.type
    BY <1>1, RelationsHaveTypes
  <2> QED BY <2>1 DEF TypeDecls
<1>6. ASSUME NEW o, NEW n, RelationDecls(x, u, o, n) # {} PROVE TypeDecls(x, u, o) # {}
  <2>1. PICK e \in RelationsIn[u] : x[e.type] = o
    BY <1>6 DEF RelationDecls
  <2> QED BY <1>5, <2>1
<1>7. ASSUME NEW o, NEW n, NEW m, RelationDecls(x, u, o, n) # {}, RelationDecls(x, u, o, m) # {}
      PROVE  relation(o, n) = relation(o, m) <=> n = m
  <2>1. (t.kind = "relation" /\ o \in t.owners) => n # new /\ m # new
    BY <1>7, NewNameIsFree
  <2> QED BY <2>1, RelationsStayApart
<1>8. ASSUME NEW o, NEW n, RelationDecls(x, u, o, n) # {}
      PROVE  RelationDecls(y, u, type(o), relation(o, n)) = RelationDecls(x, u, o, n)
  <2>1. ASSUME NEW e \in RelationsIn[u]
        PROVE  (y[e.type] = type(o) /\ y[e.rel.name] = relation(o, n)) <=> (x[e.type] = o /\ x[e.rel.name] = n)
    <3> DEFINE q == x[e.type]
               m == x[e.rel.name]
    <3>1. y[e.type] = type(q) /\ y[e.rel.name] = relation(q, m)
      BY <1>1 DEF ScopeAfter
    <3>2. e.rel \in RelationDecls(x, u, q, m)
      BY DEF RelationDecls
    <3>3. type(q) = type(o) <=> q = o
      <4> HIDE DEF type, q, m
      <4> QED BY <1>2, <1>6, <1>8, <3>2
    <3>4. q = o => (relation(o, m) = relation(o, n) <=> m = n)
      <4> HIDE DEF relation, q, m
      <4> QED BY <1>7, <1>8, <3>2
    <3> HIDE DEF type, relation
    <3> QED BY <3>1, <3>3, <3>4
  <2> HIDE DEF type, relation
  <2> QED BY <2>1 DEF RelationDecls
<1>9. ASSUME NEW o, NEW n, RelationDecls(x, u, o, n) # {}
      PROVE  TuplesetTargets(y, u, type(o), relation(o, n)) = {type(a) : a \in TuplesetTargets(x, u, o, n)}
  <2>1. ASSUME NEW r \in RelationDecls(x, u, o, n), NEW ref \in r.refs, ref.kind = "type" PROVE y[ref.at] = type(x[ref.at])
    <3>1. PICK e \in RelationsIn[u] : e.rel = r
      BY DEF RelationDecls
    <3> QED BY <1>1, <2>1, <3>1 DEF ScopeAfter
  <2>2. RelationDecls(y, u, type(o), relation(o, n)) = RelationDecls(x, u, o, n)
    BY <1>8, <1>9
  <2> DEFINE R == RelationDecls(x, u, o, n)
             refs(r) == {ref \in r.refs : ref.kind = "type"}
             p == type(o)
             q == relation(o, n)
  <2>3. TuplesetTargets(x, u, o, n) = UNION {{x[ref.at] : ref \in refs(r)} : r \in R}
    BY DEF TuplesetTargets
  <2>4. TuplesetTargets(y, u, p, q) = UNION {{y[ref.at] : ref \in refs(r)} : r \in R}
    <3>1. RelationDecls(y, u, p, q) = R
      BY <2>2
    <3> HIDE DEF R, p, q
    <3> QED BY <3>1 DEF TuplesetTargets
  <2>5. ASSUME NEW r \in R, NEW ref \in refs(r) PROVE y[ref.at] = type(x[ref.at])
    BY <2>1
  <2>6. ASSUME NEW b PROVE b \in TuplesetTargets(x, u, o, n) <=> \E r \in R : \E ref \in refs(r) : b = x[ref.at]
    <3> HIDE DEF R, refs
    <3> QED BY <2>3
  <2>7. ASSUME NEW b PROVE b \in TuplesetTargets(y, u, p, q) <=> \E r \in R : \E ref \in refs(r) : b = y[ref.at]
    <3> HIDE DEF R, refs, p, q
    <3> QED BY <2>4
  <2>8. TuplesetTargets(y, u, p, q) = {type(a) : a \in TuplesetTargets(x, u, o, n)}
    <3> HIDE DEF R, refs, p, q, type
    <3> QED BY <2>5, <2>6, <2>7
  <2> QED BY <2>8
<1> QED BY <1>3, <1>4, <1>8, <1>9 DEF LookupsAfter

-------------------------------------------------------------------------------
(* The leaves of a document with the scope of u, after the rename.             *)
LEMMA LeavesAfter ==
    ASSUME NEW x, NEW y, NEW u, NEW t, NEW new, Renamed(x, y, u, t, new),
           NEW w \in SameScope(u), NEW l \in Leaves(w)
    PROVE  LeafAfter(x, y, w, l, t, new)
<1>1. w \in Docs(View) \cap RelatedDocuments(u)
  BY Reached DEF Renamed
<1> QED BY <1>1, NameAtLeaf

(* What stands right of `from` in a document.                                  *)
LEMMA TuplesetsAtLeaves ==
    ASSUME NEW x, NEW w \in Models, NEW k \in Leaves(w), k.role = "tupleset"
    PROVE  [type |-> x[k.type], at |-> k.at] \in TuplesetUses(x, w)
<1>1. PICK d \in ToSet(Extract[w].types) :
          \/ k = Leaf("type name", d.name, NoSite, NoSite)
          \/ \E r \in ToSet(d.relations) : StandsIn(k, d, r)
  BY DeclaredAt
<1>2. k # Leaf("type name", d.name, NoSite, NoSite)
  <2>1. Leaf("type name", d.name, NoSite, NoSite).role = "type name"
    BY DEF Leaf
  <2> QED BY <2>1
<1>3. PICK r \in ToSet(d.relations) : StandsIn(k, d, r)
  BY <1>1, <1>2
<1>4. k # Leaf("relation", r.name, d.name, NoSite)
  <2>1. Leaf("relation", r.name, d.name, NoSite).role = "relation"
    BY DEF Leaf
  <2> QED BY <2>1
<1>5. PICK ref \in r.refs : k = Leaf(ref.kind, ref.at, d.name, ref.by)
  BY <1>3, <1>4 DEF StandsIn
<1>6. ref.kind = "tupleset" /\ k.at = ref.at /\ k.type = d.name
  BY <1>5 DEF Leaf
<1> QED BY <1>6 DEF TuplesetUses

(* A relation that belongs to one type belongs to what became of this type,    *)
(* unless the tupleset it is reached by is the renamed relation.               *)
LEMMA OwnersAfter ==
    ASSUME NEW x, NEW y, NEW u, NEW t, NEW new, Renamed(x, y, u, t, new), ~UsedAsTupleset(x, u, t),
           NEW w \in SameScope(u), NEW l \in Leaves(w), NEW o, OwnersAt(x, w, l) = {o}
    PROVE  OwnersAt(y, w, l) = {NameAfter(t, new, "type", o)}
<1> DEFINE type(n) == NameAfter(t, new, "type", n)
<1>1. u \in Docs(View) /\ w \in Docs(View)
  BY Scopes DEF Renamed, SameScope
<1>2. LeafFits(w, l)
  BY <1>1, LeavesFit
<1>3. ASSUME NEW k \in Leaves(w), k.role \in {"type name", "type", "entry type"} PROVE y[k.at] = type(x[k.at])
  <2>1. LeafAfter(x, y, w, k, t, new)
    BY LeavesAfter
  <2>2. KindAt(k.role) = "type"
    BY <1>3 DEF KindAt
  <2> QED BY <2>1, <2>2 DEF LeafAfter
<1>4. ASSUME l.role \in {"relation"} \cup UseKinds PROVE w \in Models /\ y[l.type] = type(x[l.type])
  <2> DEFINE k == Leaf("type name", l.type, NoSite, NoSite)
  <2>1. w \in Models /\ k \in Leaves(w)
    BY <1>2, <1>4 DEF LeafFits
  <2>2. k.role = "type name" /\ k.at = l.type
    BY DEF Leaf
  <2> HIDE DEF k, type
  <2> QED BY <1>3, <2>1, <2>2
<1>5. CASE l.role \in {"relation", "relation on self"}
  <2>1. o = x[l.type]
    BY <1>5 DEF OwnersAt
  <2>2. OwnersAt(y, w, l) = {y[l.type]}
    BY <1>5 DEF OwnersAt
  <2> QED BY <1>4, <1>5, <2>1, <2>2 DEF UseKinds
<1>6. CASE l.role = "relation on type"
  <2>1. o = x[l.by]
    BY <1>6 DEF OwnersAt
  <2>2. OwnersAt(y, w, l) = {y[l.by]}
    BY <1>6 DEF OwnersAt
  <2>3. PICK k \in Leaves(w) : k.role = "type" /\ k.at = l.by
    BY <1>2, <1>6 DEF LeafFits
  <2> QED BY <1>3, <2>1, <2>2, <2>3
<1>7. CASE l.role = "entry relation"
  <2>1. l.by # NoSite /\ o = x[l.by]
    BY <1>7 DEF OwnersAt
  <2>2. OwnersAt(y, w, l) = {y[l.by]}
    BY <1>7, <2>1 DEF OwnersAt
  <2>3. PICK k \in Leaves(w) : k.role = "entry type" /\ k.at = l.by
    BY <1>2, <1>7, <2>1 DEF LeafFits
  <2> QED BY <1>3, <2>1, <2>2, <2>3
<1>8. CASE l.role = "relation via tupleset"
  <2> DEFINE a == x[l.type]
             n == x[l.by]
  <2>1. TuplesetTargets(x, w, a, n) = {o} /\ OwnersAt(y, w, l) = TuplesetTargets(y, w, y[l.type], y[l.by])
    BY <1>8 DEF OwnersAt
  <2>2. PICK k \in Leaves(w) : k.role = "tupleset" /\ k.at = l.by /\ k.type = l.type
    BY <1>2, <1>8 DEF LeafFits
  <2>3. w \in Models /\ y[l.type] = type(a)
    BY <1>4, <1>8 DEF UseKinds
  <2>4. y[l.by] = n
    <3>1. LeafAfter(x, y, w, k, t, new)
      BY LeavesAfter
    <3> QED BY <2>2, <3>1 DEF LeafAfter
  <2>5. RelationAfter(t, new, a, n) = n
    <3>1. [type |-> a, at |-> l.by] \in TuplesetUses(x, w)
      BY <2>2, <2>3, TuplesetsAtLeaves
    <3> DEFINE use == [type |-> a, at |-> l.by]
    <3>2. use \in TuplesetUses(x, w) /\ use.type = a /\ x[use.at] = n
      BY <3>1
    <3>3. ~(t.kind = "relation" /\ a \in t.owners /\ n = t.name)
      <4> HIDE DEF use, a, n
      <4> QED BY <2>3, <3>2 DEF UsedAsTupleset
    <3> HIDE DEF a, n
    <3> QED BY <3>3 DEF RelationAfter
  <2>6. SameLookups(x, u, w) /\ SameLookups(y, u, w)
    BY <1>1, ScopesLookAlike
  <2>7. RelationDecls(x, u, a, n) # {}
    <3>1. TuplesetTargets(x, u, a, n) # {}
      BY <2>1, <2>6 DEF SameLookups
    <3> HIDE DEF a, n
    <3> QED BY <3>1 DEF TuplesetTargets
  <2>8. TuplesetTargets(y, u, type(a), n) = {type(b) : b \in TuplesetTargets(x, u, a, n)}
    <3>1. LookupsAfter(x, y, u, t, new)
      BY LookupsKept
    <3> HIDE DEF a, n
    <3> QED BY <2>5, <2>7, <3>1 DEF LookupsAfter
  <2>9. TuplesetTargets(y, w, type(a), n) = {type(b) : b \in TuplesetTargets(x, w, a, n)}
    <3> HIDE DEF a, n, type
    <3> QED BY <2>6, <2>8 DEF SameLookups
  <2> HIDE DEF a, n, type
  <2>10. OwnersAt(y, w, l) = {type(b) : b \in {o}}
    BY <2>1, <2>3, <2>4, <2>9
  <2> QED BY <2>10 DEF type
<1>9. l.role \in {"relation", "relation on self", "relation on type", "relation via tupleset", "entry relation"}
  BY DEF OwnersAt
<1> QED BY <1>5, <1>6, <1>7, <1>8, <1>9

(* A name that was bound is bound to the same declarations.                    *)
StaysBound(x, y, w, s) ==
    LET bound == Declarations(x, w, s)
    IN  bound # {} => \E now \in Symbols(y, w) : now.at = s.at /\ Declarations(y, w, now) = bound

(* A rename that is not of a tupleset keeps what a symbol is bound to.       *)
LEMMA RenamedStaysBound ==
    ASSUME NEW x, NEW y, NEW u, NEW t, NEW new, Renamed(x, y, u, t, new), ~UsedAsTupleset(x, u, t),
           NEW w \in SameScope(u), NEW s \in Symbols(x, w),
           s.kind = "relation" => \E o \in s.owners : s.owners = {o}
    PROVE  StaysBound(x, y, w, s)
<1> SUFFICES ASSUME Declarations(x, w, s) # {}
             PROVE  \E now \in Symbols(y, w) : now.at = s.at /\ Declarations(y, w, now) = Declarations(x, w, s)
  BY DEF StaysBound
<1>1. u \in Docs(View) /\ w \in Docs(View)
  BY Scopes DEF Renamed, SameScope
<1>2. CASE s.kind = "file"
  <2>1. s \in Symbols(y, w)
    BY <1>1, <1>2, SymbolsAtLeaves
  <2>2. Declarations(y, w, s) = Declarations(x, w, s)
    BY <1>2 DEF Declarations
  <2> QED BY <2>1, <2>2
<1>3. CASE s.kind # "file"
  <2>1. PICK l \in Leaves(w) : Stands(s, x, w, l)
    BY <1>1, <1>3, SymbolsAtLeaves
  <2> DEFINE now == SymbolAt(y, w, l)
             n == x[l.at]
  <2>2. now \in Symbols(y, w)
    <3>1. Stands(now, y, w, l)
      BY <2>1 DEF Stands
    <3> HIDE DEF now
    <3> QED BY <1>1, <3>1, SymbolsAtLeaves
  <2>3. /\ s.kind = KindAt(l.role) /\ s.name = n /\ s.owners = OwnersAt(x, w, l) /\ s.at = l.at
        /\ now.kind = KindAt(l.role) /\ now.name = y[l.at] /\ now.owners = OwnersAt(y, w, l) /\ now.at = l.at
        /\ l.role # "tupleset"
    BY <2>1 DEF Stands, SymbolAt, Target
  <2>4. LeafAfter(x, y, w, l, t, new)
    BY LeavesAfter
  <2>5. LookupsAfter(x, y, u, t, new)
    BY LookupsKept
  <2>6. SameLookups(x, u, w) /\ SameLookups(y, u, w)
    BY <1>1, ScopesLookAlike
  <2> HIDE DEF now, n
  <2>7. CASE KindAt(l.role) = "type"
    <3>1. now.name = NameAfter(t, new, "type", n)
      BY <2>3, <2>4, <2>7 DEF LeafAfter, n
    <3>2. Declarations(x, w, s) = {d.name : d \in TypeDecls(x, w, n)}
      BY <2>3, <2>7 DEF Declarations
    <3>3. Declarations(y, w, now) = {d.name : d \in TypeDecls(y, w, now.name)}
      BY <2>3, <2>7 DEF Declarations
    <3>4. TypeDecls(x, u, n) # {} /\ TypeDecls(x, w, n) = TypeDecls(x, u, n)
      BY <2>6, <3>2 DEF SameLookups
    <3>5. TypeDecls(y, w, now.name) = TypeDecls(x, w, n)
      BY <2>5, <2>6, <3>1, <3>4 DEF SameLookups, LookupsAfter
    <3> QED BY <2>2, <2>3, <3>2, <3>3, <3>5
  <2>8. CASE KindAt(l.role) = "condition"
    <3>1. now.name = NameAfter(t, new, "condition", n)
      BY <2>3, <2>4, <2>8 DEF LeafAfter, n
    <3>2. Declarations(x, w, s) = ConditionDecls(x, w, n) /\ Declarations(y, w, now) = ConditionDecls(y, w, now.name)
      BY <2>3, <2>8 DEF Declarations
    <3>3. ConditionDecls(x, u, n) # {} /\ ConditionDecls(x, w, n) = ConditionDecls(x, u, n)
      BY <2>6, <3>2 DEF SameLookups
    <3>4. ConditionDecls(y, w, now.name) = ConditionDecls(x, w, n)
      BY <2>5, <2>6, <3>1, <3>3 DEF SameLookups, LookupsAfter
    <3> QED BY <2>2, <2>3, <3>2, <3>4
  <2>9. CASE KindAt(l.role) = "relation"
    <3>1. PICK o : s.owners = {o}
      BY <2>3, <2>9
    <3> DEFINE p == NameAfter(t, new, "type", o)
               q == RelationAfter(t, new, o, n)
    <3>2. now.owners = {p}
      <4>1. OwnersAt(x, w, l) = {o}
        BY <2>3, <3>1
      <4>2. OwnersAt(y, w, l) = {p}
        BY <4>1, OwnersAfter
      <4> QED BY <2>3, <4>2
    <3>3. now.name = q
      BY <2>3, <2>4, <2>9, <3>1 DEF LeafAfter, n
    <3> HIDE DEF p, q
    <3>4. Declarations(x, w, s) = {r.name : r \in RelationDecls(x, w, o, n)}
      BY <2>3, <2>9, <3>1 DEF Declarations
    <3>5. Declarations(y, w, now) = {r.name : r \in RelationDecls(y, w, p, q)}
      BY <2>3, <2>9, <3>2, <3>3 DEF Declarations
    <3>6. RelationDecls(x, u, o, n) # {} /\ RelationDecls(x, w, o, n) = RelationDecls(x, u, o, n)
      BY <2>6, <3>4 DEF SameLookups
    <3>7. RelationDecls(y, w, p, q) = RelationDecls(x, w, o, n)
      <4>1. RelationDecls(y, u, p, q) = RelationDecls(x, u, o, n)
        BY <2>5, <3>6 DEF LookupsAfter, p, q
      <4> QED BY <2>6, <3>6, <4>1 DEF SameLookups
    <3> QED BY <2>2, <2>3, <3>4, <3>5, <3>7
  <2>10. KindAt(l.role) \in {"type", "condition", "relation"}
    BY DEF KindAt
  <2> QED BY <2>7, <2>8, <2>9, <2>10
<1> QED BY <1>2, <1>3

(* What a step is that makes a rename.                                         *)
LEMMA RenamesAreRenamed ==
    ASSUME RenameTypeOK, [RenameNext]_vars, renames' > renames
    PROVE  Renamed(text, text', request'.from, request'.target, request'.to)
<1>1. renames \in Nat
  BY BoundsAssumption DEF RenameTypeOK
<1>2. PICK u \in Docs(View) : \E t \in {Denoting(s) : s \in Symbols(text, u)}, new \in NewNames :
          Rename(u, t, new, AllSymbols(text))
  <2>1. ~UNCHANGED vars
    BY <1>1 DEF vars
  <2>2. ASSUME NEW s, NEW name, TypeOver(s, name) PROVE FALSE
    BY <1>1, <2>2 DEF TypeOver
  <2> QED BY <2>1, <2>2 DEF RenameNext
<1>3. PICK t \in {Denoting(s) : s \in Symbols(text, u)}, new \in NewNames : Rename(u, t, new, AllSymbols(text))
  BY <1>2
<1>4. request'.from = u /\ request'.target = t /\ request'.to = new
  BY <1>3 DEF Rename
<1>5. t.kind \in {"type", "relation", "condition"}
  <2>1. PICK s \in Symbols(text, u) : t = Denoting(s)
    OBVIOUS
  <2>2. t.kind = s.kind /\ t.kind # "file"
    BY <1>3, <2>1 DEF Denoting, Target, Rename
  <2>3. PICK l \in Leaves(u) : Stands(s, text, u, l)
    BY <2>2, SymbolsAtLeaves
  <2> QED BY <2>2, <2>3 DEF Stands, SymbolAt, Target, KindAt
<1>6. Renamed(text, text', u, t, new)
  BY <1>3, <1>5 DEF Rename, Renamed
<1> QED BY <1>4, <1>6

(* Every rename leaves what the names of the scope denote as it was: whatever  *)
(* was bound to declarations is bound to the same ones afterwards, unless the  *)
(* renamed relation stands right of `from`, or the name may belong to several  *)
(* types.                                                                      *)
THEOREM BindingsAreKept == RenameSpec => RenameKeepsBindings
<1>1. ASSUME RenameTypeOK, [RenameNext]_vars, renames' > renames,
             ~UsedAsTupleset(text, request'.from, request'.target),
             NEW w \in SameScope(request'.from), NEW s \in Symbols(text, w),
             s.kind = "relation" => \E o \in s.owners : s.owners = {o}
      PROVE  StaysBound(text, text', w, s)
  <2> DEFINE u == request'.from
             t == request'.target
             new == request'.to
             x == text
             y == text'
  <2>1. Renamed(x, y, u, t, new) /\ ~UsedAsTupleset(x, u, t) /\ w \in SameScope(u) /\ s \in Symbols(x, w)
    BY <1>1, RenamesAreRenamed
  <2>2. StaysBound(x, y, w, s)
    <3> HIDE DEF u, t, new, x, y
    <3> QED BY <1>1, <2>1, RenamedStaysBound
  <2> QED BY <2>2
<1>2. RenameTypeOK /\ [RenameNext]_vars =>
        [ renames' > renames =>
          LET from == request'.from
              owned(s) == s.kind = "relation" => \E o \in s.owners : s.owners = {o}
          IN  ~UsedAsTupleset(text, from, request'.target) =>
              \A w \in SameScope(from) : \A s \in {s \in Symbols(text, w) : owned(s)} :
                  LET bound == Declarations(text, w, s)
                  IN  bound # {} => \E now \in Symbols(text', w) :
                          now.at = s.at /\ Declarations(text', w, now) = bound ]_vars
  BY <1>1 DEF StaysBound
<1> QED BY <1>2, TypeCorrect, PTL DEF RenameSpec, RenameKeepsBindings

-------------------------------------------------------------------------------
(* x becomes y by a rename among correct models that mistakes no name.         *)
Careful(x, y, u, t, new) ==
    /\ Renamed(x, y, u, t, new)
    /\ new \notin Refused
    /\ \A w \in SameScope(u) \cap Models : Correct(x, w)
    /\ ~UsedAsTupleset(x, u, t)
    /\ ~Mistaken(x, u, t, new)
    /\ \A s \in Sites : y[s] # NoSite

(* What a correct model is free of.                                            *)
CorrectRelation(x, w, d, r) ==
    /\ DuplicatePartials(x, r) = {}
    /\ DuplicateRestrictions(x, r) = {}
    /\ \A ref \in r.refs : ResolveRef(x, w, x[d.name], ref) = {}
CorrectType(x, w, d) ==
    /\ NameErrors(x, d) = {}
    /\ DuplicateRelations(x, d) = {}
    /\ \A r \in ToSet(d.relations) : CorrectRelation(x, w, d, r)
CorrectModel(x, w) ==
    /\ DuplicateTypes(x, w) = {}
    /\ UnusedConditions(x, w) = {}
    /\ \A d \in ToSet(Extract[w].types) : CorrectType(x, w, d)

(* A store test that storeDiagnostics goes on to look up names of.             *)
Readable(w) == ~Text(View, w).broken /\ ~Missing(w)

(* Correct, part by part.                                                      *)
LEMMA CorrectDocuments ==
    ASSUME NEW x, NEW w
    PROVE  /\ w \in Models => (Correct(x, w) <=> CorrectModel(x, w))
           /\ w \in Stores /\ Readable(w) =>
                (Correct(x, w) <=> Checked[w] = <<>> \/ \A e \in ToSet(Tests[w]) : EntryErrors(x, w, e) = {})
           /\ w \in Stores => (Correct(x, w) => Readable(w))
<1>1. ASSUME w \in Models PROVE Correct(x, w) <=> CorrectModel(x, w)
  <2> DEFINE types == ToSet(Extract[w].types)
             of(d, r) == RelationErrors(x, w, x[d.name], r)
             all(d) == NameErrors(x, d) \cup DuplicateRelations(x, d) \cup UNION {of(d, r) : r \in ToSet(d.relations)}
  <2>1. Correct(x, w) <=> ModelErrors(x, w) = {}
    BY <1>1 DEF Correct, Models, DocsOfKind
  <2>2. ModelErrors(x, w) = DuplicateTypes(x, w) \cup UnusedConditions(x, w) \cup UNION {all(d) : d \in types}
    BY DEF ModelErrors
  <2>3. ASSUME NEW d, NEW r PROVE of(d, r) = {} <=> CorrectRelation(x, w, d, r)
    <3> DEFINE at(ref) == ResolveRef(x, w, x[d.name], ref)
    <3>1. of(d, r) = DuplicatePartials(x, r) \cup DuplicateRestrictions(x, r) \cup UNION {at(ref) : ref \in r.refs}
      BY DEF RelationErrors
    <3>2. CorrectRelation(x, w, d, r) <=>
              DuplicatePartials(x, r) = {} /\ DuplicateRestrictions(x, r) = {} /\ \A ref \in r.refs : at(ref) = {}
      BY DEF CorrectRelation
    <3> HIDE DEF of, at
    <3> QED BY <3>1, <3>2
  <2>4. ASSUME NEW d PROVE all(d) = {} <=> CorrectType(x, w, d)
    <3>1. CorrectType(x, w, d) <=>
              NameErrors(x, d) = {} /\ DuplicateRelations(x, d) = {} /\ \A r \in ToSet(d.relations) : of(d, r) = {}
      <4> HIDE DEF of
      <4> QED BY <2>3 DEF CorrectType
    <3> HIDE DEF of
    <3> QED BY <3>1
  <2> HIDE DEF all, types
  <2> QED BY <2>1, <2>2, <2>4 DEF CorrectModel, types
<1>2. ASSUME w \in Stores PROVE Correct(x, w) <=> StoreErrors(x, w) = {}
  BY <1>2 DEF Correct, Stores, DocsOfKind
<1>3. ASSUME w \in Stores, Readable(w)
      PROVE  Correct(x, w) <=> Checked[w] = <<>> \/ \A e \in ToSet(Tests[w]) : EntryErrors(x, w, e) = {}
  <2>1. StoreErrors(x, w) = IF Checked[w] = <<>> THEN {} ELSE UNION {EntryErrors(x, w, e) : e \in ToSet(Tests[w])}
    BY <1>3 DEF StoreErrors, Readable
  <2> QED BY <1>2, <1>3, <2>1
<1>4. ASSUME w \in Stores, ~Readable(w) PROVE ~Correct(x, w)
  <2>1. StoreErrors(x, w) # {}
    BY <1>4 DEF StoreErrors, Readable, StoreFault
  <2> QED BY <1>2, <1>4, <2>1
<1> QED BY <1>1, <1>3, <1>4

-------------------------------------------------------------------------------
(* The scope of w looks names up as that of the renamed symbol does.           *)
FreeIn(x, w, t, new) ==
    /\ t.kind = "type" => TypeDecls(x, w, new) = {}
    /\ t.kind = "condition" => ConditionDecls(x, w, new) = {}
    /\ t.kind = "relation" => \A o \in t.owners : RelationDecls(x, w, o, new) = {}

(* ... so that LookupsKept and NewNameIsFree hold for it too.                  *)
LEMMA LookupsInScope ==
    ASSUME NEW x, NEW y, NEW u, NEW t, NEW new, Renamed(x, y, u, t, new), NEW w \in SameScope(u)
    PROVE  LookupsAfter(x, y, w, t, new) /\ FreeIn(x, w, t, new)
<1>1. u \in Docs(View)
  BY DEF Renamed
<1>2. SameLookups(x, u, w) /\ SameLookups(y, u, w)
  BY <1>1, ScopesLookAlike
<1>3. LookupsAfter(x, y, u, t, new)
  BY LookupsKept
<1>4. LookupsAfter(x, y, w, t, new)
  BY <1>2, <1>3 DEF LookupsAfter, SameLookups
<1>5. /\ t.kind = "type" => TypeDecls(x, u, new) = {}
      /\ t.kind = "condition" => ConditionDecls(x, u, new) = {}
      /\ t.kind = "relation" => \A o \in t.owners : RelationDecls(x, u, o, new) = {}
  BY NewNameIsFree
<1>6. FreeIn(x, w, t, new)
  BY <1>2, <1>5 DEF FreeIn, SameLookups
<1> QED BY <1>4, <1>6

(* What becomes of a relation that may belong to any of the types O.           *)
AmongAfter(t, new, O, n) ==
    IF t.kind = "relation" /\ n = t.name /\ (O = {} \/ O \cap t.owners # {}) THEN new ELSE n

(* What is written at a use in a correct model, and what it becomes.           *)
UseAfter(x, y, w, d, ref, t, new) ==
    LET a == x[d.name]
        n == x[ref.at]
        by == x[ref.by]
        O == TuplesetTargets(x, w, a, by)
    IN  /\ ref.kind = "type" =>
               TypeDecls(x, w, n) # {} /\ y[ref.at] = NameAfter(t, new, "type", n)
        /\ ref.kind = "condition" =>
               ConditionDecls(x, w, n) # {} /\ y[ref.at] = NameAfter(t, new, "condition", n)
        /\ ref.kind = "relation on self" =>
               RelationDecls(x, w, a, n) # {} /\ y[ref.at] = RelationAfter(t, new, a, n)
        /\ ref.kind = "relation on type" =>
               /\ RelationDecls(x, w, by, n) # {}
               /\ y[ref.by] = NameAfter(t, new, "type", by)
               /\ y[ref.at] = RelationAfter(t, new, by, n)
        /\ ref.kind = "tupleset" =>
               /\ RelationDecls(x, w, a, n) # {}
               /\ y[ref.at] = n /\ RelationAfter(t, new, a, n) = n
               /\ \A r \in RelationDecls(x, w, a, n) : r.directOnly
        /\ ref.kind = "relation via tupleset" =>
               /\ RelationDecls(x, w, a, by) # {}
               /\ y[ref.by] = by /\ RelationAfter(t, new, a, by) = by
               /\ O # {} => \E o \in O : RelationDecls(x, w, o, n) # {} /\ y[ref.at] = RelationAfter(t, new, o, n)
               /\ (t.kind = "relation" /\ (O = {} \/ O \cap t.owners # {})) => n # new
               /\ y[ref.at] = AmongAfter(t, new, O, n)

(* What resolveRef finds nothing wrong with, by what kind of use it is.        *)
LEMMA ResolvedRefs ==
    ASSUME NEW x, NEW w \in Models, NEW a, NEW ref
    PROVE  LET n == x[ref.at]
               by == x[ref.by]
               O == TuplesetTargets(x, w, a, by)
               fine == ResolveRef(x, w, a, ref) = {}
           IN  /\ ref.kind = "type" => (fine <=> TypeDecls(x, w, n) # {})
               /\ ref.kind = "condition" => (fine <=> ConditionDecls(x, w, n) # {})
               /\ ref.kind = "relation on self" => (fine <=> RelationDecls(x, w, a, n) # {})
               /\ ref.kind = "relation on type" =>
                      (fine <=> (TypeDecls(x, w, by) # {} => RelationDecls(x, w, by, n) # {}))
               /\ ref.kind = "tupleset" =>
                      (fine <=> RelationDecls(x, w, a, n) # {} /\ \A r \in RelationDecls(x, w, a, n) : r.directOnly)
               /\ ref.kind = "relation via tupleset" =>
                      (fine <=> (O # {} => \E o \in O : RelationDecls(x, w, o, n) # {}))
<1> DEFINE fine == ResolveRef(x, w, a, ref) = {}
<1>0. /\ \A n : KnowsType(x, w, n) <=> HasType(x, w, n)
      /\ \A n, o : KnowsRelation(x, w, o, n) <=> HasRelation(x, w, o, n)
      /\ \A n, o : KnownRelations(x, w, o, n) = RelationDecls(x, w, o, n)
      /\ \A n, o : KnownTargets(x, w, o, n) = TuplesetTargets(x, w, o, n)
      /\ \A n : KnownConditions(x, w, n) = ConditionDecls(x, w, n)
  BY LookedUpInModels
<1>1. ASSUME ref.kind = "type" PROVE fine <=> TypeDecls(x, w, x[ref.at]) # {}
  <2>1. fine <=> HasType(x, w, x[ref.at])
    BY <1>1, <1>0 DEF ResolveRef
  <2> QED BY <2>1, Known
<1>2. ASSUME ref.kind = "condition" PROVE fine <=> ConditionDecls(x, w, x[ref.at]) # {}
  BY <1>2, <1>0 DEF ResolveRef
<1>3. ASSUME ref.kind = "relation on self" PROVE fine <=> RelationDecls(x, w, a, x[ref.at]) # {}
  <2>1. fine <=> HasRelation(x, w, a, x[ref.at])
    BY <1>3, <1>0 DEF ResolveRef
  <2> QED BY <2>1, Known
<1>4. ASSUME ref.kind = "relation on type"
      PROVE  fine <=> (TypeDecls(x, w, x[ref.by]) # {} => RelationDecls(x, w, x[ref.by], x[ref.at]) # {})
  <2>1. fine <=> (HasType(x, w, x[ref.by]) => HasRelation(x, w, x[ref.by], x[ref.at]))
    BY <1>4, <1>0 DEF ResolveRef
  <2> QED BY <2>1, Known
<1>5. ASSUME ref.kind = "tupleset"
      PROVE  fine <=> RelationDecls(x, w, a, x[ref.at]) # {} /\ \A r \in RelationDecls(x, w, a, x[ref.at]) : r.directOnly
  <2>1. fine <=> HasRelation(x, w, a, x[ref.at]) /\ \A r \in RelationDecls(x, w, a, x[ref.at]) : r.directOnly
    BY <1>5, <1>0 DEF ResolveRef
  <2> QED BY <2>1, Known
<1>6. ASSUME ref.kind = "relation via tupleset"
      PROVE  fine <=> (TuplesetTargets(x, w, a, x[ref.by]) # {} =>
                           \E o \in TuplesetTargets(x, w, a, x[ref.by]) : RelationDecls(x, w, o, x[ref.at]) # {})
  <2> DEFINE O == TuplesetTargets(x, w, a, x[ref.by])
  <2>1. fine <=> (O = {} \/ \E o \in O : HasRelation(x, w, o, x[ref.at]))
    BY <1>6, <1>0 DEF ResolveRef
  <2>2. \A o : HasRelation(x, w, o, x[ref.at]) <=> RelationDecls(x, w, o, x[ref.at]) # {}
    BY Known
  <2> HIDE DEF O
  <2> QED BY <2>1, <2>2 DEF O
<1> QED BY <1>1, <1>2, <1>3, <1>4, <1>5, <1>6 DEF fine

(* A leaf of the scope is renamed exactly if its symbol matches.               *)
MatchedAfter(x, y, w, l, t, new) ==
    l.role # "tupleset" => y[l.at] = IF Matches(SymbolAt(x, w, l), t) THEN new ELSE x[l.at]

(* ... as AtLeaf says of every document that rename reaches.                   *)
LEMMA MatchedLeaves ==
    ASSUME NEW x, NEW y, NEW u, NEW t, NEW new, Renamed(x, y, u, t, new), NEW w \in SameScope(u), NEW l \in Leaves(w)
    PROVE  MatchedAfter(x, y, w, l, t, new)
<1>1. w \in Docs(View) \cap RelatedDocuments(u)
  BY Reached DEF Renamed
<1>2. y[l.at] = IF l.role # "tupleset" /\ Matches(SymbolAt(x, w, l), t) THEN new ELSE x[l.at]
  BY <1>1, AtLeaf
<1> QED BY <1>2 DEF MatchedAfter

(* A relation is declared in one type.                                         *)
LEMMA OneOwner ==
    ASSUME NEW x, NEW w \in Docs(View), NEW o, NEW n, NEW p, NEW m,
           NEW q \in RelationDecls(x, w, o, n), NEW r \in RelationDecls(x, w, p, m), q.name = r.name
    PROVE  o = p
<1>1. PICK e \in RelationsIn[w] : e.rel = q
  BY DEF RelationDecls
<1> DEFINE l == Leaf("relation", e.rel.name, e.type, NoSite)
<1>2. PICK v \in ToSet(Scope[w]) : l \in Leaves(v)
  BY RelationsHaveLeaves
<1>3. v \in Docs(View) /\ l.at = q.name
  BY <1>1, <1>2, Scopes DEF Leaf
<1> HIDE DEF l
<1>4. x[l.type] = o
  BY <1>2, <1>3, RelationAtLeaf
<1>5. x[l.type] = p
  BY <1>2, <1>3, RelationAtLeaf
<1> QED BY <1>4, <1>5

(* A rename that mistakes no name leaves a relation of several types declared  *)
(* in one of them, and tells it from all others.                               *)
LEMMA AmongOwners ==
    ASSUME NEW x, NEW y, NEW u, NEW t, NEW new, Careful(x, y, u, t, new), NEW w \in SameScope(u),
           NEW s \in Symbols(x, w), s.kind = "relation",
           s.owners # {} => \E o \in s.owners : RelationDecls(x, w, o, s.name) # {}
    PROVE  LET after == IF Matches(s, t) THEN new ELSE s.name
               O == s.owners
           IN  /\ O # {} => \E o \in O : RelationDecls(x, w, o, s.name) # {} /\ after = RelationAfter(t, new, o, s.name)
               /\ (t.kind = "relation" /\ (O = {} \/ O \cap t.owners # {})) => s.name # new
               /\ after = AmongAfter(t, new, O, s.name)
<1> DEFINE O == s.owners
           n == s.name
           after == IF Matches(s, t) THEN new ELSE n
           to == Target(t.kind, new, t.owners, NoSite, FALSE)
<1>1. Renamed(x, y, u, t, new) /\ w \in Docs(View) /\ u \in Docs(View)
  BY Scopes DEF Careful, Renamed, SameScope
<1>2. t.kind = "relation" => t.owners # {}
  BY <1>1 DEF Renamed, Declarations
<1>3. FreeIn(x, w, t, new)
  BY <1>1, LookupsInScope
<1>4. Matches(s, t) <=> t.kind = "relation" /\ n = t.name /\ (O = {} \/ O \cap t.owners # {})
  BY <1>2 DEF Matches
<1>5. ASSUME \A o \in O : O # {o}
      PROVE  ~Matches(s, to) /\ (O # {} /\ Matches(s, t) => Declarations(x, w, s) \cap Declarations(x, u, t) # {})
  <2> HIDE DEF O
  <2> QED BY <1>5 DEF Careful, Mistaken, O
<1>6. ASSUME t.kind = "relation", O = {} \/ O \cap t.owners # {}, n = new PROVE FALSE
  <2>1. CASE \E o \in O : O = {o}
    <3>1. PICK o \in O : O = {o}
      BY <2>1
    <3>2. o \in t.owners /\ RelationDecls(x, w, o, new) # {}
      BY <1>6, <3>1
    <3> QED BY <1>3, <1>6, <3>2 DEF FreeIn
  <2>2. CASE \A o \in O : O # {o}
    <3>1. to.kind = t.kind /\ to.name = new /\ to.owners = t.owners
      BY DEF Target
    <3> HIDE DEF to
    <3>2. Matches(s, to)
      BY <1>6, <3>1 DEF Matches
    <3> QED BY <1>5, <2>2, <3>2
  <2> QED BY <2>1, <2>2
<1>7. ASSUME O # {} PROVE \E o \in O : RelationDecls(x, w, o, n) # {} /\ after = RelationAfter(t, new, o, n)
  <2>1. PICK o \in O : RelationDecls(x, w, o, n) # {}
    BY <1>7
  <2>2. CASE ~Matches(s, t)
    <3>1. RelationAfter(t, new, o, n) = n
      BY <1>4, <2>2 DEF RelationAfter
    <3> QED BY <2>1, <2>2, <3>1
  <2>3. CASE Matches(s, t) /\ O = {o}
    <3>1. RelationAfter(t, new, o, n) = new
      BY <1>4, <2>3 DEF RelationAfter
    <3> QED BY <2>1, <2>3, <3>1
  <2>4. CASE Matches(s, t) /\ \A p \in O : O # {p}
    <3>1. t.kind = "relation" /\ n = t.name
      BY <1>4, <2>4
    <3>2. PICK c : c \in Declarations(x, w, s) /\ c \in Declarations(x, u, t)
      BY <1>5, <1>7, <2>4
    <3>3. PICK p \in O : c \in {r.name : r \in RelationDecls(x, w, p, n)}
      BY <3>2 DEF Declarations
    <3>4. PICK q \in t.owners : c \in {r.name : r \in RelationDecls(x, u, q, n)}
      BY <3>1, <3>2 DEF Declarations
    <3>5. RelationDecls(x, w, q, n) = RelationDecls(x, u, q, n)
      <4>1. SameLookups(x, u, w)
        BY <1>1, ScopesLookAlike
      <4> QED BY <4>1 DEF SameLookups
    <3>6. p = q
      BY <1>1, <3>3, <3>4, <3>5, OneOwner
    <3>7. RelationAfter(t, new, p, n) = new
      BY <3>1, <3>6 DEF RelationAfter
    <3> QED BY <2>4, <3>3, <3>7
  <2> QED BY <2>2, <2>3, <2>4, <1>7, <2>1
<1>8. after = AmongAfter(t, new, O, n)
  BY <1>4 DEF AmongAfter
<1> QED BY <1>6, <1>7, <1>8

(* Every use in a correct model, and what becomes of it.                       *)
LEMMA UsesAfter ==
    ASSUME NEW x, NEW y, NEW u, NEW t, NEW new, Careful(x, y, u, t, new), NEW w \in SameScope(u), w \in Models,
           NEW d \in ToSet(Extract[w].types), NEW r \in ToSet(d.relations), NEW ref \in r.refs
    PROVE  UseAfter(x, y, w, d, ref, t, new)
<1> DEFINE a == x[d.name]
<1>1. Renamed(x, y, u, t, new) /\ RelationOK(r)
  BY Extracted DEF Careful, DeclarationOK
<1>2. \A q \in r.refs : ResolveRef(x, w, a, q) = {}
  <2>1. CorrectModel(x, w)
    BY CorrectDocuments DEF Careful
  <2> QED BY <2>1 DEF CorrectModel, CorrectType, CorrectRelation
<1>3. ASSUME NEW q \in r.refs PROVE Leaf(q.kind, q.at, d.name, q.by) \in Leaves(w)
  <2>1. StandsIn(Leaf(q.kind, q.at, d.name, q.by), d, r)
    BY DEF StandsIn
  <2> QED BY <2>1, LeavesOfModels DEF StandsInModel
<1>4. ASSUME NEW q \in r.refs
      PROVE  LET l == Leaf(q.kind, q.at, d.name, q.by)
             IN  LeafAfter(x, y, w, l, t, new) /\ l.role = q.kind /\ l.at = q.at /\ l.type = d.name /\ l.by = q.by
  <2> DEFINE l == Leaf(q.kind, q.at, d.name, q.by)
  <2>1. l.role = q.kind /\ l.at = q.at /\ l.type = d.name /\ l.by = q.by
    BY DEF Leaf
  <2>2. l \in Leaves(w)
    BY <1>3
  <2> HIDE DEF l
  <2>3. LeafAfter(x, y, w, l, t, new)
    BY <1>1, <2>2, LeavesAfter
  <2> QED BY <2>1, <2>3 DEF l
<1>5. ASSUME NEW q \in r.refs, q.kind = "type"
      PROVE  TypeDecls(x, w, x[q.at]) # {} /\ y[q.at] = NameAfter(t, new, "type", x[q.at])
  <2>1. TypeDecls(x, w, x[q.at]) # {}
    BY <1>2, <1>5, ResolvedRefs
  <2>2. KindAt("type") = "type"
    BY DEF KindAt
  <2>3. y[q.at] = NameAfter(t, new, "type", x[q.at])
    BY <1>4, <1>5, <2>2 DEF LeafAfter
  <2> QED BY <2>1, <2>3
<1>6. ASSUME ref.kind = "condition"
      PROVE  ConditionDecls(x, w, x[ref.at]) # {} /\ y[ref.at] = NameAfter(t, new, "condition", x[ref.at])
  <2>1. ConditionDecls(x, w, x[ref.at]) # {}
    BY <1>2, <1>6, ResolvedRefs
  <2>2. KindAt("condition") = "condition"
    BY DEF KindAt
  <2>3. y[ref.at] = NameAfter(t, new, "condition", x[ref.at])
    BY <1>4, <1>6, <2>2 DEF LeafAfter
  <2> QED BY <2>1, <2>3
<1>7. ASSUME ref.kind = "relation on self"
      PROVE  RelationDecls(x, w, a, x[ref.at]) # {} /\ y[ref.at] = RelationAfter(t, new, a, x[ref.at])
  <2>1. RelationDecls(x, w, a, x[ref.at]) # {}
    BY <1>2, <1>7, ResolvedRefs
  <2> DEFINE l == Leaf(ref.kind, ref.at, d.name, ref.by)
  <2>2. LeafAfter(x, y, w, l, t, new) /\ l.role = "relation on self" /\ l.at = ref.at /\ l.type = d.name
    BY <1>4, <1>7
  <2> HIDE DEF l
  <2>3. KindAt(l.role) = "relation" /\ OwnersAt(x, w, l) = {a}
    BY <2>2 DEF KindAt, OwnersAt
  <2> QED BY <2>1, <2>2, <2>3 DEF LeafAfter
<1>8. ASSUME ref.kind = "relation on type"
      PROVE  /\ RelationDecls(x, w, x[ref.by], x[ref.at]) # {}
             /\ y[ref.by] = NameAfter(t, new, "type", x[ref.by])
             /\ y[ref.at] = RelationAfter(t, new, x[ref.by], x[ref.at])
  <2>1. PICK q \in r.refs : q.kind = "type" /\ q.at = ref.by
    BY <1>1, <1>8, UsesOfRelations
  <2>2. TypeDecls(x, w, x[ref.by]) # {} /\ y[ref.by] = NameAfter(t, new, "type", x[ref.by])
    BY <1>5, <2>1
  <2>3. RelationDecls(x, w, x[ref.by], x[ref.at]) # {}
    BY <1>2, <1>8, <2>2, ResolvedRefs
  <2> DEFINE l == Leaf(ref.kind, ref.at, d.name, ref.by)
  <2>4. LeafAfter(x, y, w, l, t, new) /\ l.role = "relation on type" /\ l.at = ref.at /\ l.by = ref.by
    BY <1>4, <1>8
  <2> HIDE DEF l
  <2>5. KindAt(l.role) = "relation" /\ OwnersAt(x, w, l) = {x[ref.by]}
    BY <2>4 DEF KindAt, OwnersAt
  <2> QED BY <2>2, <2>3, <2>4, <2>5 DEF LeafAfter
<1>9. ASSUME NEW q \in r.refs, q.kind = "tupleset"
      PROVE  /\ RelationDecls(x, w, a, x[q.at]) # {} /\ y[q.at] = x[q.at]
             /\ RelationAfter(t, new, a, x[q.at]) = x[q.at]
             /\ \A p \in RelationDecls(x, w, a, x[q.at]) : p.directOnly
  <2>1. RelationDecls(x, w, a, x[q.at]) # {} /\ \A p \in RelationDecls(x, w, a, x[q.at]) : p.directOnly
    BY <1>2, <1>9, ResolvedRefs
  <2> DEFINE l == Leaf(q.kind, q.at, d.name, q.by)
             use == [type |-> a, at |-> q.at]
  <2>2. LeafAfter(x, y, w, l, t, new) /\ l.role = "tupleset" /\ l.at = q.at /\ l.type = d.name /\ l \in Leaves(w)
    BY <1>3, <1>4, <1>9
  <2>3. y[q.at] = x[q.at]
    <3> HIDE DEF l
    <3> QED BY <2>2 DEF LeafAfter
  <2>4. use \in TuplesetUses(x, w) /\ use.type = a /\ use.at = q.at
    <3>1. [type |-> x[l.type], at |-> l.at] \in TuplesetUses(x, w)
      <4> HIDE DEF l
      <4> QED BY <2>2, TuplesetsAtLeaves
    <3> QED BY <2>2, <3>1
  <2>5. ~(t.kind = "relation" /\ a \in t.owners /\ x[q.at] = t.name)
    <3> HIDE DEF use
    <3> QED BY <2>4 DEF UsedAsTupleset, Careful
  <2> QED BY <2>1, <2>3, <2>5 DEF RelationAfter
<1> DEFINE n == x[ref.at]
           by == x[ref.by]
           O == TuplesetTargets(x, w, a, by)
<1>10. ASSUME ref.kind = "relation via tupleset"
       PROVE  /\ RelationDecls(x, w, a, by) # {}
              /\ y[ref.by] = by /\ RelationAfter(t, new, a, by) = by
              /\ O # {} => \E o \in O : RelationDecls(x, w, o, n) # {} /\ y[ref.at] = RelationAfter(t, new, o, n)
              /\ (t.kind = "relation" /\ (O = {} \/ O \cap t.owners # {})) => n # new
              /\ y[ref.at] = AmongAfter(t, new, O, n)
  <2>1. PICK q \in r.refs : q.kind = "tupleset" /\ q.at = ref.by
    BY <1>1, <1>10, UsesOfRelations
  <2>2. RelationDecls(x, w, a, by) # {} /\ y[ref.by] = by /\ RelationAfter(t, new, a, by) = by
    BY <1>9, <2>1
  <2> DEFINE l == Leaf(ref.kind, ref.at, d.name, ref.by)
             s == SymbolAt(x, w, l)
  <2>3. l \in Leaves(w) /\ l.role = "relation via tupleset" /\ l.at = ref.at /\ l.type = d.name /\ l.by = ref.by
    BY <1>3, <1>4, <1>10
  <2>4. w \in Docs(View) \cap RelatedDocuments(u)
    BY <1>1, Reached DEF Renamed
  <2> HIDE DEF l
  <2>5. s.kind = "relation" /\ s.name = n /\ s.owners = O
    BY <2>3 DEF SymbolAt, Target, KindAt, OwnersAt
  <2>6. s \in Symbols(x, w)
    <3>1. Stands(s, x, w, l)
      BY <2>3 DEF Stands
    <3> HIDE DEF s
    <3> QED BY <2>3, <2>4, <3>1, SymbolsAtLeaves
  <2>7. y[ref.at] = IF Matches(s, t) THEN new ELSE n
    <3>1. MatchedAfter(x, y, w, l, t, new)
      BY <1>1, <2>3, MatchedLeaves
    <3> QED BY <2>3, <3>1 DEF MatchedAfter
  <2>8. O # {} => \E o \in O : RelationDecls(x, w, o, n) # {}
    BY <1>2, <1>10, ResolvedRefs
  <2> HIDE DEF s, O, n, by, a
  <2> QED BY <2>2, <2>5, <2>6, <2>7, <2>8, AmongOwners
<1> QED BY <1>1, <1>5, <1>6, <1>7, <1>8, <1>9, <1>10, UsesOfRelations DEF UseAfter, UseKinds

-------------------------------------------------------------------------------
(* What is declared in a scope, and what becomes of its names.                 *)
DeclaredAfter(x, y, w, t, new) ==
    /\ \A d \in ToSet(TypesIn[w]) :
          TypeDecls(x, w, x[d.name]) # {} /\ y[d.name] = NameAfter(t, new, "type", x[d.name])
    /\ \A c \in ConditionsIn[w] :
          ConditionDecls(x, w, x[c]) # {} /\ y[c] = NameAfter(t, new, "condition", x[c])
    /\ \A e \in RelationsIn[w] :
          /\ RelationDecls(x, w, x[e.type], x[e.rel.name]) # {}
          /\ y[e.rel.name] = RelationAfter(t, new, x[e.type], x[e.rel.name])

(* ... in every scope that is that of the renamed symbol.                      *)
LEMMA DeclarationsAfter ==
    ASSUME NEW x, NEW y, NEW u, NEW t, NEW new, Renamed(x, y, u, t, new), NEW w \in SameScope(u)
    PROVE  DeclaredAfter(x, y, w, t, new)
<1>1. u \in Docs(View) /\ w \in Docs(View) /\ ToSet(Scope[w]) = ToSet(Scope[u])
  BY Scopes DEF Renamed, SameScope
<1>2. ToSet(TypesIn[w]) = ToSet(TypesIn[u])
  BY <1>1, TypesOfScope
<1>3. RelationsIn[w] = RelationsIn[u] /\ ConditionsIn[w] = ConditionsIn[u]
  BY <1>1, <1>2 DEF RelationsIn, ConditionsIn
<1>4. ScopeAfter(x, y, u, t, new)
  BY NamesOfScope
<1>5. ASSUME NEW d \in ToSet(TypesIn[w]) PROVE d \in TypeDecls(x, w, x[d.name])
  BY DEF TypeDecls
<1>6. ASSUME NEW c \in ConditionsIn[w] PROVE c \in ConditionDecls(x, w, x[c])
  BY DEF ConditionDecls
<1>7. ASSUME NEW e \in RelationsIn[w] PROVE e.rel \in RelationDecls(x, w, x[e.type], x[e.rel.name])
  BY DEF RelationDecls
<1> QED BY <1>2, <1>3, <1>4, <1>5, <1>6, <1>7 DEF DeclaredAfter, ScopeAfter

(* The declarations of a model are in its scope.                               *)
LEMMA OwnDeclarations ==
    ASSUME NEW w \in Models
    PROVE  /\ ToSet(Extract[w].conds) \subseteq ConditionsIn[w]
           /\ \A d \in ToSet(Extract[w].types) :
                 d \in ToSet(TypesIn[w]) /\ \A r \in ToSet(d.relations) : [type |-> d.name, rel |-> r] \in RelationsIn[w]
<1>1. w \in ToSet(Scope[w]) /\ w \in Docs(View)
  BY Scopes
<1>2. ToSet(Extract[w].conds) \subseteq ConditionsIn[w]
  BY <1>1 DEF ConditionsIn
<1>3. ASSUME NEW d \in ToSet(Extract[w].types) PROVE d \in ToSet(TypesIn[w])
  BY <1>1, TypesOfScope
<1>4. ASSUME NEW d \in ToSet(Extract[w].types), NEW r \in ToSet(d.relations)
      PROVE  [type |-> d.name, rel |-> r] \in RelationsIn[w]
  BY <1>1, RelationsOfScope
<1> QED BY <1>2, <1>3, <1>4

(* Every use in a correct model still resolves.                                *)
LEMMA StillResolved ==
    ASSUME NEW x, NEW y, NEW u, NEW t, NEW new, Careful(x, y, u, t, new), NEW w \in SameScope(u), w \in Models,
           NEW d \in ToSet(Extract[w].types), NEW r \in ToSet(d.relations), NEW ref \in r.refs
    PROVE  ResolveRef(y, w, y[d.name], ref) = {}
<1> DEFINE a == x[d.name]
           n == x[ref.at]
           by == x[ref.by]
           O == TuplesetTargets(x, w, a, by)
           type(o) == NameAfter(t, new, "type", o)
           p == type(a)
<1>1. Renamed(x, y, u, t, new)
  BY DEF Careful
<1>2. LookupsAfter(x, y, w, t, new)
  BY <1>1, LookupsInScope
<1>3. y[d.name] = p
  <2>1. DeclaredAfter(x, y, w, t, new)
    BY <1>1, DeclarationsAfter
  <2>2. d \in ToSet(TypesIn[w])
    BY OwnDeclarations
  <2> QED BY <2>1, <2>2 DEF DeclaredAfter
<1>4. UseAfter(x, y, w, d, ref, t, new)
  BY UsesAfter
<1>5. ref.kind \in UseKinds
  <2>1. RelationOK(r)
    BY Extracted DEF DeclarationOK
  <2> QED BY <2>1, UsesOfRelations
<1>6. /\ \A m : TypeDecls(x, w, m) # {} => TypeDecls(y, w, type(m)) # {}
      /\ \A m : ConditionDecls(x, w, m) # {} => ConditionDecls(y, w, NameAfter(t, new, "condition", m)) # {}
      /\ \A o, m : RelationDecls(x, w, o, m) # {} =>
            /\ RelationDecls(y, w, type(o), RelationAfter(t, new, o, m)) = RelationDecls(x, w, o, m)
            /\ TuplesetTargets(y, w, type(o), RelationAfter(t, new, o, m)) = {type(b) : b \in TuplesetTargets(x, w, o, m)}
  BY <1>2 DEF LookupsAfter
<1> HIDE DEF type
<1>7. CASE ref.kind = "type"
  <2>1. TypeDecls(x, w, n) # {} /\ y[ref.at] = type(n)
    BY <1>4, <1>7 DEF UseAfter, type
  <2>2. TypeDecls(y, w, y[ref.at]) # {}
    BY <1>6, <2>1
  <2> QED BY <1>7, <2>2, ResolvedRefs
<1>8. CASE ref.kind = "condition"
  <2>1. ConditionDecls(x, w, n) # {} /\ y[ref.at] = NameAfter(t, new, "condition", n)
    BY <1>4, <1>8 DEF UseAfter
  <2>2. ConditionDecls(y, w, y[ref.at]) # {}
    BY <1>6, <2>1
  <2> QED BY <1>8, <2>2, ResolvedRefs
<1>9. CASE ref.kind = "relation on self"
  <2>1. RelationDecls(x, w, a, n) # {} /\ y[ref.at] = RelationAfter(t, new, a, n)
    BY <1>4, <1>9 DEF UseAfter
  <2>2. RelationDecls(y, w, p, y[ref.at]) # {}
    BY <1>6, <2>1
  <2> HIDE DEF p
  <2>3. ResolveRef(y, w, p, ref) = {}
    BY <1>9, <2>2, ResolvedRefs
  <2> QED BY <1>3, <2>3
<1>10. CASE ref.kind = "relation on type"
  <2>1. RelationDecls(x, w, by, n) # {} /\ y[ref.by] = type(by) /\ y[ref.at] = RelationAfter(t, new, by, n)
    BY <1>4, <1>10 DEF UseAfter, type
  <2>2. RelationDecls(y, w, y[ref.by], y[ref.at]) # {}
    BY <1>6, <2>1
  <2> QED BY <1>10, <2>2, ResolvedRefs
<1>11. CASE ref.kind = "tupleset"
  <2>1. /\ RelationDecls(x, w, a, n) # {} /\ y[ref.at] = n /\ RelationAfter(t, new, a, n) = n
        /\ \A q \in RelationDecls(x, w, a, n) : q.directOnly
    BY <1>4, <1>11 DEF UseAfter
  <2>2. RelationDecls(y, w, p, y[ref.at]) = RelationDecls(x, w, a, n)
    BY <1>6, <2>1
  <2> HIDE DEF p, n, a
  <2>3. ResolveRef(y, w, p, ref) = {}
    BY <1>11, <2>1, <2>2, ResolvedRefs
  <2> QED BY <1>3, <2>3
<1>12. CASE ref.kind = "relation via tupleset"
  <2>1. /\ RelationDecls(x, w, a, by) # {} /\ y[ref.by] = by /\ RelationAfter(t, new, a, by) = by
        /\ O # {} => \E o \in O : RelationDecls(x, w, o, n) # {} /\ y[ref.at] = RelationAfter(t, new, o, n)
    BY <1>4, <1>12 DEF UseAfter
  <2>2. TuplesetTargets(y, w, p, y[ref.by]) = {type(b) : b \in O}
    BY <1>6, <2>1
  <2> HIDE DEF p, n, O, a, by
  <2>3. ASSUME O # {} PROVE \E o \in TuplesetTargets(y, w, p, y[ref.by]) : RelationDecls(y, w, o, y[ref.at]) # {}
    <3>1. PICK o \in O : RelationDecls(x, w, o, n) # {} /\ y[ref.at] = RelationAfter(t, new, o, n)
      BY <2>1, <2>3
    <3>2. RelationDecls(y, w, type(o), y[ref.at]) # {}
      BY <1>6, <3>1
    <3> QED BY <2>2, <3>1, <3>2
  <2>4. TuplesetTargets(y, w, p, y[ref.by]) # {} => \E o \in TuplesetTargets(y, w, p, y[ref.by]) : RelationDecls(y, w, o, y[ref.at]) # {}
    BY <2>2, <2>3
  <2>5. ResolveRef(y, w, p, ref) = {}
    BY <1>12, <2>4, ResolvedRefs
  <2> QED BY <1>3, <2>5
<1> QED BY <1>5, <1>7, <1>8, <1>9, <1>10, <1>11, <1>12 DEF UseKinds

-------------------------------------------------------------------------------
(* Names that are declared do not become one.                                  *)
LEMMA DeclaredStayApart ==
    ASSUME NEW x, NEW w, NEW t, NEW new, FreeIn(x, w, t, new), NEW n, NEW m
    PROVE  /\ (/\ TypeDecls(x, w, n) # {} /\ TypeDecls(x, w, m) # {}
               /\ NameAfter(t, new, "type", n) = NameAfter(t, new, "type", m)) => n = m
           /\ (/\ ConditionDecls(x, w, n) # {} /\ ConditionDecls(x, w, m) # {}
               /\ NameAfter(t, new, "condition", n) = NameAfter(t, new, "condition", m)) => n = m
           /\ \A o : (/\ RelationDecls(x, w, o, n) # {} /\ RelationDecls(x, w, o, m) # {}
                      /\ RelationAfter(t, new, o, n) = RelationAfter(t, new, o, m)) => n = m
<1>1. ASSUME TypeDecls(x, w, n) # {}, TypeDecls(x, w, m) # {}, NameAfter(t, new, "type", n) = NameAfter(t, new, "type", m)
      PROVE  n = m
  <2>1. t.kind = "type" => n # new /\ m # new
    BY <1>1 DEF FreeIn
  <2> QED BY <1>1, <2>1, NamesStayApart
<1>2. ASSUME ConditionDecls(x, w, n) # {}, ConditionDecls(x, w, m) # {},
             NameAfter(t, new, "condition", n) = NameAfter(t, new, "condition", m)
      PROVE  n = m
  <2>1. t.kind = "condition" => n # new /\ m # new
    BY <1>2 DEF FreeIn
  <2> QED BY <1>2, <2>1, NamesStayApart
<1>3. ASSUME NEW o, RelationDecls(x, w, o, n) # {}, RelationDecls(x, w, o, m) # {},
             RelationAfter(t, new, o, n) = RelationAfter(t, new, o, m)
      PROVE  n = m
  <2>1. (t.kind = "relation" /\ o \in t.owners) => n # new /\ m # new
    BY <1>3 DEF FreeIn
  <2> QED BY <1>3, <2>1, RelationsStayApart
<1> QED BY <1>1, <1>2, <1>3

(* The name at a part of a term that may be missing, and the parts of a term.  *)
At(x, s) == IF s = NoSite THEN NoSite ELSE x[s]

(* Which parts a term of each kind has.                                      *)
LEMMA PartsOfTerms ==
    ASSUME NEW t \in TermTree
    PROVE  /\ t.node = "computed" => Parts(t) = {"relation"}
           /\ t.node = "from" => Parts(t) = {"relation", "tupleset"}
           /\ t.node = "restriction" => Parts(t) = {"type", "relation", "cond"}
<1>1. ASSUME t.node = "computed" PROVE DOMAIN t = {"node", "relation"}
  BY <1>1 DEF TermTree
<1>2. ASSUME t.node = "from" PROVE DOMAIN t = {"node", "relation", "tupleset"}
  BY <1>2 DEF TermTree
<1>3. ASSUME t.node = "restriction" PROVE DOMAIN t = {"node", "type", "wildcard", "relation", "cond"}
  BY <1>3 DEF TermTree
<1> QED BY <1>1, <1>2, <1>3 DEF Parts

(* Two terms are written alike if they are of one kind and have the same names *)
(* at the same parts.                                                          *)
LEMMA WrittenAlike ==
    ASSUME NEW x, NEW a, NEW b
    PROVE  Written(x, a) = Written(x, b) <=>
               /\ a.node = b.node
               /\ ("wildcard" \in DOMAIN a /\ a.wildcard) = ("wildcard" \in DOMAIN b /\ b.wildcard)
               /\ Parts(a) = Parts(b)
               /\ \A part \in Parts(a) : At(x, a[part]) = At(x, b[part])
<1> DEFINE names(t) == [part \in Parts(t) |-> IF t[part] = NoSite THEN NoSite ELSE x[t[part]]]
           wild(t) == "wildcard" \in DOMAIN t /\ t.wildcard
<1>1. Written(x, a) = <<a.node, wild(a), names(a)>> /\ Written(x, b) = <<b.node, wild(b), names(b)>>
  BY DEF Written
<1>2. names(a) = names(b) <=> Parts(a) = Parts(b) /\ \A part \in Parts(a) : At(x, a[part]) = At(x, b[part])
  <2>1. \A t : DOMAIN names(t) = Parts(t) /\ \A part \in Parts(t) : names(t)[part] = At(x, t[part])
    BY DEF At
  <2>2. names(a) = [part \in Parts(a) |-> At(x, a[part])] /\ names(b) = [part \in Parts(b) |-> At(x, b[part])]
    BY DEF At
  <2> HIDE DEF names
  <2> QED BY <2>1, <2>2
<1> HIDE DEF names, wild
<1>3. Written(x, a) = Written(x, b) <=> a.node = b.node /\ wild(a) = wild(b) /\ names(a) = names(b)
  BY <1>1
<1> QED BY <1>2, <1>3 DEF wild

(* What a term points at, and what becomes of it.                              *)
LEMMA TermAfter ==
    ASSUME NEW x, NEW y, NEW u, NEW t, NEW new, Careful(x, y, u, t, new), NEW w \in SameScope(u), w \in Models,
           NEW d \in ToSet(Extract[w].types), NEW r \in ToSet(d.relations), NEW a \in ToSet(r.terms)
    PROVE  /\ a \in TermTree
           /\ a.node = "computed" =>
                  a.relation \in Sites /\ UseAfter(x, y, w, d, Use("relation on self", a.relation, NoSite, a), t, new)
           /\ a.node = "from" =>
                  /\ a.relation \in Sites /\ a.tupleset \in Sites
                  /\ UseAfter(x, y, w, d, Use("relation via tupleset", a.relation, a.tupleset, a), t, new)
           /\ a.node = "restriction" =>
                  /\ a.type \in Sites /\ a.relation \in OptionalSite /\ a.cond \in OptionalSite
                  /\ UseAfter(x, y, w, d, Use("type", a.type, NoSite, a), t, new)
                  /\ a.relation # NoSite => UseAfter(x, y, w, d, Use("relation on type", a.relation, a.type, a), t, new)
                  /\ a.cond # NoSite => UseAfter(x, y, w, d, Use("condition", a.cond, NoSite, a), t, new)
<1>1. RelationOK(r)
  BY Extracted DEF DeclarationOK
<1>2. a \in TermTree /\ TermRefs(a) \subseteq r.refs
  BY <1>1 DEF RelationOK
<1>3. ASSUME NEW ref \in TermRefs(a) PROVE UseAfter(x, y, w, d, ref, t, new)
  BY <1>2, UsesAfter
<1>4. ASSUME a.node = "computed"
      PROVE  a.relation \in Sites /\ UseAfter(x, y, w, d, Use("relation on self", a.relation, NoSite, a), t, new)
  BY <1>2, <1>3, <1>4, RefsOfTerms
<1>5. ASSUME a.node = "from"
      PROVE  /\ a.relation \in Sites /\ a.tupleset \in Sites
             /\ UseAfter(x, y, w, d, Use("relation via tupleset", a.relation, a.tupleset, a), t, new)
  BY <1>2, <1>3, <1>5, RefsOfTerms
<1>6. ASSUME a.node = "restriction"
      PROVE  /\ a.type \in Sites /\ a.relation \in OptionalSite /\ a.cond \in OptionalSite
             /\ UseAfter(x, y, w, d, Use("type", a.type, NoSite, a), t, new)
             /\ a.relation # NoSite => UseAfter(x, y, w, d, Use("relation on type", a.relation, a.type, a), t, new)
             /\ a.cond # NoSite => UseAfter(x, y, w, d, Use("condition", a.cond, NoSite, a), t, new)
  BY <1>2, <1>3, <1>6, RefsOfTerms
<1> QED BY <1>2, <1>4, <1>5, <1>6

(* No two terms of a relation become alike.                                    *)
LEMMA TermsStayApart ==
    ASSUME NEW x, NEW y, NEW u, NEW t, NEW new, Careful(x, y, u, t, new), NEW w \in SameScope(u), w \in Models,
           NEW d \in ToSet(Extract[w].types), NEW r \in ToSet(d.relations),
           NEW a \in ToSet(r.terms), NEW b \in ToSet(r.terms), Written(y, a) = Written(y, b)
    PROVE  Written(x, a) = Written(x, b)
<1> DEFINE o == x[d.name]
<1>1. /\ a.node = b.node /\ Parts(a) = Parts(b)
      /\ ("wildcard" \in DOMAIN a /\ a.wildcard) = ("wildcard" \in DOMAIN b /\ b.wildcard)
      /\ \A part \in Parts(a) : At(y, a[part]) = At(y, b[part])
  BY WrittenAlike
<1>2. FreeIn(x, w, t, new) /\ a \in TermTree /\ b \in TermTree
  BY LookupsInScope, TermAfter DEF Careful
<1>3. NoSite \notin Sites /\ \A s \in Sites : y[s] # NoSite
  BY TreesAssumption DEF Careful
<1>4. ASSUME NEW s \in OptionalSite, NEW q \in OptionalSite, At(y, s) = At(y, q)
      PROVE  (s = NoSite <=> q = NoSite) /\ (s # NoSite => s \in Sites /\ q \in Sites /\ y[s] = y[q])
  BY <1>3, <1>4 DEF At, OptionalSite
<1>5. SUFFICES ASSUME NEW part \in Parts(a) PROVE At(x, a[part]) = At(x, b[part])
  BY <1>1, WrittenAlike
<1>6. At(y, a[part]) = At(y, b[part])
  BY <1>1
<1>7. CASE a.node = "computed"
  <2>1. part = "relation" /\ a.relation \in Sites /\ b.relation \in Sites
    BY <1>1, <1>2, <1>5, <1>7, PartsOfTerms, TermAfter
  <2>2. y[a.relation] = y[b.relation]
    BY <1>4, <1>6, <2>1 DEF OptionalSite, At
  <2>3. UseAfter(x, y, w, d, Use("relation on self", a.relation, NoSite, a), t, new)
    BY <1>7, TermAfter
  <2>4. UseAfter(x, y, w, d, Use("relation on self", b.relation, NoSite, b), t, new)
    BY <1>1, <1>7, TermAfter
  <2>5. RelationDecls(x, w, o, x[a.relation]) # {} /\ y[a.relation] = RelationAfter(t, new, o, x[a.relation])
    BY <2>3 DEF UseAfter, Use
  <2>6. RelationDecls(x, w, o, x[b.relation]) # {} /\ y[b.relation] = RelationAfter(t, new, o, x[b.relation])
    BY <2>4 DEF UseAfter, Use
  <2>7. x[a.relation] = x[b.relation]
    <3> HIDE DEF o
    <3> QED BY <1>2, <2>2, <2>5, <2>6, DeclaredStayApart
  <2> QED BY <1>3, <2>1, <2>7 DEF At
<1>8. CASE a.node = "from"
  <2> DEFINE O(k) == TuplesetTargets(x, w, o, x[k.tupleset])
  <2>1. /\ part \in {"relation", "tupleset"} /\ a.relation \in Sites /\ b.relation \in Sites
        /\ a.tupleset \in Sites /\ b.tupleset \in Sites
    BY <1>1, <1>2, <1>5, <1>8, PartsOfTerms, TermAfter
  <2>2. y[a.relation] = y[b.relation] /\ y[a.tupleset] = y[b.tupleset]
    <3>1. "relation" \in Parts(a) /\ "tupleset" \in Parts(a)
      BY <1>2, <1>8, PartsOfTerms
    <3> QED BY <1>1, <1>3, <2>1, <3>1 DEF At
  <2>3. UseAfter(x, y, w, d, Use("relation via tupleset", a.relation, a.tupleset, a), t, new)
    BY <1>8, TermAfter
  <2>4. UseAfter(x, y, w, d, Use("relation via tupleset", b.relation, b.tupleset, b), t, new)
    BY <1>1, <1>8, TermAfter
  <2>5. /\ y[a.tupleset] = x[a.tupleset] /\ y[a.relation] = AmongAfter(t, new, O(a), x[a.relation])
        /\ (t.kind = "relation" /\ (O(a) = {} \/ O(a) \cap t.owners # {})) => x[a.relation] # new
    BY <2>3 DEF UseAfter, Use
  <2>6. /\ y[b.tupleset] = x[b.tupleset] /\ y[b.relation] = AmongAfter(t, new, O(b), x[b.relation])
        /\ (t.kind = "relation" /\ (O(b) = {} \/ O(b) \cap t.owners # {})) => x[b.relation] # new
    BY <2>4 DEF UseAfter, Use
  <2>7. x[a.tupleset] = x[b.tupleset] /\ O(a) = O(b)
    BY <2>2, <2>5, <2>6
  <2>8. x[a.relation] = x[b.relation]
    <3> HIDE DEF O, o
    <3> QED BY <2>2, <2>5, <2>6, <2>7 DEF AmongAfter
  <2> QED BY <1>3, <2>1, <2>7, <2>8 DEF At
<1>9. CASE a.node = "restriction"
  <2>1. /\ part \in {"type", "relation", "cond"} /\ Parts(a) = {"type", "relation", "cond"}
        /\ a.type \in Sites /\ b.type \in Sites
        /\ a.relation \in OptionalSite /\ b.relation \in OptionalSite
        /\ a.cond \in OptionalSite /\ b.cond \in OptionalSite
    BY <1>1, <1>2, <1>5, <1>9, PartsOfTerms, TermAfter
  <2>2. x[a.type] = x[b.type]
    <3>1. y[a.type] = y[b.type]
      BY <1>1, <1>3, <2>1 DEF At
    <3>2. UseAfter(x, y, w, d, Use("type", a.type, NoSite, a), t, new)
      BY <1>9, TermAfter
    <3>3. UseAfter(x, y, w, d, Use("type", b.type, NoSite, b), t, new)
      BY <1>1, <1>9, TermAfter
    <3>4. TypeDecls(x, w, x[a.type]) # {} /\ y[a.type] = NameAfter(t, new, "type", x[a.type])
      BY <3>2 DEF UseAfter, Use
    <3>5. TypeDecls(x, w, x[b.type]) # {} /\ y[b.type] = NameAfter(t, new, "type", x[b.type])
      BY <3>3 DEF UseAfter, Use
    <3> QED BY <1>2, <3>1, <3>4, <3>5, DeclaredStayApart
  <2>3. At(x, a.relation) = At(x, b.relation)
    <3>1. /\ a.relation = NoSite <=> b.relation = NoSite
          /\ a.relation # NoSite => a.relation \in Sites /\ b.relation \in Sites /\ y[a.relation] = y[b.relation]
      BY <1>1, <1>4, <2>1
    <3>2. ASSUME a.relation # NoSite PROVE x[a.relation] = x[b.relation]
      <4>1. UseAfter(x, y, w, d, Use("relation on type", a.relation, a.type, a), t, new)
        BY <1>9, <3>2, TermAfter
      <4>2. UseAfter(x, y, w, d, Use("relation on type", b.relation, b.type, b), t, new)
        BY <1>1, <1>9, <3>1, <3>2, TermAfter
      <4>3. /\ RelationDecls(x, w, x[a.type], x[a.relation]) # {}
            /\ y[a.relation] = RelationAfter(t, new, x[a.type], x[a.relation])
        BY <4>1 DEF UseAfter, Use
      <4>4. /\ RelationDecls(x, w, x[b.type], x[b.relation]) # {}
            /\ y[b.relation] = RelationAfter(t, new, x[b.type], x[b.relation])
        BY <4>2 DEF UseAfter, Use
      <4> QED BY <1>2, <2>2, <3>1, <3>2, <4>3, <4>4, DeclaredStayApart
    <3> QED BY <3>1, <3>2 DEF At
  <2>4. At(x, a.cond) = At(x, b.cond)
    <3>1. /\ a.cond = NoSite <=> b.cond = NoSite
          /\ a.cond # NoSite => a.cond \in Sites /\ b.cond \in Sites /\ y[a.cond] = y[b.cond]
      BY <1>1, <1>4, <2>1
    <3>2. ASSUME a.cond # NoSite PROVE x[a.cond] = x[b.cond]
      <4>1. UseAfter(x, y, w, d, Use("condition", a.cond, NoSite, a), t, new)
        BY <1>9, <3>2, TermAfter
      <4>2. UseAfter(x, y, w, d, Use("condition", b.cond, NoSite, b), t, new)
        BY <1>1, <1>9, <3>1, <3>2, TermAfter
      <4>3. ConditionDecls(x, w, x[a.cond]) # {} /\ y[a.cond] = NameAfter(t, new, "condition", x[a.cond])
        BY <4>1 DEF UseAfter, Use
      <4>4. ConditionDecls(x, w, x[b.cond]) # {} /\ y[b.cond] = NameAfter(t, new, "condition", x[b.cond])
        BY <4>2 DEF UseAfter, Use
      <4> QED BY <1>2, <3>1, <3>2, <4>3, <4>4, DeclaredStayApart
    <3> QED BY <3>1, <3>2 DEF At
  <2> QED BY <1>3, <2>1, <2>2, <2>3, <2>4 DEF At
<1> QED BY <1>2, <1>7, <1>8, <1>9, RefsOfTerms

-------------------------------------------------------------------------------
(* The terms of a relation are those of its operands, in sequences.            *)
OperandsOK(r) ==
    /\ r.terms \in Seq(TermTree)
    /\ \E n \in Nat : DOMAIN r.partials = 1..n
    /\ \A i \in DOMAIN r.partials :
          r.partials[i].terms \in Seq(TermTree) /\ ToSet(r.partials[i].terms) \subseteq ToSet(r.terms)

(* ... as extraction leaves them.                                              *)
LEMMA ExtractedOperands ==
    ASSUME NEW rel \in RelationTree
    PROVE  OperandsOK(ExtractRelation(rel))
<1> DEFINE parts == [i \in DOMAIN rel.operands |-> rel.operands[i].terms]
           terms == FlattenSeq(parts)
           r == ExtractRelation(rel)
<1>1. rel.operands \in Seq(OperandTree) /\ DOMAIN rel.operands = 1..Len(rel.operands) /\ Len(rel.operands) \in Nat
  BY DEF RelationTree
<1>2. \A i \in DOMAIN rel.operands : rel.operands[i].terms \in Seq(TermTree)
  BY <1>1 DEF OperandTree
<1>3. parts \in Seq(Seq(TermTree)) /\ DOMAIN parts = DOMAIN rel.operands
  BY <1>1, <1>2
<1>4. terms \in Seq(TermTree) /\ ToSet(terms) = UNION {ToSet(parts[i]) : i \in DOMAIN parts}
  <2> HIDE DEF parts
  <2> QED BY <1>3, FlattenMembers
<1>5. r.terms = terms /\ r.partials = rel.operands
  <2>1. r = [name |-> rel.name, directOnly |-> DirectOnly(rel), partials |-> rel.operands,
             terms |-> terms, refs |-> UNION {TermRefs(t) : t \in ToSet(terms)}]
    BY DEF ExtractRelation, Each
  <2> HIDE DEF r, terms
  <2> QED BY <2>1
<1>6. ASSUME NEW i \in DOMAIN rel.operands PROVE ToSet(rel.operands[i].terms) \subseteq ToSet(terms)
  <2>1. parts[i] = rel.operands[i].terms /\ i \in DOMAIN parts
    BY <1>3
  <2> HIDE DEF terms, parts
  <2> QED BY <1>4, <2>1
<1> HIDE DEF r, terms, parts
<1> QED BY <1>1, <1>2, <1>4, <1>5, <1>6 DEF OperandsOK, r

(* The relations of a type are a sequence too.                                 *)
LEMMA ExtractedSequences ==
    ASSUME NEW w \in Models, NEW d \in ToSet(Extract[w].types)
    PROVE  /\ \E n \in Nat : DOMAIN d.relations = 1..n
           /\ \A r \in ToSet(d.relations) : OperandsOK(r)
<1> DEFINE types == Tree[w].types
<1>1. types \in Seq(TypeTree) /\ Extract[w].types = [i \in DOMAIN types |-> ExtractType(types[i])]
  BY TreesAssumption DEF ModelTree, Extract, ExtractTree, Each
<1>2. \A i \in DOMAIN types : types[i] \in TypeTree
  BY <1>1
<1>3. PICK tree \in TypeTree : d = ExtractType(tree)
  BY <1>1, <1>2 DEF ToSet
<1>4. tree.relations \in Seq(RelationTree)
  BY DEF TypeTree
<1>5. d.relations = [i \in DOMAIN tree.relations |-> ExtractRelation(tree.relations[i])]
  BY <1>3 DEF ExtractType, Each
<1>6. DOMAIN d.relations = 1..Len(tree.relations) /\ Len(tree.relations) \in Nat
  BY <1>4, <1>5
<1>7. ASSUME NEW r \in ToSet(d.relations) PROVE OperandsOK(r)
  <2>1. PICK i \in DOMAIN tree.relations : r = ExtractRelation(tree.relations[i])
    BY <1>5 DEF ToSet
  <2>2. tree.relations[i] \in RelationTree
    BY <1>4
  <2> QED BY <2>1, <2>2, ExtractedOperands
<1> QED BY <1>6, <1>7

(* What repeats in q repeats in p, if what is equal in q is so in p.           *)
LEMMA NothingRepeats ==
    ASSUME NEW n \in Nat, NEW p, NEW q, DOMAIN p = 1..n, DOMAIN q = 1..n,
           \A i, j \in 1..n : q[i] = q[j] => p[i] = p[j], Repeats(p) = {}
    PROVE  Repeats(q) = {}
<1> SUFFICES ASSUME NEW i \in 1..n, NEW j \in 1..(i - 1), q[j] = q[i] PROVE FALSE
  BY DEF Repeats
<1>1. j \in 1..n /\ p[j] = p[i]
  OBVIOUS
<1> QED BY <1>1 DEF Repeats

(* No operand is written twice.                                                *)
LEMMA PartialsStayApart ==
    ASSUME NEW x, NEW y, NEW u, NEW t, NEW new, Careful(x, y, u, t, new), NEW w \in SameScope(u), w \in Models,
           NEW d \in ToSet(Extract[w].types), NEW r \in ToSet(d.relations)
    PROVE  DuplicatePartials(y, r) = {}
<1> DEFINE terms(i) == r.partials[i].terms
           all(z, i) == [k \in DOMAIN terms(i) |-> Written(z, terms(i)[k])]
<1>1. OperandsOK(r)
  BY ExtractedSequences
<1>2. PICK n \in Nat : DOMAIN r.partials = 1..n
  BY <1>1 DEF OperandsOK
<1>3. ASSUME NEW z PROVE Partials(z, r) = [i \in 1..n |-> <<r.partials[i].form, all(z, i)>>]
  <2>1. Partials(z, r) = [i \in DOMAIN r.partials |-> <<r.partials[i].form, all(z, i)>>]
    BY DEF Partials, Each
  <2> QED BY <1>2, <2>1
<1>4. Repeats(Partials(x, r)) = {}
  <2>1. DuplicatePartials(x, r) = {}
    BY CorrectDocuments DEF Careful, CorrectModel, CorrectType, CorrectRelation
  <2> QED BY <2>1 DEF DuplicatePartials
<1>5. ASSUME NEW i \in 1..n, NEW j \in 1..n, all(y, i) = all(y, j) PROVE all(x, i) = all(x, j)
  <2>1. \A z, k : DOMAIN all(z, k) = DOMAIN terms(k) /\ \A m \in DOMAIN terms(k) : all(z, k)[m] = Written(z, terms(k)[m])
    OBVIOUS
  <2>2. DOMAIN terms(i) = DOMAIN terms(j) /\ \A m \in DOMAIN terms(i) : Written(y, terms(i)[m]) = Written(y, terms(j)[m])
    <3> HIDE DEF all, terms
    <3> QED BY <1>5, <2>1
  <2>3. \A m \in DOMAIN terms(i) : terms(i)[m] \in ToSet(r.terms) /\ terms(j)[m] \in ToSet(r.terms)
    BY <1>1, <1>2, <2>2 DEF OperandsOK, ToSet
  <2>4. ASSUME NEW m \in DOMAIN terms(i) PROVE Written(x, terms(i)[m]) = Written(x, terms(j)[m])
    <3> HIDE DEF terms
    <3> QED BY <2>2, <2>3, TermsStayApart
  <2> HIDE DEF terms
  <2> QED BY <2>2, <2>4
<1> DEFINE p == Partials(x, r)
           q == Partials(y, r)
<1>6. /\ DOMAIN p = 1..n /\ DOMAIN q = 1..n
      /\ \A i \in 1..n : p[i] = <<r.partials[i].form, all(x, i)>> /\ q[i] = <<r.partials[i].form, all(y, i)>>
  <2> HIDE DEF all
  <2> QED BY <1>3
<1>7. \A i, j \in 1..n : q[i] = q[j] => p[i] = p[j]
  <2> HIDE DEF all, p, q
  <2> QED BY <1>5, <1>6
<1>8. Repeats(q) = {}
  <2> HIDE DEF p, q
  <2> QED BY <1>4, <1>6, <1>7, NothingRepeats DEF p
<1> QED BY <1>8 DEF DuplicatePartials

(* No type restriction of a relation is written twice.                         *)
LEMMA RestrictionsStayApart ==
    ASSUME NEW x, NEW y, NEW u, NEW t, NEW new, Careful(x, y, u, t, new), NEW w \in SameScope(u), w \in Models,
           NEW d \in ToSet(Extract[w].types), NEW r \in ToSet(d.relations)
    PROVE  DuplicateRestrictions(y, r) = {}
<1> DEFINE types == Filter(r.terms, {a \in ToSet(r.terms) : a.node = "restriction"})
           all(z) == [i \in DOMAIN types |-> Written(z, types[i])]
<1>1. OperandsOK(r)
  BY ExtractedSequences
<1>2. types \in Seq(TermTree) /\ ToSet(types) \subseteq ToSet(r.terms)
  <2>1. r.terms \in Seq(TermTree)
    BY <1>1 DEF OperandsOK
  <2> DEFINE S == {a \in ToSet(r.terms) : a.node = "restriction"}
  <2>2. ASSUME NEW R PROVE Filter(r.terms, R) \in Seq(TermTree) /\ ToSet(Filter(r.terms, R)) \subseteq ToSet(r.terms)
    <3>1. /\ Filter(r.terms, R) \in Seq(TermTree \cap R)
          /\ ToSet(Filter(r.terms, R)) = ToSet(r.terms) \cap R
      BY <2>1, FilterMembers
    <3> QED BY <3>1
  <2> HIDE DEF S
  <2>3. Filter(r.terms, S) \in Seq(TermTree) /\ ToSet(Filter(r.terms, S)) \subseteq ToSet(r.terms)
    BY <2>2
  <2> QED BY <2>3 DEF S
<1>3. ASSUME NEW z PROVE DuplicateRestrictions(z, r) = {} <=> Repeats(all(z)) = {}
  <2> DEFINE first(i) == CHOOSE j \in 1..i : all(z)[j] = all(z)[i] /\ j \notin Repeats(all(z))
  <2>1. DuplicateRestrictions(z, r) =
            {[what |-> "duplicate restriction", at |-> types[first(i)].type, name |-> z[types[i].type]] :
                i \in Repeats(all(z))}
    BY DEF DuplicateRestrictions, Each
  <2> HIDE DEF first, all, types
  <2> QED BY <2>1
<1> HIDE DEF types
<1>4. Repeats(all(x)) = {}
  <2>1. DuplicateRestrictions(x, r) = {}
    BY CorrectDocuments DEF Careful, CorrectModel, CorrectType, CorrectRelation
  <2> QED BY <1>3, <2>1
<1>5. ASSUME NEW i \in DOMAIN types, NEW j \in DOMAIN types, Written(y, types[i]) = Written(y, types[j])
      PROVE  Written(x, types[i]) = Written(x, types[j])
  <2>1. types[i] \in ToSet(r.terms) /\ types[j] \in ToSet(r.terms)
    BY <1>2 DEF ToSet
  <2> QED BY <1>5, <2>1, TermsStayApart
<1> DEFINE n == Len(types)
<1>6. n \in Nat /\ DOMAIN types = 1..n
  BY <1>2
<1> HIDE DEF n
<1>7. /\ DOMAIN all(x) = 1..n /\ DOMAIN all(y) = 1..n
      /\ \A i, j \in 1..n : all(y)[i] = all(y)[j] => all(x)[i] = all(x)[j]
  BY <1>5, <1>6
<1>8. Repeats(all(y)) = {}
  <2> HIDE DEF all
  <2> QED BY <1>4, <1>6, <1>7, NothingRepeats
<1> QED BY <1>3, <1>8

(* No type has two relations of one name.                                      *)
LEMMA NamedStayApart ==
    ASSUME NEW x, NEW y, NEW u, NEW t, NEW new, Careful(x, y, u, t, new), NEW w \in SameScope(u), w \in Models,
           NEW d \in ToSet(Extract[w].types)
    PROVE  DuplicateRelations(y, d) = {}
<1> DEFINE names(z) == [i \in DOMAIN d.relations |-> z[d.relations[i].name]]
           a == x[d.name]
<1>1. PICK n \in Nat : DOMAIN d.relations = 1..n
  BY ExtractedSequences
<1>2. ASSUME NEW z PROVE DuplicateRelations(z, d) = {} <=> Repeats(names(z)) = {}
  BY DEF DuplicateRelations, Each
<1>3. Repeats(names(x)) = {}
  <2>1. DuplicateRelations(x, d) = {}
    BY CorrectDocuments DEF Careful, CorrectModel, CorrectType
  <2> QED BY <1>2, <2>1
<1>4. FreeIn(x, w, t, new) /\ DeclaredAfter(x, y, w, t, new)
  BY LookupsInScope, DeclarationsAfter DEF Careful
<1>5. ASSUME NEW i \in 1..n
      PROVE  LET m == x[d.relations[i].name]
             IN  RelationDecls(x, w, a, m) # {} /\ y[d.relations[i].name] = RelationAfter(t, new, a, m)
  <2> DEFINE r == d.relations[i]
             e == [type |-> d.name, rel |-> r]
  <2>1. r \in ToSet(d.relations)
    BY <1>1 DEF ToSet
  <2>2. e \in RelationsIn[w] /\ e.type = d.name /\ e.rel = r
    BY <2>1, OwnDeclarations
  <2> HIDE DEF e, r
  <2> QED BY <1>4, <2>2 DEF DeclaredAfter, r
<1>6. ASSUME NEW i \in 1..n, NEW j \in 1..n, names(y)[i] = names(y)[j] PROVE names(x)[i] = names(x)[j]
  <2>1. names(y)[i] = y[d.relations[i].name] /\ names(y)[j] = y[d.relations[j].name]
        /\ names(x)[i] = x[d.relations[i].name] /\ names(x)[j] = x[d.relations[j].name]
    BY <1>1
  <2> DEFINE k == x[d.relations[i].name]
             m == x[d.relations[j].name]
  <2>2. /\ RelationDecls(x, w, a, k) # {} /\ RelationDecls(x, w, a, m) # {}
        /\ RelationAfter(t, new, a, k) = RelationAfter(t, new, a, m)
    <3> HIDE DEF a, names
    <3> QED BY <1>5, <1>6, <2>1
  <2>3. k = m
    <3> HIDE DEF a, k, m
    <3> QED BY <1>4, <2>2, DeclaredStayApart
  <2> HIDE DEF names
  <2> QED BY <2>1, <2>3
<1>7. DOMAIN names(x) = 1..n /\ DOMAIN names(y) = 1..n
  BY <1>1
<1>8. Repeats(names(y)) = {}
  <2> HIDE DEF names
  <2> QED BY <1>3, <1>6, <1>7, NothingRepeats
<1> QED BY <1>2, <1>8

(* No name is refused.                                                         *)
LEMMA NamesStayAccepted ==
    ASSUME NEW x, NEW y, NEW u, NEW t, NEW new, Careful(x, y, u, t, new), NEW w \in SameScope(u), w \in Models,
           NEW d \in ToSet(Extract[w].types)
    PROVE  NameErrors(y, d) = {}
<1> DEFINE S == {d.name} \cup {r.name : r \in ToSet(d.relations)}
<1>1. NameErrors(x, d) = {}
  BY CorrectDocuments DEF Careful, CorrectModel, CorrectType
<1>2. \A s \in S : x[s] \notin Refused
  BY <1>1 DEF NameErrors
<1>3. \A s \in S : s \in Sites
  BY Extracted DEF DeclarationOK, RelationOK
<1>4. \A s \in Sites : y[s] = new \/ y[s] = x[s]
  BY DEF Careful, Renamed
<1>5. new \notin Refused
  BY DEF Careful
<1>6. \A s \in S : y[s] \notin Refused
  BY <1>2, <1>3, <1>4, <1>5
<1> QED BY <1>6 DEF NameErrors

(* No type is declared twice.                                                  *)
LEMMA TypesStayApart ==
    ASSUME NEW x, NEW y, NEW u, NEW t, NEW new, Careful(x, y, u, t, new), NEW w \in SameScope(u), w \in Models
    PROVE  DuplicateTypes(y, w) = {}
<1> DEFINE of(z, m) == Filter(TypesIn[w], {d \in TypeDecls(z, w, m) : ~d.extend})
           twice(z, d) == ~d.extend /\ of(z, z[d.name])[1] = d /\ Len(of(z, z[d.name])) > 1
<1>1. ASSUME NEW z PROVE DuplicateTypes(z, w) = {} <=> \A d \in ToSet(Extract[w].types) : ~twice(z, d)
  <2>1. DuplicateTypes(z, w) = {[what |-> "duplicate type", at |-> d.name, name |-> z[d.name]] :
                                   d \in {d \in ToSet(Extract[w].types) : twice(z, d)}}
    <3>1. TypesChecked[w] = TypesIn[w] /\ \A m : KnownTypes(z, w, m) = TypeDecls(z, w, m)
      BY Scopes, ModelsAlike, SameLookedUp DEF Alike
    <3> DEFINE declared(m) == Filter(TypesChecked[w], {d \in KnownTypes(z, w, m) : ~d.extend})
    <3>2. \A m : declared(m) = of(z, m)
      BY <3>1
    <3>3. DuplicateTypes(z, w) = {[what |-> "duplicate type", at |-> d.name, name |-> z[d.name]] :
                                     d \in {d \in ToSet(Extract[w].types) :
                                              ~d.extend /\ declared(z[d.name])[1] = d /\ Len(declared(z[d.name])) > 1}}
      BY DEF DuplicateTypes
    <3> HIDE DEF declared, of
    <3> QED BY <3>2, <3>3
  <2> HIDE DEF twice
  <2> QED BY <2>1
<1>2. \A d \in ToSet(Extract[w].types) : ~twice(x, d)
  <2>1. DuplicateTypes(x, w) = {}
    BY CorrectDocuments DEF Careful, CorrectModel
  <2> HIDE DEF twice
  <2> QED BY <1>1, <2>1
<1>3. ASSUME NEW d \in ToSet(Extract[w].types) PROVE TypeDecls(y, w, y[d.name]) = TypeDecls(x, w, x[d.name])
  <2>1. LookupsAfter(x, y, w, t, new) /\ DeclaredAfter(x, y, w, t, new)
    BY LookupsInScope, DeclarationsAfter DEF Careful
  <2>2. d \in ToSet(TypesIn[w])
    BY OwnDeclarations
  <2> QED BY <2>1, <2>2 DEF LookupsAfter, DeclaredAfter
<1>4. ASSUME NEW d \in ToSet(Extract[w].types) PROVE of(y, y[d.name]) = of(x, x[d.name])
  BY <1>3
<1> HIDE DEF of
<1>5. \A d \in ToSet(Extract[w].types) : ~twice(y, d)
  BY <1>2, <1>4
<1> QED BY <1>1, <1>5

(* The conditions named in a scope are renamed with their declaration.         *)
LEMMA ConditionUsesAfter ==
    ASSUME NEW x, NEW y, NEW u, NEW t, NEW new, Renamed(x, y, u, t, new), NEW w \in SameScope(u),
           NEW e \in RelationsIn[w], NEW ref \in e.rel.refs, ref.kind = "condition"
    PROVE  y[ref.at] = NameAfter(t, new, "condition", x[ref.at])
<1>1. w \in Docs(View) /\ u \in Docs(View) /\ ToSet(Scope[w]) = ToSet(Scope[u])
  BY Scopes DEF Renamed, SameScope
<1>2. ToSet(Scope[w]) \subseteq Docs(View) \cap RelatedDocuments(u)
  BY <1>1, Reached DEF Renamed
<1> DEFINE l == Leaf(ref.kind, ref.at, e.type, ref.by)
<1>3. PICK v \in ToSet(Scope[w]) : l \in Leaves(v)
  BY <1>1, RelationsHaveLeaves
<1>4. l.role = "condition" /\ l.at = ref.at
  BY DEF Leaf
<1> HIDE DEF l
<1>5. LeafAfter(x, y, v, l, t, new)
  BY <1>2, <1>3, NameAtLeaf
<1>6. KindAt(l.role) = "condition"
  BY <1>4 DEF KindAt
<1> QED BY <1>4, <1>5, <1>6 DEF LeafAfter

(* No condition is left without a use.                                         *)
LEMMA ConditionsStayUsed ==
    ASSUME NEW x, NEW y, NEW u, NEW t, NEW new, Careful(x, y, u, t, new), NEW w \in SameScope(u), w \in Models
    PROVE  UnusedConditions(y, w) = {}
<1> DEFINE uses(z, s) == \E e \in RelationsIn[w] : \E ref \in e.rel.refs : ref.kind = "condition" /\ z[ref.at] = z[s]
<1>1. ASSUME NEW z PROVE UnusedConditions(z, w) = {} <=> \A s \in ToSet(Extract[w].conds) : uses(z, s)
  <2> DEFINE used == UNION {{z[ref.at] : ref \in {ref \in r.rel.refs : ref.kind = "condition"}} : r \in RelationsIn[w]}
  <2>1. UnusedConditions(z, w) = {[what |-> "unused", at |-> s, name |-> z[s]] :
                                     s \in {s \in ToSet(Extract[w].conds) : z[s] \notin used}}
    <3> DEFINE relations == UNION {ToSet(d.relations) : d \in ToSet(TypesChecked[w])}
               named == UNION {{z[ref.at] : ref \in {ref \in r.refs : ref.kind = "condition"}} : r \in relations}
    <3>1. w \in Docs(View) /\ TypesChecked[w] = TypesIn[w]
      BY Scopes, ModelsAlike DEF Alike
    <3>2. \A r : r \in relations <=> \E e \in RelationsIn[w] : e.rel = r
      <4> DEFINE T == ToSet(TypesIn[w])
      <4>1. RelationsIn[w] = UNION {{[type |-> d.name, rel |-> r] : r \in ToSet(d.relations)} : d \in T}
        BY <3>1 DEF RelationsIn
      <4>2. relations = UNION {ToSet(d.relations) : d \in T}
        BY <3>1
      <4> HIDE DEF T, relations
      <4>3. ASSUME NEW d \in T, NEW r \in ToSet(d.relations) PROVE \E e \in RelationsIn[w] : e.rel = r
        <5>1. [type |-> d.name, rel |-> r] \in RelationsIn[w]
          BY <4>1
        <5> QED BY <5>1
      <4>4. ASSUME NEW e \in RelationsIn[w] PROVE e.rel \in relations
        BY <4>1, <4>2
      <4> QED BY <4>2, <4>3, <4>4
    <3>3. named = used
      <4> HIDE DEF relations
      <4> QED BY <3>2
    <3> HIDE DEF used
    <3> QED BY <3>3 DEF UnusedConditions
  <2>2. ASSUME NEW s PROVE z[s] \in used <=> uses(z, s)
    OBVIOUS
  <2> HIDE DEF used, uses
  <2> QED BY <2>1, <2>2
<1>2. \A s \in ToSet(Extract[w].conds) : uses(x, s)
  <2>1. UnusedConditions(x, w) = {}
    BY CorrectDocuments DEF Careful, CorrectModel
  <2> HIDE DEF uses
  <2> QED BY <1>1, <2>1
<1>3. ASSUME NEW s \in ToSet(Extract[w].conds) PROVE uses(y, s)
  <2>1. PICK e \in RelationsIn[w] : \E ref \in e.rel.refs : ref.kind = "condition" /\ x[ref.at] = x[s]
    BY <1>2
  <2>2. PICK ref \in e.rel.refs : ref.kind = "condition" /\ x[ref.at] = x[s]
    BY <2>1
  <2>3. y[ref.at] = NameAfter(t, new, "condition", x[ref.at])
    BY <2>2, ConditionUsesAfter DEF Careful
  <2>4. y[s] = NameAfter(t, new, "condition", x[s])
    <3>1. DeclaredAfter(x, y, w, t, new) /\ s \in ConditionsIn[w]
      BY DeclarationsAfter, OwnDeclarations DEF Careful
    <3> QED BY <3>1 DEF DeclaredAfter
  <2> QED BY <2>2, <2>3, <2>4
<1> QED BY <1>1, <1>3

(* A model that was correct is correct after a rename.                         *)
LEMMA ModelsStayCorrect ==
    ASSUME NEW x, NEW y, NEW u, NEW t, NEW new, Careful(x, y, u, t, new), NEW w \in SameScope(u), w \in Models
    PROVE  Correct(y, w)
<1>1. ASSUME NEW d \in ToSet(Extract[w].types), NEW r \in ToSet(d.relations) PROVE CorrectRelation(y, w, d, r)
  BY PartialsStayApart, RestrictionsStayApart, StillResolved DEF CorrectRelation
<1>2. ASSUME NEW d \in ToSet(Extract[w].types) PROVE CorrectType(y, w, d)
  BY <1>1, NamesStayAccepted, NamedStayApart DEF CorrectType
<1>3. CorrectModel(y, w)
  BY <1>2, TypesStayApart, ConditionsStayUsed DEF CorrectModel
<1> QED BY <1>3, CorrectDocuments

(* A store test whose model_file leads to no model either has nothing looked   *)
(* up, or finds no type at all: of a file that is no model.                    *)
LEMMA NoTypesKnown ==
    ASSUME NEW u \in Stores, Readable(u), u \notin Inlined, ~Backed(u), Checked[u] # <<>>
    PROVE  ToSet(TypesChecked[u]) = {}
<1> DEFINE path == Text(View, u).model
           w == View.owner[path]
           scope == StoreScope(View, Disk, u)
<1>1. u \notin Models /\ path \in Paths \cup {NoPath}
  BY ViewAssumption DEF Models, Stores, DocsOfKind
<1>2. Checked[u] = [i \in DOMAIN scope |-> IF scope[i] \in Models THEN Extract[scope[i]] ELSE NoModel]
  BY <1>1 DEF Checked, Each
<1>3. scope # <<>>
  <2> HIDE DEF scope
  <2> QED BY <1>2
<1>4. path # NoPath /\ Disk[path] # NoFile
  <2>1. path # NoPath
    BY <1>3 DEF StoreScope
  <2> QED BY <2>1 DEF Readable, Missing
<1>5. ScopeOfModelRef(View, path) = <<>>
  BY <1>4 DEF Backed, Readable
<1>6. Loaded(View, <<path>>) = Filter(<<w>>, URIs)
  <2>1. [i \in DOMAIN <<path>> |-> View.owner[<<path>>[i]]] = <<w>>
    OBVIOUS
  <2> QED BY <2>1 DEF Loaded
<1>7. w # NoURI
  <2> SUFFICES ASSUME w = NoURI PROVE FALSE
    OBVIOUS
  <2>1. Filter(<<w>>, URIs) = <<>>
    <3>1. Filter(<<NoURI>>, URIs) \in Seq({NoURI} \cap URIs)
      <4>1. <<NoURI>> \in Seq({NoURI})
        OBVIOUS
      <4> QED BY <4>1, FilterMembers
    <3>2. {NoURI} \cap URIs = {}
      BY PathAssumption
    <3> QED BY <3>1, <3>2
  <2> QED BY <1>3, <1>4, <1>6, <2>1 DEF StoreScope
<1>8. w \in URIs /\ w \in Docs(View) /\ KindOf[path] = Kind(w)
  BY <1>1, <1>4, <1>7, ViewAssumption DEF Docs, Kind
<1>9. Kind(w) # "model"
  BY <1>5, <1>7 DEF ScopeOfModelRef
<1>10. Kind(w) # "mod"
  <2> SUFFICES ASSUME Kind(w) = "mod" PROVE FALSE
    OBVIOUS
  <2>1. LoadedModels(View, Listed(View, w)) = <<>>
    BY <1>5, <1>7 DEF ScopeOfModelRef
  <2>2. Loaded(View, Listed(View, w)) = <<>>
    BY <1>8, <2>1, MembersAreModels DEF DocsOfKind
  <2> QED BY <1>3, <1>4, <1>7, <1>8, <2>2 DEF StoreScope
<1>11. scope = <<w>>
  <2>1. Filter(<<w>>, URIs) = <<w>>
    <3>1. <<w>> \in Seq(URIs)
      BY <1>8
    <3> QED BY <3>1, FilterAll
  <2> QED BY <1>4, <1>6, <1>7, <1>8, <1>10, <2>1 DEF StoreScope
<1>12. w \notin Models
  BY <1>9 DEF Models, DocsOfKind
<1>13. Checked[u] = <<NoModel>>
  <2> HIDE DEF scope
  <2> QED BY <1>2, <1>11, <1>12
<1>14. TypesChecked[u] = FlattenSeq(<< <<>> >>)
  <2>1. TypesChecked[u] = FlattenSeq([i \in DOMAIN Checked[u] |-> Checked[u][i].types])
    BY DEF TypesChecked, Each
  <2>2. [i \in DOMAIN <<NoModel>> |-> <<NoModel>>[i].types] = << <<>> >>
    BY DEF NoModel
  <2> QED BY <1>13, <2>1, <2>2
<1>15. ToSet(FlattenSeq(<< <<>> >>)) = {}
  <2> DEFINE s == << <<>> >>
  <2>1. s \in Seq(Seq({})) /\ \A i \in DOMAIN s : ToSet(s[i]) = {}
    BY DEF ToSet
  <2> HIDE DEF s
  <2>2. ToSet(FlattenSeq(s)) = UNION {ToSet(s[i]) : i \in DOMAIN s}
    BY <2>1, FlattenMembers
  <2> QED BY <2>1, <2>2 DEF s
<1> QED BY <1>14, <1>15

(* Where no type is known, an entry that names one is reported.                *)
LEMMA NothingToCheck ==
    ASSUME NEW x, NEW u, ToSet(TypesChecked[u]) = {}, NEW e \in EntryTree
    PROVE  EntryErrors(x, u, e) = {} <=> ToSet(e.objects) = {} /\ ToSet(e.filters) = {} /\ ToSet(e.users) = {}
<1> DEFINE known == Filter(e.objects, {s \in ToSet(e.objects) : KnowsType(x, u, x[s])})
           ofUsers == UNION {UserErrors(x, u, user) : user \in ToSet(e.users)}
<1>1. \A n : ~KnowsType(x, u, n)
  BY DEF KnowsType
<1>2. known = <<>>
  <2>1. {s \in ToSet(e.objects) : KnowsType(x, u, x[s])} = {}
    BY <1>1
  <2>2. e.objects \in Seq(Sites)
    BY DEF EntryTree
  <2>3. Filter(e.objects, {}) \in Seq(Sites \cap {})
    BY <2>2, FilterMembers
  <2>4. Filter(e.objects, {}) = <<>>
    BY <2>3
  <2>5. known = Filter(e.objects, {})
    BY <2>1
  <2> QED BY <2>4, <2>5
<1>3. EntryErrors(x, u, e) = UndeclaredTypes(x, u, e.objects) \cup UndeclaredTypes(x, u, e.filters) \cup ofUsers
  <2> HIDE DEF ofUsers
  <2> QED BY <1>2 DEF EntryErrors, ofUsers
<1>4. ASSUME NEW list PROVE UndeclaredTypes(x, u, list) = {} <=> ToSet(list) = {}
  BY <1>1 DEF UndeclaredTypes
<1>5. ASSUME NEW user PROVE UserErrors(x, u, user) # {}
  <2>1. UserErrors(x, u, user) = UndeclaredTypes(x, u, <<user.type>>)
    BY <1>1 DEF UserErrors
  <2>2. user.type \in ToSet(<<user.type>>)
    BY DEF ToSet
  <2> QED BY <1>4, <2>1, <2>2
<1>6. ofUsers = {} <=> ToSet(e.users) = {}
  <2>1. ofUsers = {} <=> \A user \in ToSet(e.users) : UserErrors(x, u, user) = {}
    OBVIOUS
  <2> HIDE DEF ofUsers
  <2> QED BY <1>5, <2>1
<1> HIDE DEF ofUsers
<1> QED BY <1>3, <1>4, <1>6

(* The same of a store test that does not carry its model.                     *)
LEMMA StoresStayCorrect ==
    ASSUME NEW x, NEW y, NEW u, NEW t, NEW new, Careful(x, y, u, t, new), NEW w \in SameScope(u), w \in Stores,
           w \notin Inlined, Correct(x, w)
    PROVE  Correct(y, w)
<1>0. w \in Docs(View) /\ Readable(w)
  BY Scopes, CorrectDocuments
<1> SUFFICES ASSUME Checked[w] # <<>>, NEW e \in ToSet(Tests[w]) PROVE EntryErrors(y, w, e) = {}
  BY <1>0, CorrectDocuments
<1>1. Renamed(x, y, u, t, new) /\ LookupsAfter(x, y, w, t, new)
  BY LookupsInScope DEF Careful
<1>2. e \in EntryTree /\ EntryErrors(x, w, e) = {}
  BY <1>0, CorrectDocuments, TreesAssumption DEF ToSet
<1> SUFFICES ASSUME Backed(w) PROVE EntryErrors(y, w, e) = {}
  BY <1>0, <1>2, NoTypesKnown, NothingToCheck
<1>3. Alike(w) /\ ~EntryWrong(x, w, e)
  BY <1>0, <1>2, StoresAlike, EntryProblems
<1> DEFINE types == ToSet(e.objects) \cup ToSet(e.filters) \cup {user.type : user \in ToSet(e.users)}
           sets == {user \in ToSet(e.users) : user.relation # NoSite}
<1>4. EntryLeaves(e) \subseteq Leaves(w)
  BY DEF Leaves, Stores, DocsOfKind
<1>5. ASSUME NEW s \in types PROVE y[s] = NameAfter(t, new, "type", x[s])
  <2> DEFINE l == Leaf("entry type", s, NoSite, NoSite)
  <2>1. l \in Leaves(w)
    BY <1>4 DEF EntryLeaves
  <2>2. l.role = "entry type" /\ l.at = s
    BY DEF Leaf
  <2> HIDE DEF l
  <2>3. LeafAfter(x, y, w, l, t, new)
    BY <1>1, <2>1, LeavesAfter
  <2>4. KindAt(l.role) = "type"
    BY <2>2 DEF KindAt
  <2> QED BY <2>2, <2>3, <2>4 DEF LeafAfter
<1>6. ASSUME NEW s, NEW p \in types, NEW l \in Leaves(w), l = Leaf("entry relation", s, NoSite, p),
             HasRelation(x, w, x[p], x[s])
      PROVE  HasRelation(y, w, y[p], y[s])
  <2>1. l.role = "entry relation" /\ l.at = s /\ l.by = p
    BY <1>6 DEF Leaf
  <2>2. LeafAfter(x, y, w, l, t, new)
    BY <1>1, LeavesAfter
  <2>3. p # NoSite
    <3>1. /\ e.objects \in Seq(Sites) /\ e.filters \in Seq(Sites)
          /\ e.users \in Seq([type : Sites, relation : OptionalSite])
      BY <1>2 DEF EntryTree
    <3>2. ASSUME NEW S, NEW q \in Seq(S) PROVE ToSet(q) \subseteq S
      BY DEF ToSet
    <3>3. ToSet(e.users) \subseteq [type : Sites, relation : OptionalSite]
      BY <3>1, <3>2
    <3> QED BY <3>1, <3>2, <3>3, TreesAssumption
  <2>4. KindAt(l.role) = "relation" /\ OwnersAt(x, w, l) = {x[p]}
    BY <2>1, <2>3 DEF KindAt, OwnersAt
  <2>5. y[s] = RelationAfter(t, new, x[p], x[s]) /\ y[p] = NameAfter(t, new, "type", x[p])
    BY <1>5, <2>1, <2>2, <2>4 DEF LeafAfter
  <2>6. RelationDecls(x, w, x[p], x[s]) # {}
    BY <1>6, Known
  <2>7. RelationDecls(y, w, y[p], y[s]) = RelationDecls(x, w, x[p], x[s])
    BY <1>1, <2>5, <2>6 DEF LookupsAfter
  <2> QED BY <2>6, <2>7, Known
<1>7. ASSUME NEW s \in types PROVE HasType(y, w, y[s])
  <2>1. TypeDecls(x, w, x[s]) # {}
    BY <1>3, Known DEF EntryWrong
  <2>2. TypeDecls(y, w, y[s]) = TypeDecls(x, w, x[s])
    BY <1>1, <1>5, <2>1 DEF LookupsAfter
  <2> QED BY <2>1, <2>2, Known
<1>8. ASSUME NEW user \in sets PROVE HasRelation(y, w, y[user.type], y[user.relation])
  <2> DEFINE l == Leaf("entry relation", user.relation, NoSite, user.type)
  <2>1. l \in Leaves(w) /\ user.type \in types
    BY <1>4 DEF EntryLeaves
  <2>2. HasRelation(x, w, x[user.type], x[user.relation])
    BY <1>3 DEF EntryWrong
  <2> HIDE DEF types
  <2> QED BY <1>6, <2>1, <2>2
<1>9. ASSUME e.objects # <<>>, NEW s \in ToSet(e.relations) PROVE HasRelation(y, w, y[e.objects[1]], y[s])
  <2> DEFINE l == Leaf("entry relation", s, NoSite, e.objects[1])
  <2>1. l \in Leaves(w)
    BY <1>4, <1>9 DEF EntryLeaves
  <2>2. e.objects[1] \in types
    BY <1>2, <1>9 DEF EntryTree, ToSet
  <2>3. HasRelation(x, w, x[e.objects[1]], x[s])
    BY <1>3, <1>9 DEF EntryWrong
  <2> HIDE DEF types
  <2> QED BY <1>6, <2>1, <2>2, <2>3
<1>10. ~EntryWrong(y, w, e)
  BY <1>7, <1>8, <1>9 DEF EntryWrong
<1> QED BY <1>0, <1>2, <1>3, <1>10, EntryProblems

(* A rename of a symbol among correct models leaves every one of them without  *)
(* an error, and so it does a store test in their scope that was without and   *)
(* does not carry its model: each use is found, no name is taken twice, no     *)
(* condition loses its last use.  What RenameBreaksNothing excepts is what the *)
(* code overlooks: a relation right of `from`, a name nameErrors refuses, and  *)
(* a name that may belong to several types and is mistaken.                    *)
THEOREM CorrectScopesStayCorrect == RenameSpec => RenameBreaksNothing
<1>1. ASSUME RenameTypeOK, RenameTypeOK', [RenameNext]_vars, renames' > renames,
             request'.to \notin Refused, \A w \in SameScope(request'.from) \cap Models : Correct(text, w),
             ~UsedAsTupleset(text, request'.from, request'.target),
             ~Mistaken(text, request'.from, request'.target, request'.to),
             NEW w \in SameScope(request'.from) \ Inlined, Correct(text, w)
      PROVE  Correct(text', w)
  <2> DEFINE u == request'.from
             t == request'.target
             new == request'.to
             x == text
             y == text'
  <2>1. Renamed(x, y, u, t, new)
    BY <1>1, RenamesAreRenamed
  <2>2. \A s \in Sites : y[s] # NoSite
    BY <1>1, NamesAssumption DEF RenameTypeOK
  <2>3. Careful(x, y, u, t, new) /\ w \in SameScope(u) /\ w \notin Inlined /\ Correct(x, w)
    BY <1>1, <2>1, <2>2 DEF Careful
  <2>4. w \in Models \/ w \in Stores
    BY DEF SameScope
  <2>5. Correct(y, w)
    <3> HIDE DEF u, t, new, x, y
    <3> QED BY <2>3, <2>4, ModelsStayCorrect, StoresStayCorrect
  <2> QED BY <2>5
<1>2. RenameTypeOK /\ RenameTypeOK' /\ [RenameNext]_vars =>
        [ /\ renames' > renames /\ request'.to \notin Refused
          /\ \A w \in SameScope(request'.from) \cap Models : Correct(text, w)
          /\ ~UsedAsTupleset(text, request'.from, request'.target)
          /\ ~Mistaken(text, request'.from, request'.target, request'.to)
          => \A w \in SameScope(request'.from) \ Inlined : Correct(text, w) => Correct(text', w) ]_vars
  BY <1>1
<1> QED BY <1>2, TypeCorrect, PTL DEF RenameSpec, RenameBreaksNothing
================================================================================
