--------------------------- MODULE DiagnosticsProofs ---------------------------
(* Lemmas about the operators of Diagnostics: which documents a result        *)
(* touches, and that the modules of an fga.mod, checked through one of them,   *)
(* get exactly the lists that each of them would get by itself.                *)
EXTENDS Diagnostics, WorkspaceProofs

(* The problems of a merged result are those of both.                          *)
LEMMA MergeTouches ==
    ASSUME NEW r, NEW s, NEW x
    PROVE  /\ DOMAIN Merge(r, s) = DOMAIN r \cup DOMAIN s
           /\ x \in DOMAIN r \cup DOMAIN s => Merge(r, s)[x] = Touching(r, x) \cup Touching(s, x)
  BY DEF Merge

(* moduleSet of a module with an fga.mod, one of whose modules is loaded, is   *)
(* what is loaded of the fga.mod.                                              *)
LEMMA SetDocsMembers ==
    ASSUME NEW v, ViewOK(v), NEW u \in URIs
    PROVE  /\ SetDocs(v, u) \in Seq(URIs)
           /\ Kind(u) = "model" => ToSet(SetDocs(v, u)) \subseteq ModelURIs
           /\ \A x \in URIs, mod \in URIs :
                (ModFor(v, PathOf[u]) = mod /\ x \in ToSet(Loaded(v, Listed(v, mod))))
                    => SetDocs(v, u) = Loaded(v, Listed(v, mod))
<1> DEFINE mod == ModFor(v, PathOf[u])
<1>1. <<u>> \in Seq(URIs) /\ ToSet(<<u>>) = {u}
  BY DEF ToSet
<1>2. ASSUME mod # NoURI
      PROVE  Loaded(v, Listed(v, mod)) \in Seq(URIs) /\ ToSet(Loaded(v, Listed(v, mod))) \subseteq ModelURIs
  <2>1. mod \in DocsOfKind(v, "mod")
    BY <1>2, ModForClaims
  <2>2. Listed(v, mod) \in Seq({q \in Paths : KindOf[q] = "model"})
    BY <2>1 DEF ViewOK
  <2> QED BY <2>2, LoadedAreModels, LoadedMembers
<1>3. SetDocs(v, u) = IF mod = NoURI THEN <<u>> ELSE OrElse(Loaded(v, Listed(v, mod)), <<u>>)
  BY DEF SetDocs
<1>4. SetDocs(v, u) \in Seq(URIs)
  BY <1>1, <1>2, <1>3 DEF OrElse
<1>5. Kind(u) = "model" => ToSet(SetDocs(v, u)) \subseteq ModelURIs
  BY <1>1, <1>2, <1>3 DEF OrElse, ModelURIs
<1>6. ASSUME NEW m \in URIs, NEW x \in URIs, mod = m, x \in ToSet(Loaded(v, Listed(v, m)))
      PROVE  SetDocs(v, u) = Loaded(v, Listed(v, m))
  <2>1. Loaded(v, Listed(v, m)) # <<>>
    <3>1. ToSet(<<>>) = {}
      BY DEF ToSet
    <3> QED BY <1>6, <3>1
  <2> QED BY <1>3, <1>6, <2>1, PathAssumption DEF OrElse
<1> QED BY <1>4, <1>5, <1>6

(* modelDiagnostics touches the document, its module set and its fga.mod.      *)
LEMMA ModelDiagnosticsTouches ==
    ASSUME NEW v, ViewOK(v), NEW disk, NEW u \in URIs
    PROVE  LET touched == DOMAIN ModelDiagnostics(v, disk, u) IN
           /\ {u} \cup ToSet(SetDocs(v, u)) \subseteq touched /\ touched \subseteq URIs
           /\ Kind(u) = "model" => touched \subseteq ModelURIs \cup DocsOfKind(v, "mod")
<1> DEFINE mod == ModFor(v, PathOf[u])
           docs == SetDocs(v, u)
           names == IF mod = NoURI THEN ModelDocs(v) ELSE docs
           own(x) == IF x \in ToSet(docs)
                     THEN SyntaxErrors(v, x) \cup SemanticErrors(v, names, x, mod # NoURI) ELSE {}
           members == [x \in {u} \cup ToSet(docs) |-> own(x)]
           builds == mod # NoURI /\ \A i \in DOMAIN docs : ~Text(v, docs[i]).broken
           unread == [x \in {mod} |-> UnreadableMembers(v, disk, mod)]
           touched == DOMAIN ModelDiagnostics(v, disk, u)
<1>1. ModelDiagnostics(v, disk, u) = IF builds /\ UnreadableMembers(v, disk, mod) # {}
                                     THEN Merge(members, unread) ELSE members
  BY DEF ModelDiagnostics, ModelScope
<1>2. DOMAIN members = {u} \cup ToSet(docs) /\ DOMAIN unread = {mod}
  <2> HIDE DEF own, docs, mod
  <2> QED OBVIOUS
<1>3. touched = {u} \cup ToSet(docs) \/ (mod # NoURI /\ touched = {u} \cup ToSet(docs) \cup {mod})
  <2> HIDE DEF members, unread
  <2>1. DOMAIN Merge(members, unread) = DOMAIN members \cup DOMAIN unread
    BY MergeTouches
  <2> QED BY <1>1, <1>2, <2>1
<1>4. ToSet(docs) \subseteq URIs /\ (Kind(u) = "model" => ToSet(docs) \subseteq ModelURIs)
  <2>1. docs \in Seq(URIs) /\ (Kind(u) = "model" => ToSet(docs) \subseteq ModelURIs)
    BY SetDocsMembers
  <2> HIDE DEF docs
  <2> QED BY <2>1 DEF ToSet
<1>5. mod # NoURI => mod \in DocsOfKind(v, "mod") /\ mod \in URIs
  BY ModForClaims DEF DocsOfKind, Docs
<1>6. Kind(u) = "model" => u \in ModelURIs
  BY DEF ModelURIs
<1> HIDE DEF touched, docs, mod
<1>7. /\ {u} \cup ToSet(docs) \subseteq touched /\ touched \subseteq URIs
      /\ Kind(u) = "model" => touched \subseteq ModelURIs \cup DocsOfKind(v, "mod")
  BY <1>3, <1>4, <1>5, <1>6
<1> QED BY <1>7 DEF touched, docs

(* A document is among those its own computation touches, which are documents. *)
LEMMA ComputeTouches ==
    ASSUME NEW v, ViewOK(v), NEW disk, NEW u \in Docs(v)
    PROVE  u \in DOMAIN Compute(v, disk, u) /\ DOMAIN Compute(v, disk, u) \subseteq URIs
<1>1. u \in URIs
  BY DEF Docs
<1>2. CASE Kind(u) = "model"
  BY <1>1, <1>2, ModelDiagnosticsTouches DEF Compute
<1>3. CASE Kind(u) = "store"
  <2>1. Compute(v, disk, u) = StoreDiagnostics(v, disk, u)
    BY <1>3 DEF Compute
  <2>2. DOMAIN StoreDiagnostics(v, disk, u) = {u}
    BY DEF StoreDiagnostics
  <2> QED BY <1>1, <2>1, <2>2
<1>4. CASE Kind(u) = "mod"
  <2> DEFINE listed == Listed(v, u)
             entries == {FileURI[p] : p \in {p \in ToSet(listed) : disk[p] # NoFile}}
             head == v.owner[Head(listed)]
  <2>1. listed \in Seq({q \in Paths : KindOf[q] = "model"})
    BY <1>4 DEF ViewOK, DocsOfKind
  <2>2. entries \subseteq URIs
    <3>1. ToSet(listed) \subseteq Paths
      BY <2>1 DEF ToSet
    <3> HIDE DEF listed
    <3> QED BY <3>1, FileURIAssumption
  <2>3. DOMAIN ModEntries(v, disk, u) = {u} \cup entries
    BY DEF ModEntries
  <2>4. (listed # <<>> /\ head # NoURI) => head \in URIs
    BY <2>1 DEF ViewOK
  <2>5. Compute(v, disk, u) = IF listed = <<>> \/ head = NoURI THEN ModEntries(v, disk, u)
                              ELSE Merge(ModEntries(v, disk, u), ModelDiagnostics(v, disk, head))
    BY <1>4 DEF Compute, ModDiagnostics
  <2>6. DOMAIN Merge(ModEntries(v, disk, u), ModelDiagnostics(v, disk, head))
            = {u} \cup entries \cup DOMAIN ModelDiagnostics(v, disk, head)
    BY <2>3, MergeTouches
  <2>7. head \in URIs => DOMAIN ModelDiagnostics(v, disk, head) \subseteq URIs
    BY ModelDiagnosticsTouches
  <2> HIDE DEF listed, entries, head
  <2> QED BY <1>1, <2>2, <2>3, <2>4, <2>5, <2>6, <2>7
<1>5. CASE Kind(u) \notin {"model", "store", "mod"}
  BY <1>1, <1>5 DEF Compute
<1> QED BY <1>2, <1>3, <1>4, <1>5

(* publish sends lists for documents only, and one for the document it is      *)
(* asked to publish.                                                           *)
LEMMA ResultsTouch ==
    ASSUME NEW v, ViewOK(v), NEW disk, NEW u \in URIs
    PROVE  /\ DOMAIN Results(v, disk, u) \subseteq URIs
           /\ v.entry[u] = Absent => DOMAIN Results(v, disk, u) = {}
           /\ v.entry[u] # Absent => u \in DOMAIN Results(v, disk, u)
<1> DEFINE stores == IF Kind(u) = "store" THEN {} ELSE StoresFor(v, u)
           others == [s \in stores |-> Current(v, disk, s)]
<1>1. CASE v.entry[u] = Absent
  BY <1>1 DEF Results
<1>2. CASE v.entry[u] # Absent
  <2>1. u \in Docs(v)
    BY <1>2 DEF Docs
  <2>2. u \in DOMAIN Compute(v, disk, u) /\ DOMAIN Compute(v, disk, u) \subseteq URIs
    BY <2>1, ComputeTouches
  <2>3. stores \subseteq URIs /\ DOMAIN others = stores
    BY DEF StoresFor, DocsOfKind, Docs
  <2>4. Results(v, disk, u) = Merge(Compute(v, disk, u), others)
    BY <1>2 DEF Results
  <2>5. DOMAIN Merge(Compute(v, disk, u), others) = DOMAIN Compute(v, disk, u) \cup DOMAIN others
    BY MergeTouches
  <2> HIDE DEF stores, others
  <2> QED BY <1>2, <2>2, <2>3, <2>4, <2>5
<1> QED BY <1>1, <1>2

-------------------------------------------------------------------------------
ModuleList(v, mod, x) == SyntaxErrors(v, x) \cup SemanticErrors(v, Loaded(v, Listed(v, mod)), x, TRUE)

(* A loaded module gets the same list whichever module of its set is handled.  *)
LEMMA ListOfAModule ==
    ASSUME NEW v, ViewOK(v), NEW disk, NEW mod \in DocsOfKind(v, "mod"), NEW w \in URIs, NEW x \in ModelURIs,
           ModFor(v, PathOf[w]) = mod, x \in ToSet(Loaded(v, Listed(v, mod)))
    PROVE  ModelDiagnostics(v, disk, w)[x] = ModuleList(v, mod, x)
<1> DEFINE docs == Loaded(v, Listed(v, mod))
           own(y) == IF y \in ToSet(docs) THEN SyntaxErrors(v, y) \cup SemanticErrors(v, docs, y, TRUE) ELSE {}
           members == [y \in {w} \cup ToSet(docs) |-> own(y)]
           builds == \A i \in DOMAIN docs : ~Text(v, docs[i]).broken
           unread == [y \in {mod} |-> UnreadableMembers(v, disk, mod)]
<1>1. mod \in URIs /\ mod # NoURI /\ x \in URIs /\ x # mod
  BY PathAssumption DEF DocsOfKind, Docs, ModelURIs
<1>2. SetDocs(v, w) = docs
  BY <1>1, SetDocsMembers
<1>3. ModelDiagnostics(v, disk, w) = IF builds /\ UnreadableMembers(v, disk, mod) # {}
                                     THEN Merge(members, unread) ELSE members
  <2>1. ModelDiagnostics(v, disk, w) =
            LET members2 == [y \in {w} \cup ToSet(docs) |->
                        IF y \in ToSet(docs)
                        THEN SyntaxErrors(v, y) \cup SemanticErrors(v, docs, y, mod # NoURI)
                        ELSE {}]
                builds2 == mod # NoURI /\ \A i \in DOMAIN docs : ~Text(v, docs[i]).broken
            IN  IF builds2 /\ UnreadableMembers(v, disk, mod) # {}
                THEN Merge(members2, unread) ELSE members2
    <3> HIDE DEF docs
    <3> QED BY <1>1, <1>2 DEF ModelDiagnostics, ModelScope
  <2>2. (mod # NoURI) = TRUE
    BY <1>1
  <2> HIDE DEF docs
  <2> QED BY <2>1, <2>2
<1>4. x \in DOMAIN members /\ members[x] = own(x)
  <2> HIDE DEF own
  <2> QED OBVIOUS
<1>5. Merge(members, unread)[x] = own(x)
  <2>1. x \notin DOMAIN unread
    BY <1>1
  <2> HIDE DEF members, unread, own
  <2>2. Merge(members, unread)[x] = Touching(members, x) \cup Touching(unread, x)
    BY <1>4, MergeTouches
  <2> QED BY <1>4, <2>1, <2>2 DEF Touching
<1>6. own(x) = ModuleList(v, mod, x)
  BY DEF ModuleList
<1> HIDE DEF members, own, docs
<1>7. ModelDiagnostics(v, disk, w)[x] = own(x)
  BY <1>3, <1>4, <1>5
<1> QED BY <1>6, <1>7

(* So publishing one of them publishes the right list for each.                *)
LEMMA ModulesTogether ==
    ASSUME NEW v, ViewOK(v), NEW disk, NEW mod \in DocsOfKind(v, "mod"), NEW w \in URIs, NEW x \in ModelURIs,
           ModFor(v, PathOf[w]) = mod, ModFor(v, PathOf[x]) = mod,
           x \in ToSet(LoadedModels(v, Listed(v, mod)))
    PROVE  /\ x \in DOMAIN ModelDiagnostics(v, disk, w)
           /\ ModelDiagnostics(v, disk, w)[x] = Current(v, disk, x)
<1>1. Listed(v, mod) \in Seq({q \in Paths : KindOf[q] = "model"})
  BY DEF ViewOK
<1>2. Listed(v, mod) \in Seq(Paths)
  BY <1>1, LoadedAreModels
<1>3. x \in ToSet(Loaded(v, Listed(v, mod)))
  BY <1>2, LoadedModelsMembers
<1>4. mod \in URIs /\ mod # NoURI /\ x \in URIs
  BY PathAssumption DEF DocsOfKind, Docs, ModelURIs
<1>5. ModelDiagnostics(v, disk, w)[x] = ModelDiagnostics(v, disk, x)[x]
  BY <1>3, <1>4, ListOfAModule
<1>6. Current(v, disk, x) = ModelDiagnostics(v, disk, x)[x]
  BY DEF Current, Compute, ModelURIs
<1>7. SetDocs(v, w) = Loaded(v, Listed(v, mod))
  BY <1>3, <1>4, SetDocsMembers
<1>8. x \in DOMAIN ModelDiagnostics(v, disk, w)
  BY <1>3, <1>7, ModelDiagnosticsTouches
<1> QED BY <1>5, <1>6, <1>8

(* The lists publish sends for a document are those of its own computation,    *)
(* and the current one for each store test that depends on it.                 *)
LEMMA ResultsMerge ==
    ASSUME NEW v, ViewOK(v), NEW disk, NEW u \in Docs(v), NEW x
    PROVE  LET r == Compute(v, disk, u)
               stores == IF Kind(u) = "store" THEN {} ELSE StoresFor(v, u)
           IN  x \in DOMAIN r \cup stores =>
                /\ x \in DOMAIN Results(v, disk, u)
                /\ Results(v, disk, u)[x]
                    = Touching(r, x) \cup (IF x \in stores THEN Current(v, disk, x) ELSE {})
<1> DEFINE r == Compute(v, disk, u)
           stores == IF Kind(u) = "store" THEN {} ELSE StoresFor(v, u)
           others == [s \in stores |-> Current(v, disk, s)]
<1>1. v.entry[u] # Absent
  BY DEF Docs
<1>2. Results(v, disk, u) = Merge(r, others)
  BY <1>1 DEF Results
<1>3. DOMAIN others = stores /\ Touching(others, x) = IF x \in stores THEN Current(v, disk, x) ELSE {}
  <2> HIDE DEF stores
  <2> QED BY DEF Touching
<1> HIDE DEF others, r, stores
<1>4. /\ DOMAIN Merge(r, others) = DOMAIN r \cup DOMAIN others
      /\ x \in DOMAIN r \cup DOMAIN others
            => Merge(r, others)[x] = Touching(r, x) \cup Touching(others, x)
  BY MergeTouches
<1>5. x \in DOMAIN r \cup stores =>
                /\ x \in DOMAIN Results(v, disk, u)
                /\ Results(v, disk, u)[x]
                    = Touching(r, x) \cup (IF x \in stores THEN Current(v, disk, x) ELSE {})
  BY <1>2, <1>3, <1>4
<1> QED BY <1>5 DEF r, stores

(* A document that is no store test depending on it gets the list computed.    *)
LEMMA ResultsCompute ==
    ASSUME NEW v, ViewOK(v), NEW disk, NEW u \in Docs(v), NEW x \in DOMAIN Compute(v, disk, u), Kind(x) # "store"
    PROVE  x \in DOMAIN Results(v, disk, u) /\ Results(v, disk, u)[x] = Compute(v, disk, u)[x]
<1>1. x \notin IF Kind(u) = "store" THEN {} ELSE StoresFor(v, u)
  BY DEF StoresFor, DocsOfKind
<1>2. /\ x \in DOMAIN Results(v, disk, u)
      /\ Results(v, disk, u)[x] = Touching(Compute(v, disk, u), x) \cup {}
  BY <1>1, ResultsMerge
<1> QED BY <1>2 DEF Touching

(* The document itself gets its own list.                                      *)
LEMMA OwnListIsCurrent ==
    ASSUME NEW v, ViewOK(v), NEW disk, NEW u \in Docs(v)
    PROVE  u \in DOMAIN Results(v, disk, u) /\ Results(v, disk, u)[u] = Current(v, disk, u)
<1>1. u \in DOMAIN Compute(v, disk, u)
  BY ComputeTouches
<1>2. Touching(Compute(v, disk, u), u) = Current(v, disk, u)
  BY <1>1 DEF Touching, Current
<1> DEFINE more == IF u \in (IF Kind(u) = "store" THEN {} ELSE StoresFor(v, u)) THEN Current(v, disk, u) ELSE {}
<1>3. u \in DOMAIN Results(v, disk, u) /\ Results(v, disk, u)[u] = Current(v, disk, u) \cup more
  BY <1>1, <1>2, ResultsMerge
<1> QED BY <1>3

(* An edit of a module publishes the right list for every module of its set.   *)
LEMMA SiblingListsAreCurrent ==
    ASSUME NEW v, ViewOK(v), NEW disk, NEW u \in Docs(v), NEW mod \in DocsOfKind(v, "mod"), NEW x \in URIs,
           Kind(u) = "model", ModFor(v, PathOf[u]) = mod, ModFor(v, PathOf[x]) = mod,
           x \in ToSet(LoadedModels(v, Listed(v, mod)))
    PROVE  x \in DOMAIN Results(v, disk, u) /\ Results(v, disk, u)[x] = Current(v, disk, x)
<1>1. Listed(v, mod) \in Seq(Paths)
  BY LoadedAreModels DEF ViewOK
<1>2. u \in URIs /\ x \in ModelURIs
  BY <1>1, LoadedModelsMembers DEF Docs
<1>3. x \in DOMAIN ModelDiagnostics(v, disk, u) /\ ModelDiagnostics(v, disk, u)[x] = Current(v, disk, x)
  BY <1>2, ModulesTogether
<1>4. Compute(v, disk, u) = ModelDiagnostics(v, disk, u)
  BY DEF Compute
<1> QED BY <1>2, <1>3, <1>4, ResultsCompute DEF ModelURIs

(* An edit of an fga.mod publishes the right lists for its modules, if the     *)
(* first file it lists is one of them.                                         *)
LEMMA ModuleListsAreCurrent ==
    ASSUME NEW v, ViewOK(v), NEW disk, NEW u \in Docs(v), NEW x \in URIs,
           Kind(u) = "mod", Listed(v, u) # <<>>,
           v.owner[Head(Listed(v, u))] \in URIs, ModFor(v, PathOf[v.owner[Head(Listed(v, u))]]) = u,
           ModFor(v, PathOf[x]) = u, x \in ToSet(LoadedModels(v, Listed(v, u)))
    PROVE  x \in DOMAIN Results(v, disk, u) /\ Results(v, disk, u)[x] = Current(v, disk, x)
<1> DEFINE head == v.owner[Head(Listed(v, u))]
           set == ModelDiagnostics(v, disk, head)
<1>1. u \in DocsOfKind(v, "mod") /\ Listed(v, u) \in Seq(Paths)
  BY LoadedAreModels DEF ViewOK, DocsOfKind
<1>2. x \in ModelURIs /\ x # u
  <2>1. x \in ModelURIs
    BY <1>1, LoadedModelsMembers
  <2> QED BY <2>1 DEF ModelURIs
<1>3. x \in DOMAIN set /\ set[x] = Current(v, disk, x)
  BY <1>1, <1>2, ModulesTogether
<1>4. Compute(v, disk, u) = Merge(ModEntries(v, disk, u), set)
  BY PathAssumption DEF Compute, ModDiagnostics
<1>5. Touching(ModEntries(v, disk, u), x) = {}
  BY <1>2 DEF Touching, ModEntries
<1> HIDE DEF set
<1>6. x \in DOMAIN Compute(v, disk, u) /\ Compute(v, disk, u)[x] = Current(v, disk, x)
  <2>1. /\ DOMAIN Merge(ModEntries(v, disk, u), set) = DOMAIN ModEntries(v, disk, u) \cup DOMAIN set
        /\ Merge(ModEntries(v, disk, u), set)[x] = Touching(ModEntries(v, disk, u), x) \cup Touching(set, x)
    BY <1>3, MergeTouches
  <2> QED BY <1>3, <1>4, <1>5, <2>1 DEF Touching
<1> QED BY <1>2, <1>6, ResultsCompute DEF ModelURIs

(* An edit of a module publishes the right list for every store test whose     *)
(* scope it is in.                                                             *)
LEMMA StoreListsAreCurrent ==
    ASSUME NEW v, ViewOK(v), NEW disk, NEW u \in Docs(v), NEW x \in StoresFor(v, u), Kind(u) = "model"
    PROVE  x \in DOMAIN Results(v, disk, u) /\ Results(v, disk, u)[x] = Current(v, disk, x)
<1>1. u \in URIs /\ x \in URIs /\ Kind(x) = "store"
  BY DEF Docs, StoresFor, DocsOfKind
<1>2. Compute(v, disk, u) = ModelDiagnostics(v, disk, u)
  BY DEF Compute
<1>3. x \notin DOMAIN Compute(v, disk, u)
  BY <1>1, <1>2, ModelDiagnosticsTouches DEF ModelURIs, DocsOfKind
<1> QED BY <1>3, ResultsMerge DEF Touching

-------------------------------------------------------------------------------
(* No file is listed by two of the fga.mod files stored.                       *)
OneModPerFile(v) ==
    \A m, n \in DocsOfKind(v, "mod") : ToSet(Listed(v, m)) \cap ToSet(Listed(v, n)) # {} => m = n

(* Then the fga.mod that lists a file is the one that claims it.               *)
LEMMA ListedIsClaimed ==
    ASSUME NEW v, OneModPerFile(v), NEW mod \in DocsOfKind(v, "mod"), NEW path \in ToSet(Listed(v, mod))
    PROVE  ModFor(v, path) = mod
<1> DEFINE claims == {m \in DocsOfKind(v, "mod") : path \in ToSet(Text(v, m).contents)}
<1>1. mod \in claims /\ claims \in SUBSET URIs
  BY DEF Listed, DocsOfKind, Docs
<1>2. ModFor(v, path) = ByPath(claims)[1] /\ ByPath(claims)[1] \in URIs
  <2>1. ModFor(v, path) = IF claims = {} THEN NoURI ELSE ByPath(claims)[1]
    BY DEF ModFor
  <2> HIDE DEF claims
  <2> QED BY <1>1, <2>1, ByPathMembers
<1>3. ModFor(v, path) # NoURI
  BY <1>2, PathAssumption
<1> QED BY <1>3, ModForClaims DEF OneModPerFile

(* The check of an fga.mod goes through its first entry, if that is indexed.   *)
FirstIndexed(v, u) ==
    u \in DocsOfKind(v, "mod") /\ Listed(v, u) # <<>> => v.owner[Head(Listed(v, u))] # NoURI

(* What checking one model reports on another document, that document's own    *)
(* check reports too, unless it is an fga.mod that does not check its members. *)
LEMMA SetProblemsAreOwn ==
    ASSUME NEW v, ViewOK(v), OwnersStored(v), OneModPerFile(v), NEW disk, NEW w \in Docs(v), Kind(w) = "model",
           NEW x \in DOMAIN ModelDiagnostics(v, disk, w), NEW problem \in ModelDiagnostics(v, disk, w)[x],
           FirstIndexed(v, x)
    PROVE  x \in Docs(v) /\ Kind(x) # "unknown" /\ problem \in Current(v, disk, x)
<1> DEFINE mod == ModFor(v, PathOf[w])
           docs == SetDocs(v, w)
           names == IF mod = NoURI THEN ModelDocs(v) ELSE docs
           own(y) == IF y \in ToSet(docs)
                     THEN SyntaxErrors(v, y) \cup SemanticErrors(v, names, y, mod # NoURI) ELSE {}
           members == [y \in {w} \cup ToSet(docs) |-> own(y)]
           builds == mod # NoURI /\ \A i \in DOMAIN docs : ~Text(v, docs[i]).broken
           unread == [y \in {mod} |-> UnreadableMembers(v, disk, mod)]
<1>1. w \in URIs /\ Compute(v, disk, w) = ModelDiagnostics(v, disk, w)
  BY DEF Docs, Compute
<1>2. CASE x = w
  BY <1>1, <1>2 DEF Current
<1>3. ASSUME mod # NoURI PROVE mod \in DocsOfKind(v, "mod") /\ mod \in URIs /\ Listed(v, mod) \in Seq(Paths)
  <2>1. mod \in DocsOfKind(v, "mod")
    BY <1>3, ModForClaims
  <2> QED BY <2>1, LoadedAreModels DEF ViewOK, DocsOfKind, Docs
<1>4. CASE x # w /\ x \in ToSet(docs)
  <2>1. mod # NoURI /\ x \in ToSet(Loaded(v, Listed(v, mod)))
    <3>1. docs = IF mod = NoURI THEN <<w>> ELSE OrElse(Loaded(v, Listed(v, mod)), <<w>>)
      BY DEF SetDocs
    <3>2. ToSet(<<w>>) = {w}
      BY DEF ToSet
    <3> HIDE DEF docs, mod
    <3> QED BY <1>4, <3>1, <3>2 DEF OrElse
  <2>2. PICK p \in ToSet(Listed(v, mod)) : x = v.owner[p] /\ x \in URIs
    BY <1>3, <2>1, LoadedMembers
  <2>3. p \in Paths /\ x # NoURI
    BY <1>3, <2>1, <2>2, PathAssumption DEF ToSet
  <2>4. x \in Docs(v) /\ PathOf[x] = p
    BY <2>2, <2>3 DEF OwnersStored, ViewOK
  <2>5. ModFor(v, PathOf[x]) = mod
    BY <1>3, <2>1, <2>2, <2>4, ListedIsClaimed
  <2>6. x \in ModelURIs
    BY <1>3, <2>1, LoadedAreModels DEF ViewOK
  <2>7. ModelDiagnostics(v, disk, w)[x] = ModelDiagnostics(v, disk, x)[x]
    <3>1. mod \in DocsOfKind(v, "mod") /\ x \in URIs /\ x \in ToSet(Loaded(v, Listed(v, mod)))
      BY <1>3, <2>1, <2>2
    <3>2. ModelDiagnostics(v, disk, w)[x] = ModuleList(v, mod, x)
      BY <1>1, <2>6, <3>1, ListOfAModule
    <3>3. ModelDiagnostics(v, disk, x)[x] = ModuleList(v, mod, x)
      BY <2>5, <2>6, <3>1, ListOfAModule
    <3> QED BY <3>2, <3>3
  <2> QED BY <2>4, <2>6, <2>7 DEF ModelURIs, Current, Compute
<1>5. CASE x # w /\ x \notin ToSet(docs)
  <2>1. ModelDiagnostics(v, disk, w) = IF builds /\ UnreadableMembers(v, disk, mod) # {}
                                       THEN Merge(members, unread) ELSE members
    BY DEF ModelDiagnostics, ModelScope
  <2>2. DOMAIN members = {w} \cup ToSet(docs) /\ DOMAIN unread = {mod} /\ unread[mod] = UnreadableMembers(v, disk, mod)
    <3> HIDE DEF own, docs, mod
    <3> QED OBVIOUS
  <2>3. mod # NoURI /\ x = mod /\ ModelDiagnostics(v, disk, w)[x] = UnreadableMembers(v, disk, mod)
    <3>1. builds => mod # NoURI
      OBVIOUS
    <3> HIDE DEF members, unread, builds, docs, mod
    <3>2. /\ DOMAIN Merge(members, unread) = DOMAIN members \cup DOMAIN unread
          /\ x \in DOMAIN members \cup DOMAIN unread
                => Merge(members, unread)[x] = Touching(members, x) \cup Touching(unread, x)
      BY MergeTouches
    <3> QED BY <1>5, <2>1, <2>2, <3>1, <3>2 DEF Touching
  <2> DEFINE listed == Listed(v, mod)
             head == v.owner[Head(listed)]
             set == ModelDiagnostics(v, disk, head)
  <2>4. mod \in DocsOfKind(v, "mod") /\ listed \in Seq({q \in Paths : KindOf[q] = "model"}) /\ listed # <<>>
    <3>1. mod \in DocsOfKind(v, "mod") /\ PathOf[w] \in ToSet(listed)
      BY <2>3, ModForClaims
    <3> QED BY <3>1 DEF ViewOK, ToSet
  <2>5. Kind(mod) = "mod" /\ mod \in Docs(v) /\ head # NoURI
    BY <2>3, <2>4 DEF DocsOfKind, FirstIndexed
  <2>6. head \in URIs /\ PathOf[head] = Head(listed) /\ Head(listed) \in ToSet(listed)
    <3>1. Head(listed) \in Paths /\ Head(listed) \in ToSet(listed)
      BY <2>4 DEF ToSet
    <3> QED BY <2>5, <3>1 DEF OwnersStored, ViewOK, Docs
  <2>7. ModFor(v, PathOf[head]) = mod
    BY <2>4, <2>6, ListedIsClaimed
  <2>8. SetDocs(v, head) = docs
    <3>1. head \in ToSet(Loaded(v, listed))
      BY <1>3, <2>3, <2>6, LoadedMembers
    <3>2. Loaded(v, listed) # <<>>
      BY <3>1 DEF ToSet
    <3>3. docs = IF mod = NoURI THEN <<w>> ELSE OrElse(Loaded(v, listed), <<w>>)
      BY DEF SetDocs
    <3>4. SetDocs(v, head) = IF mod = NoURI THEN <<head>> ELSE OrElse(Loaded(v, listed), <<head>>)
      BY <2>7 DEF SetDocs
    <3> HIDE DEF docs, mod, head, listed
    <3> QED BY <2>3, <3>2, <3>3, <3>4 DEF OrElse
  <2>9. mod \in DOMAIN set /\ UnreadableMembers(v, disk, mod) \subseteq set[mod]
    <3> DEFINE touched == [y \in {head} \cup ToSet(docs) |->
                               IF y \in ToSet(docs)
                               THEN SyntaxErrors(v, y) \cup SemanticErrors(v, ModelScope(v, head), y, mod # NoURI) ELSE {}]
    <3>1. set = IF builds /\ UnreadableMembers(v, disk, mod) # {} THEN Merge(touched, unread) ELSE touched
      BY <2>7, <2>8 DEF ModelDiagnostics
    <3>2. builds /\ UnreadableMembers(v, disk, mod) # {}
      <4> HIDE DEF members, unread, builds
      <4> QED BY <1>5, <2>1, <2>2
    <3> HIDE DEF touched, unread, builds, set, mod, docs
    <3>3. /\ DOMAIN Merge(touched, unread) = DOMAIN touched \cup DOMAIN unread
          /\ mod \in DOMAIN touched \cup DOMAIN unread
                => Merge(touched, unread)[mod] = Touching(touched, mod) \cup Touching(unread, mod)
      BY MergeTouches
    <3> QED BY <2>2, <3>1, <3>2, <3>3 DEF Touching
  <2>10. problem \in Compute(v, disk, mod)[mod]
    <3>1. Compute(v, disk, mod) = Merge(ModEntries(v, disk, mod), set)
      BY <2>4, <2>5 DEF Compute, ModDiagnostics
    <3> DEFINE entries == ModEntries(v, disk, mod)
    <3> HIDE DEF set, mod, entries
    <3>2. mod \in DOMAIN entries \cup DOMAIN set
            => Merge(entries, set)[mod] = Touching(entries, mod) \cup Touching(set, mod)
      BY MergeTouches
    <3> QED BY <2>3, <2>9, <3>1, <3>2 DEF Touching, entries
  <2> QED BY <2>3, <2>5, <2>10 DEF Current
<1> QED BY <1>2, <1>4, <1>5

(* So checking the other documents adds nothing to the list of a document.     *)
LEMMA ProblemsAreOwn ==
    ASSUME NEW v, ViewOK(v), OwnersStored(v), OneModPerFile(v), NEW disk, NEW w \in Docs(v), Kind(w) # "unknown",
           NEW x \in DOMAIN Compute(v, disk, w), NEW problem \in Compute(v, disk, w)[x], FirstIndexed(v, x)
    PROVE  x \in Docs(v) /\ Kind(x) # "unknown" /\ problem \in Current(v, disk, x)
<1>1. CASE x = w
  BY <1>1 DEF Current
<1>2. CASE Kind(w) = "model"
  BY <1>2, SetProblemsAreOwn DEF Compute
<1>3. CASE x # w /\ Kind(w) = "mod"
  <2> DEFINE head == v.owner[Head(Listed(v, w))]
             entries == ModEntries(v, disk, w)
             set == ModelDiagnostics(v, disk, head)
  <2>1. x \in DOMAIN entries => entries[x] = {}
    BY <1>3 DEF ModEntries
  <2>2. Compute(v, disk, w) = IF Listed(v, w) = <<>> \/ head = NoURI THEN entries ELSE Merge(entries, set)
    BY <1>3 DEF Compute, ModDiagnostics
  <2>3. ~(Listed(v, w) = <<>> \/ head = NoURI) /\ x \in DOMAIN set /\ problem \in set[x]
    <3> HIDE DEF entries, set, head
    <3>1. /\ DOMAIN Merge(entries, set) = DOMAIN entries \cup DOMAIN set
          /\ x \in DOMAIN entries \cup DOMAIN set => Merge(entries, set)[x] = Touching(entries, x) \cup Touching(set, x)
      BY MergeTouches
    <3> QED BY <2>1, <2>2, <3>1 DEF Touching
  <2>4. Listed(v, w) \in Seq({q \in Paths : KindOf[q] = "model"})
    BY <1>3 DEF ViewOK, DocsOfKind
  <2>5. Head(Listed(v, w)) \in Paths /\ KindOf[Head(Listed(v, w))] = "model"
    BY <2>3, <2>4
  <2>6. head \in Docs(v) /\ PathOf[head] = Head(Listed(v, w))
    BY <2>3, <2>5 DEF OwnersStored, ViewOK
  <2>7. Kind(head) = "model"
    BY <2>5, <2>6, PathAssumption DEF Kind
  <2> QED BY <2>3, <2>6, <2>7, SetProblemsAreOwn
<1>4. CASE Kind(w) = "store"
  <2>1. DOMAIN Compute(v, disk, w) = {w}
    BY <1>4 DEF Compute, StoreDiagnostics
  <2> QED BY <1>1, <2>1
<1>5. CASE Kind(w) \notin {"model", "mod", "store"}
  <2>1. DOMAIN Compute(v, disk, w) = {w}
    BY <1>5 DEF Compute
  <2> QED BY <1>1, <2>1
<1> QED BY <1>1, <1>2, <1>3, <1>4, <1>5
===============================================================================
