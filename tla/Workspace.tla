------------------------------- MODULE Workspace -------------------------------
(* Package analysis as seen through a View (internal/analysis): which files    *)
(* refer to which, which fga.mod claims a module, and which documents bound    *)
(* the names used in a document.  A view is a record [entry, owner] of the two *)
(* maps of IndexMap; a disk is a function from paths to texts.                 *)
(*                                                                             *)
(* Parse[t] is what parsing extracts from a text t:                            *)
(*   fga.mod       [broken, contents]        contents: the paths it lists      *)
(*   *.fga         [broken, header, module, types, extends, uses]              *)
(*   *.fga.yaml    [broken, model, inline, uses]                               *)
(* where names stand for whatever a model declares and refers to.              *)
EXTENDS Integers, Sequences, SequencesExt

CONSTANTS
    URIs, Paths, NoPath, PathOf, Absent, NoURI,   \* as in IndexMap
    Parse,          \* Extract, ParseModFile, ParseStoreTest: text -> record
    NoFile,         \* no file is on disk at the path
    KindOf,         \* what the file name says: "mod", "model", "store" or "unknown"
    FileURI,        \* URIFromPath: the URI the server itself uses for a path
    ModCandidates,  \* the fga.mod paths above a file, nearest first (at most maxLevels)
    PathOrder       \* the URIs in the order of their paths

ASSUME PathAssumption == NoPath \notin Paths /\ NoURI \notin URIs /\ PathOf \in [URIs -> Paths \cup {NoPath}]
ASSUME FileURIAssumption == FileURI \in [Paths -> URIs] /\ \A p \in Paths : PathOf[FileURI[p]] = p
ASSUME OrderAssumption ==
    ModCandidates \in [Paths -> Seq(Paths)] /\ PathOrder \in Seq(URIs) /\ ToSet(PathOrder) = URIs

Kind(u) == IF PathOf[u] = NoPath THEN "unknown" ELSE KindOf[PathOf[u]]

Docs(v) == {u \in URIs : v.entry[u] # Absent}
DocsOfKind(v, kind) == {u \in Docs(v) : Kind(u) = kind}
Text(v, u) == Parse[v.entry[u].content]

(* The members of s that are in S, in their order.                             *)
Filter(s, S) ==
    LET kept[i \in 0..Len(s)] ==
            IF i = 0 THEN <<>>
            ELSE IF s[i] \in S THEN Append(kept[i - 1], s[i]) ELSE kept[i - 1]
    IN  kept[Len(s)]

(* View.GetByPath for each of a list of paths, skipping what is not indexed.   *)
Loaded(v, paths) == Filter([i \in DOMAIN paths |-> v.owner[paths[i]]], URIs)

ByPath(docs) == Filter(PathOrder, docs)
Earliest(paths) == ByPath({FileURI[p] : p \in paths})[1]

ModelDocs(v) == ByPath(DocsOfKind(v, "model"))

(* View.ModuleSetFor: of the fga.mod documents that list the path, the first   *)
(* in path order.                                                              *)
ModFor(v, path) ==
    LET claims == {m \in DocsOfKind(v, "mod") : path \in ToSet(Text(v, m).contents)}
    IN  IF claims = {} THEN NoURI ELSE ByPath(claims)[1]

Listed(v, mod) == Text(v, mod).contents

-------------------------------------------------------------------------------
(* findModFile: the nearest fga.mod on disk.                                   *)
NearestMod(disk, path) ==
    LET there == Filter(ModCandidates[path], {p \in Paths : disk[p] # NoFile})
    IN  IF there = <<>> THEN {} ELSE {there[1]}

(* What one document needs, before looking at what is indexed.                 *)
References(v, disk, u) ==
    CASE Kind(u) = "mod"   -> ToSet(Listed(v, u))
      [] Kind(u) = "store" -> {Text(v, u).model} \ {NoPath}
      [] Kind(u) = "model" -> NearestMod(disk, PathOf[u])
      [] OTHER             -> {}

UnresolvedReferences(v, disk, u) == {p \in References(v, disk, u) : v.owner[p] = NoURI}

(* Index.unresolved: what every known document still needs.                    *)
Unresolved(v, disk) == UNION {UnresolvedReferences(v, disk, u) : u \in Docs(v)}

-------------------------------------------------------------------------------
LoadedModels(v, paths) == Filter(Loaded(v, paths), {u \in URIs : Kind(u) = "model"})

(* scopeOfModelRef: <<>> where the code returns false.                         *)
ScopeOfModelRef(v, path) ==
    LET u == v.owner[path] IN
    CASE u # NoURI /\ Kind(u) = "mod"   -> LoadedModels(v, Listed(v, u))
      [] u # NoURI /\ Kind(u) = "model" -> <<u>>
      [] OTHER                          -> <<>>

OrElse(docs, fallback) == IF docs # <<>> THEN docs ELSE fallback

(* ScopeFor: the documents that bound the names used in u.  A module that an   *)
(* fga.mod claims has the loaded members of that fga.mod for its scope, even   *)
(* if none is; every other case falls back to the whole workspace.             *)
ScopeFor(v, u) ==
    CASE Kind(u) = "model" ->
            IF ModFor(v, PathOf[u]) # NoURI
            THEN LoadedModels(v, Listed(v, ModFor(v, PathOf[u])))
            ELSE ModelDocs(v)
      [] Kind(u) = "store" /\ Text(v, u).model # NoPath ->
            OrElse(ScopeOfModelRef(v, Text(v, u).model), ModelDocs(v))
      [] Kind(u) = "mod" -> OrElse(LoadedModels(v, Listed(v, u)), ModelDocs(v))
      [] OTHER -> ModelDocs(v)

(* storesFor (internal/server): the store tests whose scope includes u.        *)
StoresFor(v, u) == {s \in DocsOfKind(v, "store") : u \in ToSet(ScopeFor(v, s))}

-------------------------------------------------------------------------------
(* What diagnostics resolve names in, which is not what navigation resolves    *)
(* them in (internal/diag).                                                    *)
(*                                                                             *)
(* moduleSet: the loaded members of the fga.mod that claims the document, or   *)
(* the document alone.                                                         *)
SetDocs(v, u) ==
    LET mod == ModFor(v, PathOf[u])
    IN  IF mod = NoURI THEN <<u>> ELSE OrElse(Loaded(v, Listed(v, mod)), <<u>>)

(* scopeOf: the module set bounds the names of its members, and without an     *)
(* fga.mod all models do.                                                      *)
ModelScope(v, u) == IF ModFor(v, PathOf[u]) = NoURI THEN ModelDocs(v) ELSE SetDocs(v, u)

(* storeScope: the names a store test is checked against, <<>> if there are    *)
(* none to check.  Whether model_file exists is asked of the disk, what it     *)
(* says of the index.                                                          *)
StoreScope(v, disk, u) ==
    LET path == Text(v, u).model IN
    IF path = NoPath \/ disk[path] = NoFile \/ v.owner[path] = NoURI THEN <<>>
    ELSE Loaded(v, IF KindOf[path] = "mod" THEN Listed(v, v.owner[path]) ELSE <<path>>)
===============================================================================
