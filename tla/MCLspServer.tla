------------------------------ MODULE MCLspServer ------------------------------
(* A workspace with an fga.mod, two modules and a store test.                  *)
EXTENDS LspServer, TLC

CONSTANTS core, wiki, manifest, tests, user

CorePath == "core.fga"
WikiPath == "wiki.fga"
ModPath == "fga.mod"
TestsPath == "tests.fga.yaml"

MCURIs == {core, wiki, manifest, tests}
MCPaths == {CorePath, WikiPath, ModPath, TestsPath}
MCPathOf == (core :> CorePath) @@ (wiki :> WikiPath) @@ (manifest :> ModPath) @@ (tests :> TestsPath)
MCFileURI == [p \in MCPaths |-> CHOOSE u \in MCURIs : MCPathOf[u] = p]
MCKindOf == (CorePath :> "model") @@ (WikiPath :> "model") @@ (ModPath :> "mod") @@ (TestsPath :> "store")
MCModCandidates == [p \in MCPaths |-> <<ModPath>>]
MCPathOrder == <<core, manifest, tests, wiki>>

Module(types, uses) ==
    [broken |-> FALSE, header |-> FALSE, module |-> TRUE, types |-> types, extends |-> {}, uses |-> uses]
ModFile(contents) == [broken |-> FALSE, contents |-> contents]
StoreTest(model, uses) == [broken |-> FALSE, model |-> model, inline |-> {}, uses |-> uses]

(* The core module may lose the type that the wiki module and the tests use    *)
(* and the fga.mod may leave the core out.                                     *)
CONSTANTS declares, empty, refers, lists, omits, lone, asserts

MCTextsOf ==
    (CorePath :> {declares, empty}) @@ (WikiPath :> {refers}) @@
    (ModPath :> {lists, omits}) @@ (TestsPath :> {asserts})

MCParse ==
    (declares :> Module({user}, {})) @@ (empty :> Module({}, {})) @@
    (refers :> Module({}, {user})) @@
    (lists :> ModFile(<<CorePath, WikiPath>>)) @@ (omits :> ModFile(<<WikiPath>>)) @@
    (lone :> ModFile(<<>>)) @@
    (asserts :> StoreTest(ModPath, {user}))

(* The client names the workspace, or only syncs the files it opens.           *)
CompleteDisk ==
    (CorePath :> declares) @@ (WikiPath :> refers) @@ (ModPath :> lists) @@ (TestsPath :> asserts)
CompleteOrNot == {CompleteDisk, [CompleteDisk EXCEPT ![CorePath] = NoFile]}

WholeOrNothing == {MCPaths, {}}

(* A workspace with the wiki module and its fga.mod only, where the module may *)
(* be listed and missing.                                                      *)
SmallURIs == {wiki, manifest}
SmallPaths == {WikiPath, ModPath}
SmallPathOf == [u \in SmallURIs |-> MCPathOf[u]]
SmallFileURI == [p \in SmallPaths |-> MCFileURI[p]]
SmallModCandidates == [p \in SmallPaths |-> <<ModPath>>]
SmallPathOrder == <<manifest, wiki>>
SmallTextsOf == (WikiPath :> {refers}) @@ (ModPath :> {omits, lone})
SmallDisk == (WikiPath :> refers) @@ (ModPath :> omits)
SmallDisks == {SmallDisk, [SmallDisk EXCEPT ![WikiPath] = NoFile]}
SmallRoots == {SmallPaths, {}}
===============================================================================
