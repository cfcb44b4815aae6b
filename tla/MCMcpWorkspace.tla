---------------------------- MODULE MCMcpWorkspace ----------------------------
(* A workspace with an fga.mod, two modules and a store test, two tool calls   *)
(* at a time.                                                                  *)
EXTENDS McpWorkspace, TLC

CONSTANTS core, wiki, manifest, tests, user

CorePath == "core.fga"
WikiPath == "wiki.fga"
ModPath == "fga.mod"
TestsPath == "tests.fga.yaml"

MCURIs == {core, wiki, manifest, tests}
MCPaths == {CorePath, WikiPath, ModPath, TestsPath}
MCPathOf == (core :> CorePath) @@ (wiki :> WikiPath) @@ (manifest :> ModPath) @@ (tests :> TestsPath)
MCFileURI == [p \in MCPaths |-> CHOOSE u \in MCURIs : MCPathOf[u] = p]
MCKindOf == (CorePath :> "model") @@ (WikiPath :> "model") @@ (ModPath :> "mod") @@ (TestsPath :> "store")
MCModCandidates == [p \in MCPaths |-> <<ModPath>>]
MCPathOrder == <<core, manifest, tests, wiki>>

Module(types, uses) ==
    [broken |-> FALSE, header |-> FALSE, module |-> TRUE, types |-> types, extends |-> {}, uses |-> uses]

(* The core module may lose the type that the wiki module and the tests use.   *)
CONSTANTS declares, empty, refers, lists, asserts

MCTextsOf ==
    (CorePath :> {declares, empty}) @@ (WikiPath :> {refers}) @@
    (ModPath :> {lists}) @@ (TestsPath :> {asserts})

MCParse ==
    (declares :> Module({user}, {})) @@ (empty :> Module({}, {})) @@
    (refers :> Module({}, {user})) @@
    (lists :> [broken |-> FALSE, contents |-> <<CorePath, WikiPath>>]) @@
    (asserts :> [broken |-> FALSE, model |-> ModPath, inline |-> {}, uses |-> {user}])

CompleteDisk ==
    (CorePath :> declares) @@ (WikiPath :> refers) @@ (ModPath :> lists) @@ (TestsPath :> asserts)
(* A workspace may be opened while a module is missing.                        *)
MCDisks == {CompleteDisk, [CompleteDisk EXCEPT ![WikiPath] = NoFile]}
MCNarrowings == {ModPath, WikiPath}
===============================================================================
