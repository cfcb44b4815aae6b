SPECIFICATION Spec
CONSTANTS
    model = model
    modelAlias = modelAlias
    store = store
    untitled = untitled
    modelPath = modelPath
    storePath = storePath
    NoPath = NoPath
    URIs <- AliasURIs
    Paths <- AliasPaths
    PathOf <- AliasPathOf
    TreeURIs <- ModelTreeURIs
    Versions = {0, 1, 2}
    Contents = {c1}
    Workers = {w1, w2}
    DocIds = {d1, d2, d3, d4, d5}
    NoDoc = NoDoc
    NoWorker = NoWorker
    Absent = Absent
    NoURI = NoURI
SYMMETRY AnyWorker
VIEW UpToAddresses
INVARIANTS TypeOK NoUseAfterFree NoLeak MapsAgree FoundByPath
PROPERTY ImplementsIndexMap
