SPECIFICATION FairSpec
CONSTANTS
    model = model
    modelAlias = modelAlias
    store = store
    untitled = untitled
    modelPath = modelPath
    storePath = storePath
    NoPath = NoPath
    URIs <- BufferURIs
    Paths <- BufferPaths
    PathOf <- BufferPathOf
    TreeURIs <- BufferTreeURIs
    Versions = {0}
    Contents = {c1}
    Workers = {w1, w2}
    DocIds = {d1, d2, d3, d4}
    NoDoc = NoDoc
    NoWorker = NoWorker
    Absent = Absent
    NoURI = NoURI
PROPERTY EveryCallReturns
