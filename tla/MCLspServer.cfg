SPECIFICATION Spec
CONSTANTS
    core = core
    wiki = wiki
    manifest = manifest
    tests = tests
    user = user
    declares = declares
    empty = empty
    refers = refers
    lists = lists
    omits = omits
    lone = lone
    asserts = asserts
    URIs <- MCURIs
    Paths <- MCPaths
    NoPath = NoPath
    PathOf <- MCPathOf
    Absent = Absent
    NoURI = NoURI
    Parse <- MCParse
    NoFile = NoFile
    KindOf <- MCKindOf
    FileURI <- MCFileURI
    ModCandidates <- MCModCandidates
    PathOrder <- MCPathOrder
    Conns = {editor}
    Roots <- WholeOrNothing
    TextsOf <- MCTextsOf
    Disks <- CompleteOrNot
    Closed = Closed
    MaxVersion = 2
    MaxDiskEdits = 1
    MaxRounds = 8
INVARIANTS TypeOK BufferWins ReferencesLoaded CoveredAreFresh
