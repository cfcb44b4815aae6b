SPECIFICATION Spec
CONSTANTS
    core = core
    wiki = wiki
    manifest = manifest
    tests = tests
    user = user
    declares = declares
    empty = empty
    refers = refers
    lists = lists
    omits = omits
    lone = lone
    asserts = asserts
    URIs <- SmallURIs
    Paths <- SmallPaths
    NoPath = NoPath
    PathOf <- SmallPathOf
    Absent = Absent
    NoURI = NoURI
    Parse <- MCParse
    NoFile = NoFile
    KindOf <- MCKindOf
    FileURI <- SmallFileURI
    ModCandidates <- SmallModCandidates
    PathOrder <- SmallPathOrder
    Conns = {editor, second}
    Roots <- SmallRoots
    TextsOf <- SmallTextsOf
    Disks <- SmallDisks
    Closed = Closed
    MaxVersion = 2
    MaxDiskEdits = 0
    MaxRounds = 8
PROPERTY SyncedWinsOverDisk
