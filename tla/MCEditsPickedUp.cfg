SPECIFICATION Spec
CONSTANTS
    core = core
    wiki = wiki
    manifest = manifest
    tests = tests
    user = user
    declares = declares
    empty = empty
    refers = refers
    lists = lists
    asserts = asserts
    URIs <- MCURIs
    Paths <- MCPaths
    NoPath = NoPath
    PathOf <- MCPathOf
    Absent = Absent
    NoURI = NoURI
    Parse <- MCParse
    NoFile = NoFile
    KindOf <- MCKindOf
    FileURI <- MCFileURI
    ModCandidates <- MCModCandidates
    PathOrder <- MCPathOrder
    Calls = {one}
    Names = {user}
    Narrowings <- MCNarrowings
    TextsOf <- MCTextsOf
    Disks <- MCDisks
    Nothing = Nothing
    MaxEdits = 2
INVARIANT EditsArePickedUp
