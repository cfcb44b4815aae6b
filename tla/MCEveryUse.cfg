SPECIFICATION Spec
CONSTANTS
    core = core
    docs = docs
    stray = stray
    manifest = manifest
    tests = tests
    solo = solo
    carrying = carrying
    lost = lost
    idle = idle
    torn = torn
    gone = gone
    late = late
    URIs <- MCURIs
    Paths <- MCPaths
    NoPath = NoPath
    PathOf <- MCPathOf
    Absent = Absent
    NoURI = NoURI
    Parse <- MCParse
    NoFile = NoFile
    KindOf <- MCKindOf
    FileURI <- MCFileURI
    ModCandidates <- MCModCandidates
    PathOrder <- MCPathOrder
    View <- MCView
    Disk <- MCDisk
    Tree <- MCTree
    Inline <- MCInline
    Tests <- MCTests
    NoSite = NoSite
    Refused = {"this"}
    FirstText <- MCFirstText
    Identifiers = {"fresh", "user", "viewer", "this"}
    NewNames = {"fresh", "user", "viewer", "this", "no name"}
    Typed = {"owner"}
    NoRequest = NoRequest
    MaxTyped = 1
    MaxRenames = 1
    TypeLines <- MCTypeLines
    TypedLines <- MCTypedLines
    TypedNames = {"folder", "owner", "trusted"}
    NoType = NoType
    MaxTokens = 5
    Size <- MCSize
    Units <- MCUnits
    LF = "lf"
    CR = "cr"
    Colon = ":"
    MaxLength = 4
    Letters <- MCLetters
    Candidates <- MCCandidates
    Node <- MCNode
    Root = 1
    Source <- MCSource
    FirstFile <- MCFirstFile
    FirstBody <- MCFirstBody
    Newline = Newline
    Comment = Comment
    Braces = "{}"
    Space = "space"
    Blanks = {"space", "tab"}
    MaxKeys = 2
INVARIANT EveryUseIsListed
CHECK_DEADLOCK FALSE
