CONSTANTS
    MaxChunkSize = 6
    MinChunkSize = 2
    Languages <- MCLanguages
    TopLevel <- MCTopLevel
    Nested <- MCNested
    FileLang = "vue"
    Rules <- MCRules
    Roots <- MCRoots
    Parsed <- MCParsed
SPECIFICATION AnalyzeSpec
INVARIANTS
    CalledAligned
    NoMixture
    EdgesOfEveryTree
    ChunksSound
    BoundariesInChunks
    TreesOpenWhileRead
PROPERTIES
    Returns
CHECK_DEADLOCK FALSE
