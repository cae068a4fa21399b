\* Two facets may be divided, and three records are too many nodes; two
\* modifiers of an object are allowed, three of a plate are not.
CONSTANTS
    Claims <- MCClaims
    Documents <- MCDocuments
    Stls <- MCStls
    Conversions <- MCConversions
    Lines <- MCLines
    MaxLines = 7
    MaxPlainLines = 2
    MaxPoints = 3
    MaxModifiersPerObject = 2
    MaxModifiersPerPlate = 2
    MaxScript = 3
    MaxScripts = 3
    Settings = {"infill", "shell"}
    ShellThickness = "shell"
    MaxModel = 1
    MaxModels = 1
    MaxFacets = 3
    MaxNodes = 10
    MaxDepth = 1
    MaxGraphDepth = 3
    Budget = 400
    NoDefinition = NoDefinition
    Epsilon = 1
    MaxChunk = 2
    MaxCutLines = 4
    LineEnds <- MCLineEnds
    CR = CR
    LF = LF
SPECIFICATION Spec
INVARIANTS
    PaintSurvives
    PlacementsAreOwn
    AcceptedPrintsAsAsked
    OneTrueProfile
    ReadersCountTheSameLines
CHECK_DEADLOCK FALSE
