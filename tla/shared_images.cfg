SPECIFICATION Spec
CONSTANTS
    NoFile = NoFile
    NoDigest = NoDigest
    Texts <- Notes
    Settings <- Values
    Kinds = {"working"}
    Requirements = {"network", "shell"}
    Artifacts = {"report", "review"}
    Shared = {"report"}
    Contents = {c1, c2}
    Options <- BothWays
    Damages = {"cut", "tail", "state", "blob", "object", "digest"}
    First <- Fresh
    MaxStates = 3
    MaxCommands = 4
    MaxDamage = 1
INVARIANTS
    PathNeverHalf
    ReadIsWritten
    ArtifactsArrive
    SanitizedIsScrubbed
    DiffTellsHistory
PROPERTIES
    ReportAccounts
    SanitizedDiffsAlike
SYMMETRY Same
CHECK_DEADLOCK FALSE
