SPECIFICATION FairSpec
CONSTANTS
    p1 = p1
    p2 = p2
    w1 = w1
    w2 = w2
    Procs = {p1, p2}
    Workspaces = {w1, w2}
    WorkspaceOf <- Apart
    Policies = {"severity", "length"}
    BadPolicies = {"unknown"}
    DefaultPolicy = "severity"
    Models = {"m"}
    DefaultModel = "m"
    NoModel = "nameless"
    GrantSets = {"all", "none"}
    Sufficient = {"all"}
    OwnGrants = "all"
    MaxCommands = 3
INVARIANTS
    PositionAgrees
    CrashLosesOneStep
    PolicyIsTheStates
    OwnArtifactsOnDisk
PROPERTIES
    CommandEnds
CHECK_DEADLOCK FALSE
