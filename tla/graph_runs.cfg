SPECIFICATION Spec
CONSTANTS
    Hosts = {"a", "b", "c"}
    GraphOf <- ReviewGraphs
    Route <- RouterOf
    Alphabet <- Names
    Untidy = {"deep"}
    Deleting = {"a"}
    Goals <- ReviewGoals
    GrantSets = {"own", "wider", "none"}
    Sufficient = {"own", "wider"}
    OwnGrants = "own"
    Vias = {"langgraph"}
    MaxImports = 1
    MaxFindings = 5
INVARIANTS
    RoundTripIsFixedPoint
    WalksTheGraph
    StartedHasThread
CHECK_DEADLOCK FALSE
