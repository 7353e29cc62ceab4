SPECIFICATION Spec
CONSTANTS
    Hosts = {"a", "b", "c"}
    GraphOf <- ReviewGraphs
    Route <- RouterOf
    Alphabet <- Names
    Untidy = {"deep"}
    Deleting = {"a", "c"}
    Goals <- ReviewGoals
    GrantSets = {"own", "none"}
    Sufficient = {"own"}
    OwnGrants = "own"
    Vias = {"langgraph", "native"}
    MaxImports = 1
    MaxFindings = 5
INVARIANTS
    RaisesUntouched
CHECK_DEADLOCK FALSE
