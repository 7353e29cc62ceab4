SPECIFICATION Spec
CONSTANTS
    Hosts = {"a", "b"}
    GraphOf <- RetryGraphs
    Route <- RouterOf
    Alphabet <- Names
    Untidy = {}
    Deleting = {"a", "b"}
    Goals <- RetryGoals
    GrantSets = {"own", "none"}
    Sufficient = {"own"}
    OwnGrants = "own"
    Vias = {"langgraph"}
    MaxImports = 1
    MaxFindings = 6
INVARIANTS
    ResumesAtItsTask
CHECK_DEADLOCK FALSE
