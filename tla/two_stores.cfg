SPECIFICATION FairSpec
CONSTANTS
    p1 = p1
    p2 = p2
    a1 = a1
    a2 = a2
    s1 = s1
    s2 = s2
    left = left
    right = right
    t1 = t1
    t2 = t2
    NoName = NoName
    Procs = {p1, p2}
    Agents = {a1, a2}
    Stores = {s1, s2}
    Names = {left}
    Times = {t1}
    StoreOf <- OneForEach
    AgentOf <- OwnAgent
    CheckpointNames <- NoLabelOnly
    LabelLists <- ForkOne
    TakeTurns = TRUE
    Faults = {}
    MaxEvents = 3
    MaxVerbs = 3
INVARIANTS
    ParentStored
    AncestryReachesRoot
PROPERTIES
    HeadMovesForItsAgent
    ForkRestoresHead
CHECK_DEADLOCK FALSE
