SPECIFICATION Spec
CONSTANTS
    p1 = p1
    p2 = p2
    a1 = a1
    a2 = a2
    s1 = s1
    s2 = s2
    left = left
    right = right
    t1 = t1
    t2 = t2
    NoName = NoName
    Procs = {p1}
    Agents = {a1}
    Stores = {s1}
    Names = {left, right}
    Times = {t1}
    StoreOf <- SharedStore
    AgentOf <- SameAgent
    CheckpointNames <- NoLabelOnly
    LabelLists <- ForkOneOrTwo
    TakeTurns = TRUE
    Faults = {}
    MaxEvents = 3
    MaxVerbs = 3
INVARIANTS
    IdleCheckpointIsFree
CHECK_DEADLOCK FALSE
