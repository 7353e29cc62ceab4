SPECIFICATION Spec
CONSTANTS
    p1 = p1
    p2 = p2
    a1 = a1
    a2 = a2
    s1 = s1
    s2 = s2
    left = left
    right = right
    t1 = t1
    t2 = t2
    NoName = NoName
    Procs = {p1, p2}
    Agents = {a1}
    Stores = {s1}
    Names = {left}
    Times = {t1}
    StoreOf <- SharedStore
    AgentOf <- SameAgent
    CheckpointNames <- NoLabelOnly
    LabelLists <- ForkOne
    TakeTurns = FALSE
    Faults = {"crash"}
    MaxEvents = 2
    MaxVerbs = 3
SYMMETRY Writers
INVARIANTS
    IndexFaithful
    Inv
    LineageSound
    CheckpointDurable
CHECK_DEADLOCK FALSE
