SPECIFICATION Spec
CONSTANTS
    KeepRecent = 2
    Kinds <- Talk
    RoleNames = {"system", "user", "assistant", "tool"}
    Targets <- Destinations
    GrantSets <- Grants
    Homes <- Home
    Segments = {"fs", "read", "text", "web", "search"}
    Needs <- Need
    NoProvider = ""
    TagSize = 1
    MaxMessages = 4
    MaxHops = 3
INVARIANTS
    HandlesStayHome
    LossAccounted
    RoleInText
    LossIsNamed
    FitsDestination
    GatesAgree
    Settles
CHECK_DEADLOCK FALSE
