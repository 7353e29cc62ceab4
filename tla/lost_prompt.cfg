SPECIFICATION Spec
CONSTANTS
    KeepRecent = 2
    Kinds <- Talk
    RoleNames = {"system", "user", "assistant", "tool"}
    Targets <- Destinations
    GrantSets <- Grants
    Homes <- Home
    Segments = {"fs", "read", "text", "web", "search"}
    Needs <- Need
    NoProvider = ""
    TagSize = 1
    MaxMessages = 4
    MaxHops = 2
INVARIANTS
    SystemPromptKept
CHECK_DEADLOCK FALSE
