SPECIFICATION Spec
CONSTANTS
    Sessions = {"mcp", "other"}
    DefaultSession = "mcp"
    MaxFrames = 3
    MaxKills = 1
INVARIANT AbsentIsNew
CHECK_DEADLOCK FALSE
