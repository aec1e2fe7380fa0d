SPECIFICATION EitherSpec
CONSTANTS
    Agents = {a1, a2}
    Sessions = {s1, s2}
    ToolList <- MCToolList
    SkillList <- MCSkillList
    McpList <- MCMcpList
    NativeNames <- MCNativeNames
    NameOf <- MCNameOf
    OffersOf <- MCOffersOf
    Askable = {"plan"}
    PerSession = {"plan"}
    Durable = {"memory", "plan"}
    MaxAsks = 2
    MaxTurns = 2
    MaxBroken = 1
    None = None
    MaxSpawns = 1
    Pipe = 1
    Cap = 1
    MaxOut = 2
    MaxErr = 1
    MaxIn = 2
    Forks = TRUE
    Order <- MCOrder
    Exports = {"gate", "plain"}
    GuestsOf <- MCGuestsOf
    Offer <- MCOffer
    BuiltIn = {"prompt"}
    Piped = {"socket"}
    Browsers = {"browser"}
    Bodies = {"body"}
    MaxServed = 3
    MaxPhases = 1
    MaxWavers = 1
    Editors = {"e1", "e2"}
    LineTexts = {"a", "b", ""}
    NoText = ""
    Hash <- MCHash
    Firsts <- MCFirsts
    Puts <- MCPuts
    MaxLines = 4
    MaxEdits = 2
    MaxOthers = 1
    ViewCap = 3
INVARIANTS SeesItsOwn LostOnlyToARace ContextIsReviewed MenuIsTrue ExitIsWhole
PROPERTIES EditsLandAsSeen
CHECK_DEADLOCK FALSE
\* These hold as well; they can be checked in place of the ones above.
\* INVARIANTS EditTypes ProcessTypes StaleIsDead SurfaceTypes FailureIsKept DeadGuestsPassNothing AskedIsSent ShapingTypes ShownIsReviewed TypeOK WholeOrEmpty NativeNeverShadows
\* PROPERTIES LastWords ContextFits CallsEnd
