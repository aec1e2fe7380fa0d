CONSTANTS
    MaxOf <- MaxOfValue
    MaxAsks = 2
    Sorts <- MCSorts
    Limit = 2
    AnswerPolls = 1
    MaxErrors = 2
    MaxUpdates = 3
    MaxPrompts = 1
    MaxFailures = 2
    MaxKills = 1
    Sessions = {s1, s2}
    Keys = {"write", "read"}
    SafeKeys = {"read"}
    Calls <- MCCalls
    Rules <- MCRules
    Enough = 3
    MaxCalls = 4
    MaxRetired = 1
    Literals <- MCLiterals
    Hosts = {"example", "own"}
    Allowed = {"own"}
    Secrets = {"authorization", "x-api-key"}
    MaxRedirects = 2
    MaxRebinds = 2
    Configured <- MCConfigured
    Http = {"web"}
    Granted = {"files", "docs"}
    Tools = {"read", "get"}
    Offers <- MCOffers
    Budget = 2
    MaxToolCalls = 2
    MaxNotes = 1
    DefaultSession = s1
    MaxFrames = 3
SPECIFICATION EitherSpec
INVARIANTS GrantsAreChosen ConfirmedIsHandled SentAsAllowed OwnReply
PROPERTIES CancelsAreAnswered RunsAreAllowed RequestsEnd
CHECK_DEADLOCK FALSE
\* These hold as well; they can be checked in place of the ones above.
\* INVARIANTS GuestTypes WholeCatalogue ServerTypes AnswersInOrder AskedIsShown NoneHalfDone GateTypes SettledAfterThree RequestTypes TypeOK OnceEach BotTypes
\* PROPERTIES FetchEnds EveryMessageUsed TurnsEnd HangUpEndsServe InOrder
