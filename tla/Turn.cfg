CONSTANTS
    NInterceptors = 2
    Subscribers <- MCSubscribers
    NProviders = 2
    MaxRetries = 1
    MaxIterations = 3
    Sinks <- MCSinks
    NoCall = NoCall
    MaxCalls = 2
    MaxAsks = 1
    MaxTurns = 2
    MaxRequests = 1
    MaxCancels = 1
    MaxSteers = 1
SPECIFICATION PartSpec
INVARIANTS GateFailsClosed IdleIsIdle PromptsAreLive
PROPERTIES EveryTurnEnds KeepsPromise CallsReturn
\* These hold as well; they can be checked in place of the ones above.
\* INVARIANTS TypeOK CancelIsMarked FollowUpHeardOrMarked CompletionsCapped ClientTypes
\* PROPERTIES StopEndsTheLoop DeathIsNoticed
