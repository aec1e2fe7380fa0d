SPECIFICATION FairSpec
CONSTANTS
    Sessions = {"s1", "s2"}
    Talked = {"s1"}
    NoSession = "none"
    MaxFrames = 4
    MaxAsks = 2
    MaxEmits = 1
INVARIANTS AcceptedIsHeard SteersItsTurn
PROPERTIES EveryFrameAnswered
\* These hold as well; they can be checked in place of the ones above.
\* INVARIANTS TypeOK CancelsItsTurn
