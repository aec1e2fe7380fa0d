SPECIFICATION EitherSpec
CONSTANTS
    a = a
    i = i
    j = j
    k1 = k1
    k2 = k2
    Keys = {k1, k2}
    Requests = {a, i, j}
    KeyOf <- MCKeyOf
    Streaming = {j}
    Installers = {i, j}
    Owner = Owner
    Stop = Stop
    None = None
INVARIANTS FreshAgents OnlyLateWorkIsLost
PROPERTIES EveryoneAnswered OnlyMessagesWait
\* These hold as well; they can be checked in place of the ones above.
\* INVARIANTS RestTypes TypeOK NoOrphans DroppedByTheLast
\* PROPERTIES DropEnds
