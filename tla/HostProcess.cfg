SPECIFICATION EitherSpec
CONSTANTS
    MaxSpawns = 1
    Pipe = 1
    Cap = 1
    MaxOut = 2
    MaxErr = 1
    MaxIn = 2
    Forks = TRUE
INVARIANTS PartialIsSaid RunsAsAsked
PROPERTIES CallsReturn
CHECK_DEADLOCK FALSE
\* These hold as well; they can be checked in place of the ones above.
\* INVARIANTS CommandTypes OneOfEachName GitOnlyReads SearchTypes TypeOK ExitIsWhole StaleIsDead
\* PROPERTIES LastWords NeverStalled
