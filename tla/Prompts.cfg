SPECIFICATION FairSpec
CONSTANTS
    t1 = t1
    t2 = t2
    s1 = s1
    s2 = s2
    Sessions = {s1, s2}
    Turns = {t1, t2}
    Layouts <- MCLayouts
    Answers = {h1, h2}
    None = None
    Default = Default
    MaxAsks = 2
    MaxSlices = 1
INVARIANTS AcceptedIsTaken
PROPERTIES ParkedGoesOn
\* These hold as well; they can be checked in place of the ones above.
\* INVARIANTS TypeOK AloneReachable NothingLeftBehind
