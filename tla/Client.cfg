CONSTANTS
    Stdio = TRUE
    SidebarHidden = TRUE
    MaxOptions = 2
    MaxQuestions = 2
    MaxMessages = 1
    Ids = {"call"}
    RowsOf = {3}
    Heights = {3}
    MaxEntries = 4
    MaxSent = 1
    MaxKeys = 2
SPECIFICATION DrawnSpec
PROPERTIES AnswersAreSeen HistoryStays ArrowsMoveOneRow
CHECK_DEADLOCK FALSE
\* These hold as well; they can be checked in place of the ones above.
\* INVARIANTS HintsAreTrue ScreenTypes QuitIsTold TranscriptTypes CursorOnTool NothingRunsWhenIdle WindowInRange FollowsTheEnd ComposerTypes StraysInSpacesOnly CaretIsShown OffersAreFresh
\* PROPERTIES MovesReveal FrontsAreFresh ReaderStays DraftsSurvive
