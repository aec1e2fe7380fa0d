------------------------------- MODULE MCClient -------------------------------
(* The terminal client's keys and overlays, what it shows of a conversation, *)
(* and the text being written.  Its threads and the gateway are in MCTurn.   *)
(* The three share no state, so a behaviour is one of one of them.           *)
EXTENDS Integers, Sequences

CONSTANTS
    Stdio, SidebarHidden, MaxOptions, MaxQuestions, MaxMessages,     \* of Screen
    Ids, RowsOf, Heights, MaxEntries, MaxSent, MaxKeys               \* of Transcript

\* A text has so many rows.
ASSUME TextAssumption == RowsOf \subseteq Nat

VARIABLES
    drawn,      \* "screen", "transcript" or "composer"
    loop, shownPhase, listens, questions, asking, draft, sentAny, session, sessions, help, sidebar,
    quit, requested, small, lost, shouldQuit, askedSoFar, begun,
    pass, turnPhase, hears, entries, cursor, view, pane, sends, keys,
    typed, caret, earlier, recalled, palette, completion, panicked

Sc == INSTANCE Screen WITH
    MaxAsks <- MaxQuestions, MaxTurns <- MaxMessages,
    pc <- loop, phase <- shownPhase, rx <- listens, prompts <- questions, dialog <- asking,
    sent <- sentAny, gone <- lost, asks <- askedSoFar, turns <- begun

Tr == INSTANCE Transcript WITH
    MaxTurns <- MaxSent,
    pc <- pass, phase <- turnPhase, rx <- hears, turns <- sends

\* Two rows of two cells; a wide letter, a white space of two bytes, and signs.
MCGraphemes == {"w", "n", "s", "/", "@"}
Co == INSTANCE Composer WITH
    Graphemes <- MCGraphemes,
    BytesOf <- [g \in MCGraphemes |-> CASE g = "w" -> 3 [] g = "s" -> 2 [] OTHER -> 1],
    CellsOf <- [g \in MCGraphemes |-> CASE g = "w" -> 2 [] g = "n" -> 0 [] OTHER -> 1],
    Whitespace <- {"n", "s"}, NewLine <- "n", Slash <- "/", At <- "@",
    Width <- 2, MaxRows <- 2, Paths <- <<<<"w">>, <<"w", "/">>>>,
    Commands <- <<<<"/", "/">>, <<"/", "w">>, <<"/">>>>, LineBreak <- <<"/", "/">>,
    MaxText <- 3, MaxSent <- 1, MaxHistory <- 1,
    text <- typed, history <- earlier, recall <- recalled, menu <- palette

screenvars == <<loop, shownPhase, listens, questions, asking, draft, sentAny, session, sessions,
                help, sidebar, quit, requested, small, lost, shouldQuit, askedSoFar, begun>>
transcriptvars == <<pass, turnPhase, hears, entries, cursor, view, pane, sends, keys>>
composervars == <<typed, caret, earlier, recalled, palette, completion, panicked>>

DrawnInit ==
    /\ drawn \in {"screen", "transcript", "composer"}
    /\ Sc!Init /\ Tr!Init /\ Co!Init

OnScreen(step) == drawn = "screen" /\ step /\ UNCHANGED <<drawn, transcriptvars, composervars>>
OnTranscript(step) == drawn = "transcript" /\ step /\ UNCHANGED <<drawn, screenvars, composervars>>
InComposer(step) == drawn = "composer" /\ step /\ UNCHANGED <<drawn, screenvars, transcriptvars>>

DrawnNext ==
    \/ \E n \in 0..MaxOptions : \E default \in 0..n : OnScreen(Sc!Ask(n, default))
    \/ \E failed \in BOOLEAN : OnScreen(Sc!EndTurn(failed))
    \/ OnScreen(Sc!NoMoreEvents) \/ OnScreen(Sc!Drain) \/ OnScreen(Sc!Disconnect)
    \/ \E k \in Sc!KeyNames :
        \/ OnScreen(Sc!PickOption(k)) \/ OnScreen(Sc!QuitKeys(k)) \/ OnScreen(Sc!SessionsKeys(k))
        \/ OnScreen(Sc!HelpKeys(k))
        \/ OnScreen(Sc!SidebarKeys(k)) \/ OnScreen(Sc!Edit(k)) \/ OnScreen(Sc!MenuKeys(k))
        \/ OnScreen(Sc!LoopKeys(k))
        \/ \E command \in Sc!BuiltIns \cup {"invoke"} : OnScreen(Sc!MenuAccept(k, command))
    \/ OnScreen(Sc!CloseDialog) \/ OnScreen(Sc!ReopenDialog) \/ OnScreen(Sc!TakeAnswer)
    \/ OnScreen(Sc!OpenHelp)
    \/ OnScreen(Sc!OpenSidebar) \/ OnScreen(Sc!SwitchSession) \/ OnScreen(Sc!Submit)
    \/ OnTranscript(Tr!Delta) \/ OnTranscript(Tr!Done) \/ OnTranscript(Tr!Ends)
    \/ OnTranscript(Tr!Draw) \/ OnTranscript(Tr!Send) \/ OnTranscript(Tr!Cancel)
    \/ OnTranscript(Tr!CursorUp) \/ OnTranscript(Tr!CursorDown)
    \/ OnTranscript(Tr!ToggleExpanded) \/ OnTranscript(Tr!Scroll) \/ OnTranscript(Tr!OtherKey)
    \/ \E id \in Ids :
        OnTranscript(Tr!Invoked(id)) \/ \E failed \in BOOLEAN : OnTranscript(Tr!Result(id, failed))
    \/ \E stored \in Tr!StoredSessions : OnTranscript(Tr!LoadSession(stored))
    \/ \E g \in MCGraphemes \ {"n"} : InComposer(Co!Type(g))
    \/ InComposer(Co!TypeNewLine) \/ InComposer(Co!Backspace) \/ InComposer(Co!DeleteWordBack)
    \/ InComposer(Co!KillToEnd) \/ InComposer(Co!KillLine)
    \/ InComposer(Co!Left) \/ InComposer(Co!Right) \/ InComposer(Co!Home) \/ InComposer(Co!End)
    \/ InComposer(Co!WordLeft) \/ InComposer(Co!WordRight)
    \/ InComposer(Co!Up) \/ InComposer(Co!Down) \/ InComposer(Co!Choose(1))
    \/ InComposer(Co!Choose(-1)) \/ InComposer(Co!Dismiss)
    \/ InComposer(Co!AcceptPath) \/ InComposer(Co!AcceptCommand) \/ InComposer(Co!Submit)

DrawnSpec == DrawnInit /\ [][DrawnNext]_<<drawn, screenvars, transcriptvars, composervars>>

\* The properties, by the names the modules give them.
ScreenTypes == Sc!TypeOK
AnswersAreSeen == Sc!AnswersAreSeen
AnswersAreDrawn == Sc!AnswersAreDrawn
FrontsAreFresh == Sc!FrontsAreFresh
QuitIsTold == Sc!QuitIsTold
HintsAreTrue == Sc!HintsAreTrue
TranscriptTypes == Tr!TypeOK
CursorOnTool == Tr!CursorOnTool
NothingRunsWhenIdle == Tr!NothingRunsWhenIdle
HistoryStays == Tr!HistoryStays
WindowInRange == Tr!WindowInRange
ReaderStays == Tr!ReaderStays
FollowsTheEnd == Tr!FollowsTheEnd
MovesReveal == Tr!MovesReveal
ComposerTypes == Co!TypeOK
StraysInSpacesOnly == Co!StraysInSpacesOnly
CaretIsShown == Co!CaretIsShown
ArrowsMoveOneRow == Co!ArrowsMoveOneRow
DraftsSurvive == Co!DraftsSurvive
OffersAreFresh == Co!OffersAreFresh
===============================================================================
