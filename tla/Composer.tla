------------------------------- MODULE Composer -------------------------------
(***************************************************************************)
(* The message being written in the terminal client: its text and caret,   *)
(* the messages sent before, the / menu and the @ list.  Modelled from     *)
(* pkgs/clients/tui/src/{composer,paths,commands}.rs and, of               *)
(* {app,tui}.rs, what the editing keys do.                                 *)
(*                                                                         *)
(* A text is a sequence of graphemes, each with a number of bytes and of   *)
(* cells; the caret is a number of bytes.  A slice that does not begin and *)
(* end between characters is a panic.                                      *)
(***************************************************************************)
EXTENDS Integers, Sequences, SequencesExt

CONSTANTS
    Graphemes,    \* what can be typed
    BytesOf,      \* bytes of a grapheme
    CellsOf,      \* and its width in cells
    Whitespace,   \* those that are white space
    NewLine, Slash, At,   \* the three that mean something
    Width,        \* cells of a row
    MaxRows,      \* rows on screen
    Paths,        \* the files of the working directory, as texts, sorted
    Commands,     \* the commands of the menu, as texts, in its order
    LineBreak,    \* the command that breaks the line
    MaxText,      \* bound: graphemes of the text
    MaxSent,      \* bound: graphemes of a message that is sent
    MaxHistory    \* bound: messages that are sent

VARIABLES
    text, caret,   \* Composer
    history,       \* App.history
    recall,        \* App.recall: which message is shown, and its text; index 0 without
    menu,          \* App.menu: which command is picked, -1 when closed
    completion,    \* App.completion: the fragment, which path is picked, the paths; picked -1 when closed
    panicked       \* a slice was out of place

vars == <<text, caret, history, recall, menu, completion, panicked>>
lists == <<history, recall, menu>>

NoRecall == [at |-> 0, text |-> <<>>]
Closed == [fragment |-> <<>>, picked |-> -1, paths |-> <<>>]

Least(a, b) == IF a < b THEN a ELSE b
Bytes(t) == FoldLeft(LAMBDA n, g : n + BytesOf[g], 0, t)
Cells(t) == FoldLeft(LAMBDA n, g : n + CellsOf[g], 0, t)
Boundaries(t) == {Bytes(SubSeq(t, 1, i)) : i \in 0..Len(t)}

\* The text before the byte i, and from it on.
UpTo(t, i) == SubSeq(t, 1, CHOOSE k \in 0..Len(t) : Bytes(SubSeq(t, 1, k)) = i)
After(t, i) == SubSeq(t, Len(UpTo(t, i)) + 1, Len(t))

\* The last, and the first, white space of a text (or newline): its index.
LastIn(t, S) == SelectLastInSubSeq(t, 1, Len(t), LAMBDA g : g \in S)
FirstIn(t, S) == SelectInSubSeq(t, 1, Len(t), LAMBDA g : g \in S)
Trimmed(t) ==
    LET words == {i \in DOMAIN t : t[i] \notin Whitespace}
    IN IF words = {} THEN <<>> ELSE SubSeq(t, Min(words), Max(words))
Blank(t) == Trimmed(t) = <<>>

TypeOK ==
    /\ text \in Seq(Graphemes) /\ Len(text) <= MaxText /\ caret \in 0..Bytes(text)
    /\ \A i \in DOMAIN history : ~Blank(history[i])
    /\ recall.at \in 0..Len(history) /\ (recall.at # 0 => recall.text = history[recall.at])
    /\ menu \in {-1} \cup Nat /\ completion.picked \in {-1} \cup Nat /\ panicked \in BOOLEAN

Init ==
    /\ text = <<>> /\ caret = 0 /\ history = <<>> /\ recall = NoRecall
    /\ menu = -1 /\ completion = Closed /\ panicked = FALSE

---------------------------------------------------------------------------
(* Rows.                                                                   *)

\* The text wrapped: where a row starts, its graphemes, whether a line ends with it.
Rows(t) ==
    LET Place(rows, g) ==
            LET row == Last(rows)
            IN IF g = NewLine
               THEN Append(Append(Front(rows), [row EXCEPT !.hard = TRUE]),
                           [start |-> row.start + Bytes(row.of) + 1, of |-> <<>>, hard |-> FALSE])
               ELSE IF Cells(row.of) + CellsOf[g] > Width /\ row.of # <<>>
               THEN Append(rows, [start |-> row.start + Bytes(row.of), of |-> <<g>>, hard |-> FALSE])
               ELSE Append(Front(rows), [row EXCEPT !.of = Append(@, g)])
        placed == FoldLeft(Place, <<[start |-> 0, of |-> <<>>, hard |-> FALSE]>>, t)
    IN Append(Front(placed), [Last(placed) EXCEPT !.hard = TRUE])

\* The bytes at which the caret is shown in a row: the end of a soft one is the
\* start of the next.
Stops(row) ==
    {row.start + i : i \in Boundaries(row.of)} \ (IF row.hard THEN {} ELSE {row.start + Bytes(row.of)})

\* Where the caret is; a caret between two stops is shown at the top.
CaretRow(t, b) ==
    LET rows == Rows(t)
        at == {i \in DOMAIN rows : b \in Stops(rows[i])}
    IN IF at = {} THEN 1 ELSE Min(at)
CaretColumn(t, b) ==
    LET row == Rows(t)[CaretRow(t, b)]
    IN IF b \in Stops(row) THEN Cells(UpTo(row.of, b - row.start)) ELSE 0

\* Mutant: the caret goes to the end of a soft row too.
OffsetInRowEnd(row, column) ==
    LET reach == {b \in {row.start + i : i \in Boundaries(row.of)} : Cells(UpTo(row.of, b - row.start)) >= column}
    IN IF reach # {} THEN Min(reach) ELSE row.start + Bytes(row.of)

\* The first stop of a row at the column or behind it, or its last one.
OffsetInRow(row, column) ==
    LET reach == {b \in Stops(row) : Cells(UpTo(row.of, b - row.start)) >= column}
    IN IF reach # {} THEN Min(reach) ELSE Max(Stops(row))

\* The first row on screen, and how many there are.
FirstShown(t, b) ==
    IF Len(Rows(t)) <= MaxRows THEN 1 ELSE Max({CaretRow(t, b), MaxRows}) + 1 - MaxRows
Shown(t, b) == FirstShown(t, b)..(FirstShown(t, b) + Least(Len(Rows(t)), MaxRows) - 1)

---------------------------------------------------------------------------
(* The @ list and the / menu.                                              *)

NoFragment == <<At>>

\* What is between the last @ and the caret, unless white space is.
Fragment(t, b) ==
    LET at == LastIn(UpTo(t, b), {At})
        run == SubSeq(UpTo(t, b), at + 1, Len(UpTo(t, b)))
    IN IF b \notin Boundaries(t) THEN NoFragment
       ELSE IF at = 0 \/ FirstIn(run, Whitespace) # 0 THEN NoFragment ELSE run

Holds(path, run) == \E i \in 0..(Len(path) - Len(run)) : SubSeq(path, i + 1, i + Len(run)) = run
Complete(run) == SelectSeq(Paths, LAMBDA path : Holds(path, run))

\* Mutant: a fragment of the same length is taken for the same.
RefreshByLength(c, t, b) ==
    IF c.picked = -1 \/ Fragment(t, b) = NoFragment THEN Closed
    ELSE IF Len(c.fragment) = Len(Fragment(t, b)) THEN c
    ELSE [fragment |-> Fragment(t, b), picked |-> 0, paths |-> Complete(Fragment(t, b))]

\* App::refresh_completion, after each editing key.
Refresh(c, t, b) ==
    IF c.picked = -1 \/ Fragment(t, b) = NoFragment THEN Closed
    ELSE IF c.fragment = Fragment(t, b) THEN c
    ELSE [fragment |-> Fragment(t, b), picked |-> 0, paths |-> Complete(Fragment(t, b))]

\* What the menu is filtered by, and what it offers: an exact match first.
MenuOpen == menu # -1 /\ text # <<>> /\ Head(text) = Slash /\ FirstIn(text, Whitespace) = 0
Matching(t) ==
    SelectSeq(Commands, LAMBDA name : name = t)
      \o SelectSeq(Commands, LAMBDA name : name # t /\ IsPrefix(t, name))

\* What Enter would take.
PathOffered == completion.picked # -1 /\ completion.paths # <<>>
CommandOffered == MenuOpen /\ Matching(text) # <<>>

\* maybe_open_menu, after a character was typed or deleted.
MenuAfter(t) ==
    IF t = <<Slash>> THEN 0
    ELSE IF menu # -1 /\ t # <<>> /\ Head(t) = Slash /\ FirstIn(t, Whitespace) = 0 THEN menu ELSE -1

Picked(index, list) == Least(index, Len(list) - 1) + 1

---------------------------------------------------------------------------
(* The editing keys.                                                       *)

\* A key that leaves text t with the caret at b, and then refreshes the list.
Leaves(t, b) ==
    /\ Len(t) <= MaxText
    /\ text' = t /\ caret' = b /\ completion' = Refresh(completion, t, b)
    /\ UNCHANGED panicked

Panic == panicked' = TRUE /\ UNCHANGED <<text, caret, completion, lists>>

\* A key that slices the text at the caret.
Slices == caret \in Boundaries(text)
Head8 == UpTo(text, caret)
Tail8 == After(text, caret)

Type(g) ==
    /\ ~panicked
    /\ IF ~Slices THEN Panic
       ELSE LET t == Head8 \o <<g>> \o Tail8
                b == caret + BytesOf[g]
            IN /\ Len(t) <= MaxText
               /\ text' = t /\ caret' = b /\ menu' = MenuAfter(t)
               /\ completion' = Refresh(IF g = At THEN [fragment |-> <<>>, picked |-> 0, paths |-> <<>>]
                                        ELSE completion, t, b)
               /\ UNCHANGED <<history, recall, panicked>>

\* Shift+Enter or Alt+Enter, which an open list takes for Enter; the menu stays as it is.
TypeNewLine ==
    /\ ~panicked /\ ~PathOffered /\ ~CommandOffered /\ UNCHANGED lists
    /\ IF ~Slices THEN Panic ELSE Leaves(Head8 \o <<NewLine>> \o Tail8, caret + 1)

\* Mutant: a byte is deleted, not a grapheme.
BackspaceByte ==
    /\ ~panicked /\ Slices /\ Head8 # <<>>
    /\ Leaves(Front(Head8) \o Tail8, caret - 1) /\ menu' = MenuAfter(Front(Head8) \o Tail8)
    /\ UNCHANGED <<history, recall>>

Backspace ==
    /\ ~panicked
    /\ IF ~Slices THEN Panic
       ELSE LET t == IF Head8 = <<>> THEN text ELSE Front(Head8) \o Tail8
            IN /\ Leaves(t, IF Head8 = <<>> THEN caret ELSE Bytes(Front(Head8)))
               /\ menu' = MenuAfter(t) /\ UNCHANGED <<history, recall>>

LineStart == LET k == LastIn(Head8, {NewLine}) IN Bytes(SubSeq(Head8, 1, k))
LineEnd == LET k == FirstIn(Tail8, {NewLine})
           IN IF k = 0 THEN Bytes(text) ELSE caret + Bytes(SubSeq(Tail8, 1, k - 1))
WordEnd ==
    LET words == {i \in DOMAIN Tail8 : Tail8[i] \notin Whitespace}
        ends == {i \in DOMAIN Tail8 : Tail8[i] \in Whitespace /\ words # {} /\ i > Min(words)}
    IN IF ends = {} THEN Bytes(text) ELSE caret + Bytes(SubSeq(Tail8, 1, Min(ends) - 1))
\* One byte behind the white space before the word, however many it has.
WordStart ==
    LET words == {i \in DOMAIN Head8 : Head8[i] \notin Whitespace}
        space == IF words = {} THEN 0 ELSE LastIn(SubSeq(Head8, 1, Max(words)), Whitespace)
    IN IF space = 0 THEN 0 ELSE Bytes(SubSeq(Head8, 1, space - 1)) + 1

Moves(b) ==
    /\ ~panicked /\ UNCHANGED lists
    /\ IF ~Slices THEN Panic ELSE Leaves(text, b)
Left == Moves(IF Head8 = <<>> THEN caret ELSE Bytes(Front(Head8)))
Right == Moves(IF Tail8 = <<>> THEN caret ELSE caret + BytesOf[Head(Tail8)])
Home == Moves(LineStart)
End == Moves(LineEnd)
WordLeft == Moves(WordStart)
WordRight == Moves(WordEnd)

\* What is between a and b goes, and the caret to a.
Deletes(a, b) ==
    /\ ~panicked /\ UNCHANGED lists
    /\ IF ~Slices \/ a \notin Boundaries(text) THEN Panic
       ELSE Leaves(UpTo(text, a) \o After(text, b), a)
DeleteWordBack == Deletes(WordStart, caret)
KillToEnd == Deletes(caret, LineEnd)
\* Ctrl+U on a blank text scrolls.
KillLine == ~Blank(text) /\ Deletes(LineStart, LineEnd)

---------------------------------------------------------------------------
(* The arrows.                                                             *)

ListOpen == completion.picked # -1 \/ MenuOpen

\* Mutant: a text that was written and not sent is replaced as well.
UnmodifiedAlways == TRUE

\* App::composer_unmodified: nothing was written since the message was shown.
Unmodified == Blank(text) \/ (recall.at # 0 /\ recall.text = text)

\* The message shown instead of the text, 0 being the empty line.
Recall(i) ==
    LET t == IF i = 0 THEN <<>> ELSE history[i]
    IN /\ recall' = [at |-> i, text |-> t]
       /\ Leaves(t, Bytes(t)) /\ UNCHANGED <<history, menu>>

\* App::history_up: the message before, or a row up.
Up ==
    /\ ~panicked /\ ~ListOpen
    /\ IF ~(CaretRow(text, caret) = 1 /\ Unmodified)
       THEN /\ Leaves(text, IF CaretRow(text, caret) = 1 THEN caret
                            ELSE OffsetInRow(Rows(text)[CaretRow(text, caret) - 1], CaretColumn(text, caret)))
            /\ UNCHANGED lists
       ELSE LET shown == IF Blank(text) THEN 0 ELSE recall.at
                next == IF shown = 0 THEN Len(history) ELSE shown - 1
            IN IF next = 0
               THEN /\ recall' = IF shown = 0 THEN NoRecall ELSE recall
                    /\ Leaves(text, caret) /\ UNCHANGED <<history, menu>>
               ELSE Recall(next)

\* App::history_down: the message after, at last the empty line, or a row down.
Down ==
    /\ ~panicked /\ ~ListOpen
    /\ IF ~(CaretRow(text, caret) = Len(Rows(text)) /\ Unmodified)
       THEN /\ Leaves(text, IF CaretRow(text, caret) = Len(Rows(text)) THEN caret
                            ELSE OffsetInRow(Rows(text)[CaretRow(text, caret) + 1], CaretColumn(text, caret)))
            /\ UNCHANGED lists
       ELSE IF recall.at = 0 THEN Leaves(text, caret) /\ UNCHANGED lists
       ELSE Recall(IF recall.at < Len(history) THEN recall.at + 1 ELSE 0)

\* In an open list they choose, round and round; the @ list is before the menu.
Choose(step) ==
    /\ ~panicked /\ ListOpen
    /\ LET list == IF completion.picked # -1 THEN completion.paths ELSE Matching(text)
           index == IF completion.picked # -1 THEN completion.picked ELSE menu
           next == (Picked(index, list) - 1 + step) % Len(list)
       IN IF list = <<>> THEN UNCHANGED <<menu, completion>>
          ELSE IF completion.picked # -1
          THEN completion' = [completion EXCEPT !.picked = next] /\ UNCHANGED menu
          ELSE menu' = next /\ UNCHANGED completion
    /\ UNCHANGED <<text, caret, history, recall, panicked>>

\* Esc closes the list and leaves the text.
Dismiss ==
    /\ ~panicked /\ ListOpen
    /\ IF completion.picked # -1 THEN completion' = Closed /\ UNCHANGED menu
       ELSE menu' = -1 /\ completion' = Refresh(completion, text, caret)
    /\ UNCHANGED <<text, caret, history, recall, panicked>>

---------------------------------------------------------------------------
(* Enter.                                                                  *)

\* The path picked replaces the fragment and its @.
AcceptPath ==
    /\ ~panicked /\ PathOffered
    /\ LET path == completion.paths[Picked(completion.picked, completion.paths)]
           start == Max({caret - Bytes(completion.fragment) - 1, 0})
       IN IF ~Slices \/ start \notin Boundaries(text) THEN Panic
          ELSE /\ text' = UpTo(text, start) \o path \o Tail8 /\ Len(text') <= MaxText
               /\ caret' = start + Bytes(path)
               /\ completion' = Closed /\ UNCHANGED <<lists, panicked>>

\* The command picked is run, which leaves the text empty.
AcceptCommand ==
    /\ ~panicked /\ ~PathOffered /\ CommandOffered
    /\ menu' = -1 /\ UNCHANGED <<history, recall>>
    /\ LET t == IF Matching(text)[Picked(menu, Matching(text))] = LineBreak THEN <<NewLine>> ELSE <<>>
       IN Leaves(t, Bytes(t))

\* App::take_submission, of a turn that begins or runs; what was trimmed is sent,
\* and the list that offered nothing stays.
Submit ==
    /\ ~panicked /\ ~PathOffered /\ ~CommandOffered
    /\ text' = <<>> /\ caret' = 0
    /\ IF Blank(text) THEN UNCHANGED <<history, recall>>
       ELSE /\ Len(history) < MaxHistory /\ Len(Trimmed(text)) <= MaxSent
            /\ history' = Append(history, Trimmed(text)) /\ recall' = NoRecall
    /\ UNCHANGED <<menu, completion, panicked>>

Next ==
    \/ \E g \in Graphemes \ {NewLine} : Type(g)
    \/ TypeNewLine \/ Backspace \/ DeleteWordBack \/ KillToEnd \/ KillLine
    \/ Left \/ Right \/ Home \/ End \/ WordLeft \/ WordRight
    \/ Up \/ Down \/ Choose(1) \/ Choose(-1) \/ Dismiss
    \/ AcceptPath \/ AcceptCommand \/ Submit

Spec == Init /\ [][Next]_vars

---------------------------------------------------------------------------

\* The caret is "always on a grapheme boundary" (composer.rs:16), or panics would
\* follow: but for a word motion, which steps one byte behind a white space that
\* may have more.
StraysInSpacesOnly ==
    \/ caret \in Boundaries(text)
    \/ \E i \in DOMAIN text :
          text[i] \in Whitespace /\ BytesOf[text[i]] > 1 /\ caret = Bytes(SubSeq(text, 1, i - 1)) + 1

\* Violated where a white space of several bytes was typed: no key panics.
NeverPanics == ~panicked

\* An arrow that moves the caret moves it by one row, wherever lines wrap: it is
\* never stuck in a row nor skips one.
ArrowsMoveOneRow ==
    [][text' = text /\ caret' # caret /\ Slices =>
          /\ (Up => CaretRow(text, caret') = CaretRow(text, caret) - 1)
          /\ (Down => CaretRow(text, caret') = CaretRow(text, caret) + 1)]_<<text, caret>>

\* The row with the caret is on screen however long the text.
CaretIsShown == CaretRow(text, caret) \in Shown(text, caret) /\ Shown(text, caret) \subseteq DOMAIN Rows(text)

\* What is written and not yet sent is not lost to a look at older messages.
DraftsSurvive ==
    [][text' # text /\ ~Blank(text) /\ (\A i \in DOMAIN history : history[i] # text) => ~Up /\ ~Down]_text

\* A path that can be accepted was offered for what is before the caret now: the
\* bytes it replaces are the fragment's.
OffersAreFresh ==
    completion.picked # -1 /\ completion.paths # <<>> =>
        /\ completion.fragment = Fragment(text, caret)
        /\ completion.paths = Complete(completion.fragment)
===============================================================================
