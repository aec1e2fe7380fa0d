------------------------------ MODULE Transcript ------------------------------
(***************************************************************************)
(* What the terminal client shows of a conversation: the entries, the      *)
(* cursor over the tool calls, and the window of rows on the screen.       *)
(* Modelled from pkgs/clients/tui/src/{app,blocks,viewport,tui,sidebar}.rs.*)
(*                                                                         *)
(* Each pass of the loop applies events, draws, and handles one key.  The  *)
(* keys know the number of rows of the last drawing only.                  *)
(***************************************************************************)
EXTENDS Integers, Sequences, SequencesExt

CONSTANTS
    Ids,         \* the ids a model gives its calls, which it may use again
    RowsOf,      \* rows of a text, and of a tool's arguments and result
    Heights,     \* rows of the window, as it is resized
    MaxEntries,  \* bound: entries
    MaxTurns,    \* bound: turns
    MaxKeys      \* bound: keys that move the cursor or the window

VARIABLES
    pc,          \* "events" or "key"
    phase,       \* App.phase
    rx,          \* a turn is listened to
    entries,     \* App.transcript
    cursor,      \* App.cursor, 0 without
    view,        \* Viewport
    pane,        \* the rows of the last drawing, in all and of the window, when a key comes
    turns, keys  \* for the bounds

vars == <<pc, phase, rx, entries, cursor, view, pane, turns, keys>>
shown == <<cursor, view, pane>>

Message(who, rows) == [kind |-> who, id |-> "none", status |-> "said", open |-> FALSE, rows |-> rows]
Tool(id, rows, status) == [kind |-> "tool", id |-> id, status |-> status, open |-> FALSE, rows |-> rows]
NoPane == [total |-> 0, height |-> 0]
Statuses == {"said", "running", "done", "failed", "interrupted"}

TypeOK ==
    /\ pc \in {"events", "key"} /\ phase \in {"idle", "streaming", "cancelling"} /\ rx \in BOOLEAN
    /\ \A i \in DOMAIN entries :
          /\ entries[i].kind \in {"you", "klod", "note", "tool"} /\ entries[i].status \in Statuses
          /\ entries[i].open \in BOOLEAN /\ entries[i].rows \in Nat
    /\ cursor \in Nat /\ view.offset \in Nat /\ view.attached \in BOOLEAN

Init ==
    /\ pc = "events" /\ phase = "idle" /\ rx = FALSE
    /\ entries = <<Message("note", 1)>> /\ cursor = 0
    /\ view = [offset |-> 0, attached |-> TRUE] /\ pane = NoPane
    /\ turns = 0 /\ keys = 0

---------------------------------------------------------------------------
(* The rows of the entries.                                                *)

\* blocks::block: a line to say who, and the text; a tool's head, and what it was
\* given and returned while it is open.
Height(entry) ==
    IF entry.kind # "tool" THEN 1 + entry.rows
    ELSE IF entry.open THEN 1 + entry.rows + (IF entry.status \in {"done", "failed"} THEN 1 + entry.rows ELSE 0)
    ELSE 1

\* A blank row between two.
RowsUpTo(e, n) == FoldLeft(LAMBDA sum, entry : sum + Height(entry) + 1, 0, SubSeq(e, 1, n))
Total(e) == IF e = <<>> THEN 0 ELSE RowsUpTo(e, Len(e)) - 1

\* blocks::span_of: the rows of entry i are those in Start(i)+1..End(i).
Start(e, i) == RowsUpTo(e, i - 1)
End(e, i) == Start(e, i) + Height(e[i])

---------------------------------------------------------------------------
(* The window.                                                             *)

MaxOffset(total, height) == Max({total - height, 0})

Reflow(v, total, height) ==
    LET max == MaxOffset(total, height)
    IN IF v.attached THEN [v EXCEPT !.offset = max]
       ELSE IF v.offset > max THEN [offset |-> max, attached |-> TRUE]
       ELSE v

ScrollUp(v, rows) ==
    LET moved == Max({v.offset - rows, 0})
    IN IF moved # v.offset THEN [offset |-> moved, attached |-> FALSE] ELSE v

ScrollDown(v, rows) ==
    LET max == MaxOffset(pane.total, pane.height)
        moved == Min({v.offset + rows, max})
    IN [offset |-> moved, attached |-> v.attached \/ moved = max]

\* Mutant: a block below the window is brought to its last row only.
RevealHead(v, start, end) ==
    [offset |-> IF start < v.offset THEN start ELSE v.offset, attached |-> v.attached]

\* The least that brings the rows on screen.
Reveal(v, start, end) ==
    LET max == MaxOffset(pane.total, pane.height)
        offset == IF start < v.offset THEN start
                  ELSE IF end > v.offset + pane.height THEN Min({Max({end - pane.height, 0}), max})
                  ELSE v.offset
    IN [offset |-> offset, attached |-> offset >= max]

\* No more events: the loop draws what there is now, in a window that may have
\* another size.
Draw ==
    /\ pc = "events" /\ pc' = "key"
    /\ \E height \in Heights : pane' = [total |-> Total(entries), height |-> height]
    /\ view' = Reflow(view, pane'.total, pane'.height)
    /\ UNCHANGED <<phase, rx, entries, cursor, turns, keys>>

---------------------------------------------------------------------------
(* The events of a turn.                                                   *)

Running(entry) == entry.kind = "tool" /\ entry.status = "running"
Interrupted(e) == [i \in DOMAIN e |-> IF Running(e[i]) THEN [e[i] EXCEPT !.status = "interrupted"] ELSE e[i]]

Applies == pc = "events" /\ rx
Adds(entry) == Len(entries) < MaxEntries /\ entries' = Append(entries, entry)
Aside == UNCHANGED <<phase, rx, shown, turns, keys>> /\ UNCHANGED pc

\* apply_delta: the answer grows, or begins.
Delta ==
    /\ Applies /\ Aside
    /\ IF entries # <<>> /\ Last(entries).kind = "klod"
       THEN \E rows \in RowsOf : entries' = [entries EXCEPT ![Len(entries)].rows = Max({@, rows})]
       ELSE \E rows \in RowsOf : Adds(Message("klod", rows))

Invoked(id) == Applies /\ Aside /\ \E rows \in RowsOf : Adds(Tool(id, rows, "running"))

\* Mutant: the first call with that id is closed, answered or not.
OpenCallsOfId(id) == {Min({i \in DOMAIN entries : entries[i].id = id})}

\* The calls a result may close.
OpenCalls(id) == {i \in DOMAIN entries : Running(entries[i]) /\ entries[i].id = id}

\* record_tool_result: the latest of them, which is opened if it failed; a result of
\* no call is a note.
Result(id, failed) ==
    /\ Applies /\ Aside
    /\ \E i \in DOMAIN entries : entries[i].id = id
    /\ IF OpenCalls(id) = {} THEN Adds(Message("note", 1))
       ELSE entries' = [entries EXCEPT ![Max(OpenCalls(id))] =
                            [@ EXCEPT !.open = failed, !.status = IF failed THEN "failed" ELSE "done"]]

Over == pc' = "events" /\ phase' = "idle" /\ rx' = FALSE /\ UNCHANGED <<shown, turns, keys>>

\* StreamEvent::Done: finish_turn puts the whole answer for what was streamed of it
\* since the last entry of another kind.
Done ==
    /\ Applies /\ Over
    /\ \E rows \in RowsOf :
          LET left == Interrupted(entries)
          IN IF left # <<>> /\ Last(left).kind = "klod" THEN entries' = [left EXCEPT ![Len(left)].rows = rows]
             ELSE Len(left) < MaxEntries /\ entries' = Append(left, Message("klod", rows))

\* Mutant: a stream that ends without a word leaves its calls running.
HungUpAsIs(e) == e

\* The thread of the turn is gone, with or without an error; App::end_turn.
HungUp(e) == Interrupted(e)
Ends ==
    /\ Applies /\ Over
    /\ \/ entries' = HungUp(entries)
       \/ Len(entries) < MaxEntries /\ entries' = Append(Interrupted(entries), Message("note", 1))

---------------------------------------------------------------------------
(* The keys.                                                               *)

Key == pc = "key" /\ pc' = "events" /\ pane' = NoPane

\* A message, which begins a turn or steers the one that runs.
Send ==
    /\ Key /\ phase \in {"idle", "streaming"} /\ (phase = "idle" => ~rx /\ turns < MaxTurns)
    /\ \E rows \in RowsOf : Adds(Message("you", rows))
    /\ phase' = "streaming" /\ rx' = TRUE
    /\ turns' = IF phase = "idle" THEN turns + 1 ELSE turns
    /\ UNCHANGED <<cursor, view, keys>>

Cancel ==
    /\ Key /\ phase = "streaming"
    /\ phase' = "cancelling" /\ entries' = Interrupted(entries)
    /\ UNCHANGED <<rx, cursor, view, turns, keys>>

\* load_session: what the store has of another session, or nothing of a new one;
\* another session only between turns, a new one at any time.
StoredSessions == {<<>>, <<Message("you", 1), Tool("stored", 1, "done"), Message("klod", 1)>>}
LoadSession(stored) ==
    /\ Key /\ (stored # <<>> => phase = "idle")
    /\ entries' = stored /\ cursor' = 0
    /\ keys < MaxKeys /\ keys' = keys + 1
    /\ UNCHANGED <<phase, rx, view, turns>>

Stops == {i \in DOMAIN entries : entries[i].kind = "tool"}

\* A key of the cursor, which leaves it at i and brings that into the window.
Reveals(i) ==
    /\ cursor' = i
    /\ view' = IF i = 0 THEN view ELSE Reveal(view, Start(entries', i), End(entries', i))
    /\ Key /\ keys < MaxKeys /\ keys' = keys + 1
    /\ UNCHANGED <<phase, rx, turns>>

CursorUp ==
    /\ entries' = entries
    /\ LET before == {i \in Stops : cursor = 0 \/ i < cursor}
       IN Reveals(IF before = {} THEN cursor ELSE Max(before))
CursorDown ==
    /\ entries' = entries /\ cursor # 0
    /\ LET after == {i \in Stops : i > cursor} IN Reveals(IF after = {} THEN 0 ELSE Min(after))
ToggleExpanded ==
    /\ cursor # 0 /\ entries' = [entries EXCEPT ![cursor].open = ~@]
    /\ Reveals(cursor)

Scroll ==
    /\ Key /\ keys < MaxKeys /\ keys' = keys + 1
    /\ \E rows \in {pane.height, pane.height \div 2} : view' \in {ScrollUp(view, rows), ScrollDown(view, rows)}
    /\ UNCHANGED <<phase, rx, entries, cursor, turns>>

OtherKey == Key /\ UNCHANGED <<phase, rx, entries, cursor, view, turns, keys>>

Next ==
    \/ Delta \/ Done \/ Ends \/ Draw
    \/ \E id \in Ids : Invoked(id) \/ \E failed \in BOOLEAN : Result(id, failed)
    \/ Send \/ Cancel \/ CursorUp \/ CursorDown \/ ToggleExpanded \/ Scroll \/ OtherKey
    \/ \E stored \in StoredSessions : LoadSession(stored)

Spec == Init /\ [][Next]_vars

---------------------------------------------------------------------------

\* The cursor is on a tool call of the session that is shown (app.rs:97), whatever is
\* loaded, added or cut short while it stands there.
CursorOnTool == cursor # 0 => cursor \in Stops

\* No call is shown as running once its turn is over, however that ended.
NothingRunsWhenIdle == ~rx => \A i \in DOMAIN entries : ~Running(entries[i])

\* What was answered stays as it was: a result closes a call that was open, also
\* when the model uses an id again, and an answer that is finished is not written
\* over by the next.
HistoryStays ==
    [][(\A stored \in StoredSessions : ~LoadSession(stored)) =>
          \A i \in DOMAIN entries :
              (i < Len(entries) \/ ~rx) /\ ~Running(entries[i]) =>
                  entries'[i].status = entries[i].status /\ entries'[i].rows = entries[i].rows]_entries

\* The window never shows rows that are not there, and a reader who scrolled up is
\* not moved by what arrives.
WindowInRange == pc = "key" => view.offset <= MaxOffset(Total(entries), pane.height)
ReaderStays ==
    [][Draw /\ ~view.attached /\ view.offset <= MaxOffset(Total(entries), pane'.height)
          => view'.offset = view.offset]_vars

\* A window at the end says so: "attached" and "nothing below" do not contradict
\* each other on the screen, or new text would arrive unseen.
FollowsTheEnd == pc = "key" /\ view.attached => view.offset = MaxOffset(Total(entries), pane.height)

\* The call the cursor moves to is on the screen, as far as it fits.
MovesReveal ==
    [][(CursorUp \/ CursorDown) /\ cursor' # 0 =>
          /\ End(entries, cursor') > view'.offset
          /\ Start(entries, cursor') < view'.offset + pane.height]_vars

\* Violated: "scrolls the least that brings [start, start + rows) on screen"
\* (viewport.rs:59) goes by the rows of the last drawing: a call that is opened in
\* the middle may take the window to the new end.
OpenedIsShown ==
    [][ToggleExpanded =>
          LET drawn == Reflow(view', Total(entries'), pane.height)
          IN /\ End(entries', cursor) > drawn.offset
             /\ Start(entries', cursor) < drawn.offset + pane.height]_vars
===============================================================================
