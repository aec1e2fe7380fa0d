-------------------------------- MODULE TurnLog --------------------------------
(***************************************************************************)
(* What one turn promises to write to its session's log, row by row: the   *)
(* abstract specification that Turn implements.  Replay and every client   *)
(* that reads the log back rely on it (projection.rs, session_entries.rs). *)
(***************************************************************************)
CONSTANTS
    Calls,   \* the ids of tool calls
    NoCall   \* no tool call

VARIABLES
    row,     \* the last row the turn wrote, [kind, call]
    stage,   \* opening: no message logged yet; open; answered or failed: over
    open,    \* the tool call that was logged as invoked and has no result yet
    asking   \* whether a prompt was logged and its answer was not

vars == <<row, stage, open, asking>>

NoRow == [kind |-> "none", call |-> NoCall]

Write(kind, call) == row' = [kind |-> kind, call |-> call]

Init ==
    /\ row = NoRow
    /\ stage = "opening"
    /\ open = NoCall
    /\ asking = FALSE

Running == stage \in {"opening", "open"}

\* A prompt may come at any time, before the message too, but one at a time.
Ask ==
    /\ Running /\ ~asking
    /\ Write("ask", NoCall)
    /\ asking' = TRUE
    /\ UNCHANGED <<stage, open>>

Answer ==
    /\ Running /\ asking
    /\ Write("answer", NoCall)
    /\ asking' = FALSE
    /\ UNCHANGED <<stage, open>>

\* The turn's message comes once, before any event of the loop.
UserMessage ==
    /\ stage = "opening" /\ ~asking
    /\ Write("user-message", NoCall)
    /\ stage' = "open"
    /\ UNCHANGED <<open, asking>>

\* Text and follow-ups belong between tool calls; a warning may come at any time.
Say ==
    /\ stage = "open" /\ ~asking /\ open = NoCall
    /\ \E kind \in {"text-delta", "follow-up", "warning"} : Write(kind, NoCall)
    /\ UNCHANGED <<stage, open, asking>>

Invoke ==
    /\ stage = "open" /\ ~asking /\ open = NoCall
    /\ \E c \in Calls : Write("tool-invoked", c) /\ open' = c
    /\ UNCHANGED <<stage, asking>>

\* A result closes the invoked call; without one it is a denied call's.
Result ==
    /\ stage = "open" /\ ~asking
    /\ \E c \in Calls : open \in {c, NoCall} /\ Write("tool-result", c)
    /\ open' = NoCall
    /\ UNCHANGED <<stage, asking>>

\* `done` is the last row of an answered turn.
Done ==
    /\ stage = "open" /\ ~asking /\ open = NoCall
    /\ Write("done", NoCall)
    /\ stage' = "answered"
    /\ UNCHANGED <<open, asking>>

\* A failed turn ends without `done`, between tool calls; its last words may be a warning.
Fail ==
    /\ stage = "open" /\ ~asking /\ open = NoCall
    /\ row' = row \/ Write("warning", NoCall)
    /\ stage' = "failed"
    /\ UNCHANGED <<open, asking>>

Next == Ask \/ Answer \/ UserMessage \/ Say \/ Invoke \/ Result \/ Done \/ Fail

Spec == Init /\ [][Next]_vars
===============================================================================
