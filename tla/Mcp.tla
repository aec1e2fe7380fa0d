---------------------------------- MODULE Mcp ----------------------------------
(***************************************************************************)
(* The gateway as an MCP server on its standard input and output: one      *)
(* thread that reads a frame, does all of it, a whole turn when it is an   *)
(* `ask`, and writes its answer before it reads the next.  Modelled from   *)
(* pkgs/host/host/src/mcp.rs and the command of main.rs.                   *)
(*                                                                         *)
(* The client is external: it writes frames without waiting for answers,   *)
(* and may close either pipe.  What a turn does is Turn's; here it begins  *)
(* in its session's log and ends there, answered or failed.                *)
(***************************************************************************)
EXTENDS Integers, Sequences

CONSTANTS
    Sessions,       \* the ids of sessions
    DefaultSession, \* DEFAULT_SESSION
    MaxFrames,      \* bound: frames the client writes
    MaxKills        \* bound: times the server is killed, and started again

VARIABLES
    pc,         \* the server: "read", in a "turn", "stopped" or "down"
    input,      \* frames in its standard input
    open,       \* the client may write more of them
    listening,  \* the client reads the standard output
    current,    \* the frame whose turn runs
    log,        \* session -> its turns, in order: the frame, whether it named the session, and
                \* whether the turn ended
    answers,    \* history: what the client was told, in order
    sent,       \* history: frames written
    cut,        \* history: the frames whose turns a kill cut short
    kills

client == <<input, open, sent>>
vars == <<pc, client, listening, current, log, answers, cut, kills>>

\* What classify makes of a line: nothing (no id, or a null one, and blank lines), an
\* error without an id, an answer of its own (a handshake, a list of tools, a refusal), a
\* call of one of the tools; which, without its argument, is an answer too.
Kinds == {"silent", "unreadable", "answer", "ask", "list", "get"}
Frame == [no : 1..MaxFrames, kind : Kinds, session : Sessions \cup {"none"}]
NoFrame == [no |-> 0, kind |-> "silent", session |-> "none"]

Turn == [no : 1..MaxFrames, named : BOOLEAN, ended : BOOLEAN]

\* The frame's number is its id, 0 the null one; a read of a session shows its turns, a
\* list the sessions that have any.
Answer(no, is, session, shows) == [no |-> no, is |-> is, session |-> session, shows |-> shows]

TypeOK ==
    /\ pc \in {"read", "turn", "stopped", "down"}
    /\ input \in Seq(Frame) /\ open \in BOOLEAN /\ listening \in BOOLEAN
    /\ current \in Frame \cup {NoFrame} /\ (current # NoFrame <=> pc = "turn")
    /\ log \in [Sessions -> Seq(Turn)]
    /\ sent \in 0..MaxFrames /\ cut \subseteq 1..MaxFrames /\ kills \in 0..MaxKills

Init ==
    /\ pc = "read" /\ input = <<>> /\ open = TRUE /\ listening = TRUE
    /\ current = NoFrame /\ log = [s \in Sessions |-> <<>>]
    /\ answers = <<>> /\ sent = 0 /\ cut = {} /\ kills = 0

---------------------------------------------------------------------------
(* The client.                                                             *)

Send(kind, s) ==
    /\ open /\ sent < MaxFrames /\ (kind \in {"ask", "get"} \/ s = "none")
    /\ sent' = sent + 1
    /\ input' = Append(input, [no |-> sent', kind |-> kind, session |-> s])
    /\ UNCHANGED <<pc, open, listening, current, log, answers, cut, kills>>

HangUp ==
    /\ open /\ open' = FALSE
    /\ UNCHANGED <<pc, input, listening, current, log, answers, sent, cut, kills>>

StopReading ==
    /\ listening /\ listening' = FALSE
    /\ UNCHANGED <<pc, client, current, log, answers, cut, kills>>

---------------------------------------------------------------------------
(* serve.                                                                  *)

Reads(kinds) == pc = "read" /\ input # <<>> /\ Head(input).kind \in kinds
Taken == input' = Tail(input) /\ UNCHANGED <<open, sent>>

\* write_frame; serve returns when it fails.
WriteFrame(a) ==
    IF listening THEN answers' = Append(answers, a) /\ pc' = "read"
                 ELSE pc' = "stopped" /\ UNCHANGED answers

Skip == Reads({"silent"}) /\ Taken /\ UNCHANGED <<pc, listening, current, log, answers, cut, kills>>

AnswerAtOnce ==
    /\ Reads({"unreadable", "answer"}) /\ Taken
    /\ LET frame == Head(input)
       IN WriteFrame(Answer(IF frame.kind = "answer" THEN frame.no ELSE 0, frame.kind, "none", {}))
    /\ UNCHANGED <<listening, current, log, cut, kills>>

TurnsOf(s) == {log[s][i].no : i \in DOMAIN log[s]}
SessionsListed == {s \in Sessions : log[s] # <<>>}

\* call_sessions: what the store has now.
CallSessions ==
    /\ Reads({"list", "get"}) /\ Taken
    /\ LET frame == Head(input)
           s     == frame.session
       IN WriteFrame(IF frame.kind = "list"
                       THEN Answer(frame.no, "list", "none", SessionsListed)
                     ELSE IF s = "none" THEN Answer(frame.no, "answer", "none", {})
                     ELSE Answer(frame.no, "get", s, TurnsOf(s)))
    /\ UNCHANGED <<listening, current, log, cut, kills>>

SessionOf(frame) == IF frame.session = "none" THEN DefaultSession ELSE frame.session

\* call_ask: the turn begins with its message in the log of the session.
BeginAsk ==
    /\ Reads({"ask"}) /\ Taken
    /\ current' = Head(input) /\ pc' = "turn"
    /\ log' = [log EXCEPT ![SessionOf(current')] =
                 Append(@, [no |-> current'.no, named |-> current'.session # "none", ended |-> FALSE])]
    /\ UNCHANGED <<listening, answers, cut, kills>>

\* The turn has ended in the log before its outcome, an answer or a failure told in
\* band, is written.
EndAsk ==
    /\ pc = "turn"
    /\ LET s == SessionOf(current) IN
         /\ log' = [log EXCEPT ![s][Len(log[s])].ended = TRUE]
         /\ WriteFrame(Answer(current.no, "ask", s, {}))
    /\ current' = NoFrame
    /\ UNCHANGED <<client, listening, cut, kills>>

\* The end of the input.
Ends ==
    /\ pc = "read" /\ input = <<>> /\ ~open
    /\ pc' = "stopped"
    /\ UNCHANGED <<client, listening, current, log, answers, cut, kills>>

\* The log stays; what was in the pipes does not.
Kill ==
    /\ pc # "down" /\ kills < MaxKills /\ kills' = kills + 1
    /\ cut' = IF pc = "turn" THEN cut \cup {current.no} ELSE cut
    /\ pc' = "down" /\ current' = NoFrame /\ input' = <<>> /\ open' = FALSE
    /\ UNCHANGED <<listening, log, answers, sent>>

\* The command once more: it boots, builds its one agent and serves.
Start ==
    /\ pc = "down"
    /\ pc' = "read" /\ open' = TRUE /\ listening' = TRUE
    /\ UNCHANGED <<input, current, log, answers, sent, cut, kills>>

Next ==
    \/ \E kind \in Kinds, s \in Sessions \cup {"none"} : Send(kind, s)
    \/ HangUp \/ StopReading
    \/ Skip \/ AnswerAtOnce \/ CallSessions \/ BeginAsk \/ EndAsk \/ Ends \/ Kill \/ Start

Spec == Init /\ [][Next]_vars

---------------------------------------------------------------------------

\* The answers with an id come in the order of the requests, each at most once, whatever
\* stands between them and however often the server was started.
AnswersInOrder ==
    \A i, j \in DOMAIN answers :
        i < j /\ answers[i].no # 0 /\ answers[j].no # 0 => answers[i].no < answers[j].no

\* A client that reads a session after an `ask` of it was answered is shown that turn; and
\* it is shown none of a request it made after the read.
AskedIsShown ==
    \A j \in DOMAIN answers : answers[j].is = "get" =>
        /\ \A i \in 1..j - 1 :
             answers[i].is = "ask" /\ answers[i].session = answers[j].session =>
                answers[i].no \in answers[j].shows
        /\ \A no \in answers[j].shows : no < answers[j].no

\* The one thread leaves no turn half done, whatever it failed to write: a turn that has
\* not ended is the last of its session's, and runs; or a kill cut it short.
NoneHalfDone ==
    \A s \in Sessions : \A i \in DOMAIN log[s] : ~log[s][i].ended =>
        \/ log[s][i].no \in cut
        \/ pc = "turn" /\ log[s][i].no = current.no /\ i = Len(log[s])

\* Violated: no two asks that name no session share one: "A new one is made when absent"
\* (mcp.rs:41); the code has both in DEFAULT_SESSION, also when they are of two processes.
AbsentIsNew ==
    \A s \in Sessions : \A i, j \in DOMAIN log[s] :
        i < j => log[s][i].named \/ log[s][j].named
=============================================================================
