---------------------------------- MODULE Acp ----------------------------------
(***************************************************************************)
(* The ACP surface: an editor and the gateway on one pipe, each of them    *)
(* client and server.  Modelled from pkgs/host/host/src/acp.rs.            *)
(*                                                                         *)
(* A thread moves the editor's lines into a channel; the thread of the     *)
(* turns takes them out: between turns it serves them, while a turn runs   *)
(* it only looks for a cancel, and while a question waits also for the     *)
(* answer to it.  What the turn itself does is Turn's; here it speaks,     *)
(* asks and ends as it likes.                                              *)
(***************************************************************************)
EXTENDS Integers, Sequences

CONSTANTS
    MaxOf,         \* bound: the editor's frames of each kind
    MaxAsks        \* bound: questions put to the editor

\* The editor's frames, told apart as far as the gateway does.
Requests == {"initialize", "new", "prompt", "unknown", "unreadable"}
Kinds == Requests \cup {"cancel", "answer"}

ASSUME AcpAssumption == MaxAsks \in Nat /\ MaxOf \in [Requests \cup {"cancel"} -> Nat]

VARIABLES
    incoming,     \* the channel: what the editor wrote and nobody took
    closed,       \* the editor hung up
    phase,        \* serving | turn | asking | ended
    negotiated, sessions,   \* Connection
    cancelled,    \* PipeAsker.cancelled
    asked,        \* the questions put so far; the last one is the one that waits
    stopped,      \* the running turn's sink returned Stop
    turn,         \* the prompt being run
    reqs, made,   \* the editor's requests so far, and its frames by kind
    chosen,       \* the answers it gave, each with its question
    response,     \* the last response written, to request 0 where its id is null
    heard,        \* a cancel was taken from the channel while this turn ran
    given         \* question -> the answer the gate was handed

vars == <<incoming, closed, phase, negotiated, sessions, cancelled, asked,
          stopped, turn, reqs, made, chosen, response, heard, given>>
connection == <<negotiated, sessions>>
editor == <<closed, reqs, made, chosen>>

\* A frame's number is the session a prompt names, or the question an answer is to.
Options == {"yes", "no"}
Default == "no"
NoTurn == [req |-> 0, session |-> 0]

TypeOK ==
    /\ phase \in {"serving", "turn", "asking", "ended"}
    /\ \A i \in DOMAIN incoming : incoming[i].kind \in Kinds
    /\ reqs \in Nat /\ made \in [Requests \cup {"cancel"} -> Nat]
    /\ \A c \in chosen : c.no \in 1..asked /\ c.choice \in Options
    /\ closed \in BOOLEAN /\ negotiated \in BOOLEAN /\ cancelled \in BOOLEAN
    /\ stopped \in BOOLEAN /\ heard \in BOOLEAN
    /\ sessions \in Nat /\ asked \in 0..MaxAsks
    /\ DOMAIN given \subseteq 1..asked /\ \A q \in DOMAIN given : given[q] \in Options
    /\ (turn # NoTurn) <=> (phase \in {"turn", "asking"})
    /\ turn # NoTurn => turn.req \in 1..reqs /\ turn.session \in 1..sessions
    /\ response.req \in 0..reqs

Init ==
    /\ incoming = <<>> /\ closed = FALSE /\ phase = "serving"
    /\ negotiated = FALSE /\ sessions = 0
    /\ cancelled = FALSE /\ asked = 0 /\ stopped = FALSE /\ turn = NoTurn
    /\ reqs = 0 /\ made = [k \in Requests \cup {"cancel"} |-> 0] /\ chosen = {}
    /\ response = [req |-> 0, what |-> "none"]
    /\ heard = FALSE /\ given = [q \in {} |-> Default]

---------------------------------------------------------------------------
(* The editor.                                                             *)

Write(kind, req, no, choice) ==
    /\ ~closed
    /\ incoming' = Append(incoming, [kind |-> kind, req |-> req, no |-> no, choice |-> choice])
    /\ UNCHANGED <<closed, phase, connection, cancelled, asked, stopped, turn, response, heard, given>>

\* A request may come at any time: an editor is not bound to wait for a turn.
SendRequest(kind, session) ==
    /\ Write(kind, reqs + 1, session, Default)
    /\ made[kind] < MaxOf[kind]
    /\ reqs' = reqs + 1 /\ made' = [made EXCEPT ![kind] = @ + 1] /\ UNCHANGED chosen

SendCancel ==
    /\ made["cancel"] < MaxOf["cancel"]
    /\ Write("cancel", 0, 0, Default)
    /\ made' = [made EXCEPT !["cancel"] = @ + 1] /\ UNCHANGED <<reqs, chosen>>

\* The editor answers a question once, whether or not it still waits.
SendAnswer(q, choice) ==
    /\ q \in 1..asked /\ q \notin {c.no : c \in chosen}
    /\ Write("answer", 0, q, choice)
    /\ chosen' = chosen \cup {[no |-> q, choice |-> choice]} /\ UNCHANGED <<reqs, made>>

HangUp ==
    /\ ~closed /\ closed' = TRUE
    /\ UNCHANGED <<incoming, phase, connection, cancelled, asked, stopped, turn, reqs, made, chosen, response, heard, given>>

---------------------------------------------------------------------------
(* Between turns: serve, Connection::answer, Connection::route.            *)

Frame == Head(incoming)
Take == incoming # <<>> /\ incoming' = Tail(incoming)

\* What route answers a request with, when it is no prompt that runs.
Response ==
    CASE Frame.kind = "unreadable" -> "parse-error"
      [] ~negotiated /\ Frame.kind # "initialize" -> "not-negotiated"
      [] Frame.kind = "unknown" -> "no-such-method"
      [] Frame.kind = "prompt" -> "no-such-session"
      [] OTHER -> "result"

Runs == Frame.kind = "prompt" /\ negotiated /\ Frame.no \in 1..sessions

\* Mutant: a turn's response leaves the connection in the turn.
RespondKeepingPhase(req, what) == response' = [req |-> req, what |-> what] /\ phase' = phase

\* A response the editor is no longer there to read ends serve.
Respond(req, what) ==
    \/ response' = [req |-> req, what |-> what] /\ phase' = "serving"
    \/ closed /\ phase' = "ended" /\ UNCHANGED response

ServeRequest ==
    /\ phase = "serving" /\ Take /\ Frame.kind \in Requests /\ ~Runs
    /\ Respond(IF Frame.kind = "unreadable" THEN 0 ELSE Frame.req, Response)
    /\ negotiated' = (negotiated \/ Frame.kind = "initialize")
    /\ sessions' = IF Frame.kind = "new" /\ negotiated THEN sessions + 1 ELSE sessions
    /\ UNCHANGED <<editor, cancelled, asked, stopped, turn, heard, given>>

\* A cancel between turns is a notification of nothing.
ServeCancel ==
    /\ phase = "serving" /\ Take /\ Frame.kind = "cancel"
    /\ UNCHANGED <<editor, phase, connection, cancelled, asked, stopped, turn, response, heard, given>>

\* An answer to a question that no longer waits is no request: it has no method.
ServeAnswer ==
    /\ phase = "serving" /\ Take /\ Frame.kind = "answer"
    /\ Respond(0, "parse-error")
    /\ UNCHANGED <<editor, connection, cancelled, asked, stopped, turn, heard, given>>

BeginTurn ==
    /\ phase = "serving" /\ Take /\ Runs
    /\ phase' = "turn" /\ turn' = [req |-> Frame.req, session |-> Frame.no]
    /\ stopped' = FALSE /\ heard' = FALSE
    /\ UNCHANGED <<editor, connection, cancelled, asked, response, given>>

\* Mutant: serve holds a sender of the channel itself.
ChannelHeld == closed /\ incoming = <<>> /\ phase # "serving"

\* recv fails once the reader is gone and everything was taken.
ChannelClosed == closed /\ incoming = <<>>

ServeEnds ==
    /\ phase = "serving" /\ ChannelClosed
    /\ phase' = "ended"
    /\ UNCHANGED <<incoming, editor, connection, cancelled, asked, stopped, turn, response, heard, given>>

---------------------------------------------------------------------------
(* While a turn runs: AcpSink, PipeAsker.                                  *)

CancelWaits == \E i \in DOMAIN incoming : incoming[i].kind = "cancel"

\* Mutant: a drain stops at the first frame that is no cancel.
DrainHead == incoming # <<>> /\ Frame.kind = "cancel"

\* PipeAsker::drain: every waiting frame is taken, and only a cancel is kept.
Drain == CancelWaits

Drained ==
    /\ incoming' = <<>>
    /\ cancelled' = (cancelled \/ Drain) /\ heard' = (heard \/ CancelWaits)

\* A text delta: it is written, then the cancel is looked for.  An editor that is
\* gone stops the turn instead.
Speak ==
    /\ phase = "turn" /\ ~stopped
    /\ \/ Drained /\ stopped' = cancelled'
       \/ closed /\ stopped' = TRUE /\ UNCHANGED <<incoming, cancelled, heard>>
    /\ UNCHANGED <<editor, phase, connection, asked, turn, response, given>>

Given(answer) == given' = [q \in DOMAIN given \cup {asked} |-> IF q = asked THEN answer ELSE given[q]]

\* PipeAsker::ask writes its request and waits; a pipe that cannot be written
\* to is the default answer.  A turn that was stopped asks too: its finalize is
\* dispatched, and interceptors there may.
Ask ==
    /\ phase = "turn" /\ asked < MaxAsks
    /\ asked' = asked + 1
    /\ \/ phase' = "asking" /\ UNCHANGED given
       \/ /\ closed /\ phase' = phase
          /\ given' = [q \in DOMAIN given \cup {asked + 1} |-> IF q = asked + 1 THEN Default ELSE given[q]]
    /\ UNCHANGED <<incoming, editor, connection, cancelled, stopped, turn, response, heard>>

\* Mutant: the answer that comes is the answer, whatever it answers.
AnswersAny == Frame.kind = "answer"

\* Mutant: an answer is compared with the id of the next question.
AnswersNext == Frame.kind = "answer" /\ Frame.no = asked + 1

AnswersIt == Frame.kind = "answer" /\ Frame.no = asked

\* The answer to the question that waits.
TakeAnswer ==
    /\ phase = "asking" /\ Take /\ AnswersIt
    /\ Given(Frame.choice) /\ phase' = "turn"
    /\ UNCHANGED <<editor, connection, cancelled, asked, stopped, turn, response, heard>>

\* A cancel refuses the question and is kept.
TakeCancel ==
    /\ phase = "asking" /\ Take /\ Frame.kind = "cancel"
    /\ cancelled' = TRUE /\ heard' = TRUE
    /\ Given(Default) /\ phase' = "turn"
    /\ UNCHANGED <<editor, connection, asked, stopped, turn, response>>

\* Any other frame is read and thrown away, a request with it.
SkipFrame ==
    /\ phase = "asking" /\ Take /\ Frame.kind # "cancel" /\ ~AnswersIt
    /\ UNCHANGED <<editor, phase, connection, cancelled, asked, stopped, turn, response, heard, given>>

\* The channel is closed: the default answer.
AskEnds ==
    /\ phase = "asking" /\ ChannelClosed
    /\ Given(Default) /\ phase' = "turn"
    /\ UNCHANGED <<incoming, editor, connection, cancelled, asked, stopped, turn, response, heard>>

\* A cancel overrides what the turn came to.
Outcome(outcome) == IF cancelled' THEN "cancelled" ELSE outcome

\* run_streaming_with_driver returned: a last drain, then the response.
EndTurn ==
    /\ phase = "turn"
    /\ Drained
    /\ \E outcome \in {"end_turn", "failed"} : Respond(turn.req, Outcome(outcome))
    /\ turn' = NoTurn
    /\ UNCHANGED <<editor, connection, asked, stopped, given>>

Serve == ServeRequest \/ ServeCancel \/ ServeAnswer \/ BeginTurn \/ ServeEnds
Answers == TakeAnswer \/ TakeCancel \/ SkipFrame \/ AskEnds

Next ==
    \/ \E k \in {"unknown", "unreadable", "initialize", "new"} : SendRequest(k, 0)
    \/ \E s \in 1..MaxOf["new"] : SendRequest("prompt", s)
    \/ SendCancel \/ HangUp
    \/ \E q \in 1..MaxAsks, c \in Options : SendAnswer(q, c)
    \/ Serve \/ Answers
    \/ Speak \/ Ask \/ EndTurn

Spec == Init /\ [][Next]_vars

\* The thread of the turns runs on, and a turn that nobody keeps waiting ends; a
\* question waits for its editor without a limit, so an editor that stays owes an
\* answer or a cancel.
FairSpec ==
    /\ Spec
    /\ WF_vars(Serve) /\ WF_vars(Answers) /\ WF_vars(EndTurn)
    /\ WF_vars(\E q \in 1..MaxAsks, c \in Options : SendAnswer(q, c))

---------------------------------------------------------------------------

\* The gate is handed "yes" for a question only when the editor chose it for
\* that question: an answer that comes after its question was cancelled grants
\* nothing to the next one.
GrantsAreChosen == \A q \in DOMAIN given : given[q] = "yes" => [no |-> q, choice |-> "yes"] \in chosen

\* A turn during which a cancel was taken from the pipe, behind whatever other
\* frames, in a question or between two deltas, is not answered as if it had
\* ended or failed by itself.
CancelsAreAnswered ==
    [][turn # NoTurn /\ turn' = NoTurn /\ heard' /\ phase' # "ended" =>
        response' = [req |-> turn.req, what |-> "cancelled"]]_vars

\* A turn ends and its prompt is answered, or serve ends with it: no frame the
\* editor sends meanwhile, and no hanging up, keeps it.
TurnsEnd == (turn # NoTurn) ~> (turn = NoTurn)

\* An editor that hangs up is noticed and serve returns.
HangUpEndsServe == closed ~> phase = "ended"

\* Violated: a cancel marks the turn it came for ("and the turn is marked
\* cancelled", acp.rs:698); a turn answered "cancelled" heard one.
CancelledByItsOwn ==
    [][turn # NoTurn /\ turn' = NoTurn /\ response'.what = "cancelled" => heard']_vars
=============================================================================
