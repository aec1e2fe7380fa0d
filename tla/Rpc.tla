---------------------------------- MODULE Rpc ----------------------------------
(***************************************************************************)
(* One connection of the client protocol, over a pipe or a WebSocket: the  *)
(* frames a client sends at any time, and the one thread that reads them,  *)
(* between the turns and in the middle of one.  Modelled from              *)
(* pkgs/host/host/src/{rpc,ws}.rs.                                         *)
(*                                                                         *)
(* The queue of frames is first in, first out with one reader, so it is    *)
(* what was sent after the last frame read.  A turn is any sequence of     *)
(* emits, questions and looks for a follow-up that the conductor may make  *)
(* (module Turn says which it makes).                                      *)
(***************************************************************************)
EXTENDS Integers, Sequences

CONSTANTS
    Sessions,     \* session ids
    Talked,       \* bound: the sessions this client starts turns in
    NoSession,    \* a frame about no session
    MaxFrames,    \* bound: frames of one connection
    MaxAsks,      \* bound: questions of one connection
    MaxEmits      \* bound: events of one turn before its end

ASSUME RpcAssumption ==
    /\ MaxFrames \in Nat /\ MaxAsks \in Nat /\ MaxEmits \in Nat
    /\ Talked \subseteq Sessions /\ NoSession \notin Sessions

VARIABLES
    transport,   \* stdio or ws
    input,       \* whether the client may still send
    output,      \* whether what is written still reaches the client
    sent,        \* the frames the client sent
    verdict,     \* what was decided on each frame read, in the order they were read
    negotiated,  \* whether the versions were agreed on
    at,          \* where the reader is
    turn,        \* the frame that started the running turn, 0 if none runs
    asking,      \* TurnState.asking
    cancelled,   \* TurnState.cancelled
    followUps,   \* TurnState.follow_ups
    closing,     \* the conductor will look for no follow-up any more
    emits,       \* events of this turn so far
    outcome,     \* question -> the frame whose answer it returned, Waiting or Default
    heard        \* history: <<turn, frame>>, the follow-ups handed to the conductor

vars == <<transport, input, output, sent, verdict, negotiated, at, turn, asking, cancelled,
          followUps, closing, emits, outcome, heard>>

client == <<transport, input, output, sent>>
state == <<asking, cancelled, followUps>>

Waiting == 0
Default == -1

Frames ==
    [kind : {"hello", "old-hello", "other"}, session : {NoSession}, about : {0}]
    \cup [kind : {"message"}, session : Talked, about : {0}]
    \cup [kind : {"cancel", "follow-up"}, session : Sessions, about : {0}]
    \cup [kind : {"answer"}, session : Sessions, about : 1..MaxAsks]

Read == Len(verdict)
Unread == Read < Len(sent)
Frame == sent[Read + 1]
Asked == Len(outcome)

Init ==
    /\ transport \in {"stdio", "ws"} /\ input = "open" /\ output = "open"
    /\ sent = <<>> /\ verdict = <<>> /\ negotiated = FALSE
    /\ at = "top" /\ turn = 0
    /\ asking = FALSE /\ cancelled = FALSE /\ followUps = <<>>
    /\ closing = FALSE /\ emits = 0
    /\ outcome = <<>> /\ heard = <<>>

-----------------------------------------------------------------------------
(* The client. *)

\* It may answer a question it was shown, in time or late, once or twice.
Send ==
    /\ input = "open" /\ Len(sent) < MaxFrames
    /\ \E frame \in Frames : frame.about <= Asked /\ sent' = Append(sent, frame)
    /\ UNCHANGED <<transport, input, output, verdict, negotiated, at, turn, state, closing, emits,
                   outcome, heard>>

HangUp ==
    /\ \/ input = "open" /\ input' = "closed" /\ UNCHANGED output
       \/ output = "open" /\ output' = "closed" /\ UNCHANGED input
    /\ UNCHANGED <<transport, sent, verdict, negotiated, at, turn, state, closing, emits, outcome,
                   heard>>

-----------------------------------------------------------------------------
(* Between the turns. *)

\* stdio ends with the first answer it cannot write; a socket's end is seen at its next frame.
Answered == at' = IF output = "closed" /\ transport = "stdio" THEN "closed" ELSE "top"

AtTop == at = "top" /\ Unread

\* The handshake; one that is refused hangs up, at any time.
Hello ==
    /\ AtTop
    /\ \/ /\ Frame.kind = "hello"
          /\ negotiated' = TRUE
          /\ verdict' = Append(verdict, "answered")
          /\ Answered
       \/ /\ Frame.kind = "old-hello"
          /\ verdict' = Append(verdict, "refused")
          /\ at' = "closed" /\ UNCHANGED negotiated
    /\ UNCHANGED <<client, turn, state, closing, emits, outcome, heard>>

\* A command before the handshake, or about a turn when none runs, is refused.
Command ==
    /\ AtTop /\ Frame.kind \notin {"hello", "old-hello"}
    /\ negotiated => Frame.kind # "message"
    /\ verdict' = Append(verdict, IF negotiated /\ Frame.kind = "other" THEN "answered"
                                  ELSE "refused")
    /\ Answered
    /\ UNCHANGED <<client, negotiated, turn, state, closing, emits, outcome, heard>>

\* Mutant: the state of the last turn is kept.
StartTurnKeeping ==
    /\ AtTop /\ negotiated /\ Frame.kind = "message"
    /\ verdict' = Append(verdict, "running")
    /\ turn' = Read + 1 /\ at' = "working"
    /\ UNCHANGED state
    /\ closing' = FALSE /\ emits' = 0
    /\ UNCHANGED <<client, negotiated, outcome, heard>>

\* A message is answered when its turn is over.
StartTurn ==
    /\ AtTop /\ negotiated /\ Frame.kind = "message"
    /\ verdict' = Append(verdict, "running")
    /\ turn' = Read + 1 /\ at' = "working"
    /\ asking' = FALSE /\ cancelled' = FALSE /\ followUps' = <<>>
    /\ closing' = FALSE /\ emits' = 0
    /\ UNCHANGED <<client, negotiated, outcome, heard>>

\* No more frames will come; or the session's agent takes no job, and the socket is closed.
Close ==
    /\ at = "top"
    /\ \/ input = "closed" /\ ~Unread
       \/ transport = "ws" /\ Unread
    /\ at' = "closed"
    /\ UNCHANGED <<client, verdict, negotiated, turn, state, closing, emits, outcome, heard>>

-----------------------------------------------------------------------------
(* serve_frame: a frame that is read while a turn runs. *)

Mine == Frame.session = sent[turn].session

\* Mutant: a cancel stops whatever runs.
VerdictOnAnySession ==
    CASE Mine /\ Frame.kind = "answer" -> IF asking THEN "accepted" ELSE "refused"
      [] Frame.kind = "cancel"         -> "cancelling"
      [] Mine /\ Frame.kind = "follow-up" -> "queued"
      [] OTHER -> "refused"

Verdict ==
    CASE Mine /\ Frame.kind = "answer" -> IF asking THEN "accepted" ELSE "refused"
      [] Mine /\ Frame.kind = "cancel" -> "cancelling"
      [] Mine /\ Frame.kind = "follow-up" -> "queued"
      [] OTHER -> "refused"

\* Mutant: the frame is looked at and left in the queue.
ServeFrameLeft ==
    /\ Unread
    /\ UNCHANGED verdict
    /\ cancelled' = (cancelled \/ Verdict = "cancelling")
    /\ followUps' = IF Verdict = "queued" THEN Append(followUps, Read + 1) ELSE followUps

ServeFrame ==
    /\ Unread
    /\ verdict' = Append(verdict, Verdict)
    /\ cancelled' = (cancelled \/ Verdict = "cancelling")
    /\ followUps' = IF Verdict = "queued" THEN Append(followUps, Read + 1) ELSE followUps

Draining == at \in {"emitting", "noting", "polling", "finishing"}

\* One frame of serve_queued, which drops an answer's text.
ServeQueued ==
    /\ Draining /\ ServeFrame
    /\ UNCHANGED <<client, negotiated, at, turn, asking, closing, emits, outcome, heard>>

-----------------------------------------------------------------------------
(* What the conductor does with its sink and its driver. *)

\* RpcSink::emit: the frame is written, then what is queued is served.
Emit ==
    /\ at = "working" /\ emits < MaxEmits
    /\ emits' = emits + 1
    /\ \E heeded \in BOOLEAN :
         IF output = "closed"
         THEN closing' = (closing \/ heeded) /\ UNCHANGED at
         ELSE at' = (IF heeded THEN "emitting" ELSE "noting") /\ UNCHANGED closing
    /\ UNCHANGED <<client, verdict, negotiated, turn, state, outcome, heard>>

Emitted ==
    /\ at \in {"emitting", "noting"} /\ ~Unread
    /\ at' = "working"
    /\ closing' = (closing \/ (at = "emitting" /\ cancelled))
    /\ UNCHANGED <<client, verdict, negotiated, turn, state, emits, outcome, heard>>

\* RpcDriver::ask: the question is written and waited on, or takes its default at once.
Ask ==
    /\ at = "working" /\ Asked < MaxAsks
    /\ IF output = "closed"
       THEN outcome' = Append(outcome, Default) /\ UNCHANGED <<at, asking>>
       ELSE /\ outcome' = Append(outcome, Waiting)
            /\ at' = "waiting" /\ asking' = TRUE
    /\ UNCHANGED <<client, verdict, negotiated, turn, cancelled, followUps, closing, emits, heard>>

Return(result) == at' = "working" /\ outcome' = [outcome EXCEPT ![Asked] = result]

\* One round of wait_until: the first answer is taken, a cancel ends the wait.
WaitServe ==
    /\ at = "waiting" /\ ServeFrame
    /\ IF Verdict = "accepted" THEN Return(Read + 1) /\ asking' = FALSE
       ELSE IF cancelled' THEN Return(Default) /\ asking' = FALSE
       ELSE UNCHANGED <<at, outcome, asking>>
    /\ UNCHANGED <<client, negotiated, turn, closing, emits, heard>>

\* Mutant: only a hang-up ends a wait.
GiveUpAtHangUp ==
    /\ at = "waiting" /\ input = "closed" /\ ~Unread
    /\ Return(Default) /\ asking' = FALSE
    /\ UNCHANGED <<client, verdict, negotiated, turn, cancelled, followUps, closing, emits, heard>>

\* Mutant: `asking` is cleared by an answer alone.
GiveUpAsking ==
    /\ at = "waiting"
    /\ Return(Default) /\ UNCHANGED asking
    /\ UNCHANGED <<client, verdict, negotiated, turn, cancelled, followUps, closing, emits, heard>>

\* The deadline passed, or no frame will come.
GiveUp ==
    /\ at = "waiting"
    /\ Return(Default) /\ asking' = FALSE
    /\ UNCHANGED <<client, verdict, negotiated, turn, cancelled, followUps, closing, emits, heard>>

\* RpcDriver::follow_up: what is queued is served, then the oldest follow-up taken.
Poll ==
    /\ at = "working" /\ ~closing
    /\ at' = "polling"
    /\ UNCHANGED <<client, verdict, negotiated, turn, state, closing, emits, outcome, heard>>

Polled ==
    /\ at = "polling" /\ ~Unread
    /\ at' = "working"
    /\ IF followUps = <<>>
       THEN closing' = TRUE /\ UNCHANGED <<followUps, heard>>
       ELSE /\ heard' = Append(heard, <<turn, Head(followUps)>>)
            /\ followUps' = Tail(followUps) /\ UNCHANGED closing
    /\ UNCHANGED <<client, verdict, negotiated, turn, asking, cancelled, emits, outcome>>

\* The turn is answered: `done` is emitted, whose flow nobody heeds.  Or it failed.
Finish ==
    /\ at = "working"
    /\ \/ output = "open" /\ at' = "finishing"
       \/ at' = "over"
    /\ UNCHANGED <<client, verdict, negotiated, turn, state, closing, emits, outcome, heard>>

\* The response to the message, and the reader is back between the turns.
EndTurn ==
    /\ at = "over" \/ (at = "finishing" /\ ~Unread)
    /\ verdict' = [verdict EXCEPT ![turn] = "answered"]
    /\ turn' = 0 /\ Answered
    /\ UNCHANGED <<client, negotiated, state, closing, emits, outcome, heard>>

-----------------------------------------------------------------------------
Conversation == Hello \/ Command \/ StartTurn

Conduct ==
    \/ ServeQueued \/ Emit \/ Emitted \/ Ask \/ WaitServe \/ GiveUp \/ Poll \/ Polled
    \/ Finish \/ EndTurn

Rest == at = "closed" /\ UNCHANGED vars

Next == Send \/ HangUp \/ Conversation \/ Close \/ Conduct \/ Rest

Spec == Init /\ [][Next]_vars

\* The serving thread runs on, whatever the client does; no client is expected to do anything.
FairSpec == Spec /\ WF_vars(Conversation \/ Conduct)

-----------------------------------------------------------------------------
(* Properties. *)

\* Type correctness of the connection's state.
TypeOK ==
    /\ transport \in {"stdio", "ws"} /\ {input, output} \subseteq {"open", "closed"}
    /\ sent \in Seq(Frames) /\ Len(sent) <= MaxFrames
    /\ verdict \in Seq({"answered", "refused", "running", "accepted", "cancelling", "queued"})
    /\ Read <= Len(sent) /\ turn \in 0..Read
    /\ at \in {"top", "working", "emitting", "noting", "waiting", "polling", "finishing", "over",
               "closed"}
    /\ {negotiated, asking, cancelled, closing} \subseteq BOOLEAN
    /\ followUps \in Seq(1..Read) /\ heard \in Seq((1..Read) \X (1..Read))
    /\ emits \in 0..MaxEmits
    /\ outcome \in Seq({Waiting, Default} \cup 1..Read) /\ Asked <= MaxAsks

\* An answer told `accepted` is what its question returned: none is taken and thrown away, and
\* none answers two questions (serve_queued drops the text of an answer that serve_frame took).
AcceptedIsHeard ==
    \A i \in 1..Read : verdict[i] = "accepted" =>
        \E q \in 1..Asked : outcome[q] = i /\ \A p \in 1..Asked : outcome[p] = i => p = q

\* A turn is cancelled if and only if a cancel of its session was read since it began: no cancel
\* reaches another session's turn, or a later one ("cancelling the wrong turn silently").
CancelsItsTurn ==
    turn # 0 => (cancelled <=> \E i \in (turn + 1)..Read :
                                  sent[i].kind = "cancel" /\ sent[i].session = sent[turn].session)

\* A follow-up steers the turn it was sent during, of the session it names, in the order sent.
SteersItsTurn ==
    \A n \in 1..Len(heard) :
        /\ heard[n][2] > heard[n][1]
        /\ sent[heard[n][2]].session = sent[heard[n][1]].session
        /\ \A m \in 1..(n - 1) : heard[m][2] < heard[n][2]

\* Every frame gets its answer while the connection lives, whatever runs and waits.
EveryFrameAnswered ==
    \A i \in 1..MaxFrames :
        Len(sent) >= i ~> at = "closed" \/ (Read >= i /\ verdict[i] # "running")

\* A claim of the comment on TurnState.asking: an answer that came when nothing asked is refused,
\* because a stashed one would approve the next question.  It is refused if it is read then; one
\* that comes after its question's deadline waits in the queue for the next question.
AnswersItsQuestion ==
    \A q \in 1..Asked : outcome[q] \in 1..Read => sent[outcome[q]].about = q
===============================================================================
