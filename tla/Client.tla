-------------------------------- MODULE Client --------------------------------
(***************************************************************************)
(* The terminal client over a gateway it spawned.  Modelled from           *)
(* pkgs/clients/tui/src/{tui,app,transport}.rs; what the gateway does with *)
(* the frames is Rpc's, here as far as a client can tell.                  *)
(*                                                                         *)
(* The main thread loops: it applies the events of its turn, sends what    *)
(* was asked for, handles one key.  Each message has a thread that sends   *)
(* it and then reads the gateway's one output until its own response; a    *)
(* session is listed, created or fetched, and a command invoked, by the    *)
(* main thread itself in the same way.  Whoever reads holds the reader,    *)
(* and takes what is meant for others too.                                 *)
(***************************************************************************)
EXTENDS Integers, Sequences

CONSTANTS
    MaxTurns,     \* bound: messages
    MaxCalls,     \* bound: requests the main thread makes and waits for
    MaxCancels,   \* bound: cancels
    MaxSteers,    \* bound: follow-ups
    MaxAsks       \* bound: questions of the gateway

VARIABLES
    pc,            \* where the main thread is in its loop
    phase,         \* App.phase
    prompts,       \* App.prompts
    dialog,        \* App.dialog_open
    cancelReq,     \* App.cancel_requested
    callReq,       \* a list, create or invoke is requested
    switcher,      \* App.sessions is open
    gone,          \* App.disconnected
    rx,            \* the message whose events the loop applies, 0 without
    channel,       \* its events
    stream,        \* the thread of each message
    answering,     \* the threads that have an answer to send
    toGateway, toClient,   \* the pipes
    gateway,       \* what the gateway is doing
    running,       \* the message whose turn it runs
    count,         \* what was done so far, for the bounds
    crossed        \* a response was read by another reader than its own

vars == <<pc, phase, prompts, dialog, cancelReq, callReq, switcher, gone, rx, channel, stream,
          answering, toGateway, toClient, gateway, running, count, crossed>>
app == <<phase, prompts, dialog, cancelReq, callReq, switcher, gone>>
core == <<gateway, running>>

Messages == 1..MaxTurns
Main == 0             \* the main thread as a reader
Nobody == -1          \* a frame whose response nobody reads for
Blocked == {"waits", "reads"}
Events == {"ask", "done", "error", "err"}

TypeOK ==
    /\ pc \in {"events", "requests", "keys"} \cup Blocked
    /\ phase \in {"idle", "streaming", "cancelling"}
    /\ prompts \in 0..MaxAsks /\ (dialog => prompts # 0)
    /\ {cancelReq, callReq, switcher, gone, crossed} \subseteq BOOLEAN
    /\ rx \in 0..MaxTurns /\ (rx = 0 => channel = <<>>)
    /\ \A i \in DOMAIN channel : channel[i] \in Events
    /\ stream \in [Messages -> {"none", "sends", "waits", "reads", "over"}]
    /\ answering \in 0..MaxAsks
    /\ \A i \in DOMAIN toGateway : toGateway[i].from \in {Nobody, Main} \cup Messages
    /\ \A i \in DOMAIN toClient : toClient[i].to \in {Nobody, Main} \cup Messages
    /\ gateway \in {"idle", "turn", "asking", "finishing", "dead"}
    /\ running \in 0..MaxTurns /\ (running # 0 <=> gateway \in {"turn", "asking", "finishing"})

Init ==
    /\ pc = "events" /\ phase = "idle" /\ prompts = 0 /\ dialog = FALSE
    /\ cancelReq = FALSE /\ callReq = FALSE /\ switcher = FALSE /\ gone = FALSE
    /\ rx = 0 /\ channel = <<>> /\ stream = [m \in Messages |-> "none"] /\ answering = 0
    /\ toGateway = <<>> /\ toClient = <<>> /\ gateway = "idle" /\ running = 0
    /\ count = [turns |-> 0, calls |-> 0, cancels |-> 0, steers |-> 0, asks |-> 0]
    /\ crossed = FALSE

\* Where the turn is, as the keys see it.
Turn == IF prompts # 0 THEN "blocked" ELSE phase
Alive == gateway # "dead"

\* Stdio::send: a frame, and an error once the gateway is gone.
Send(kind, from) ==
    toGateway' = IF Alive THEN Append(toGateway, [kind |-> kind, from |-> from]) ELSE toGateway

---------------------------------------------------------------------------
(* The main loop: events.                                                  *)

\* Mutant: the prompts of a turn that ended are kept.
ForgetPromptsNever == UNCHANGED <<prompts, dialog>>

ForgetPrompts == prompts' = 0 /\ dialog' = FALSE

\* Step::Ended and App::end_turn.  A requested cancel is kept.
EndTurn == rx' = 0 /\ channel' = <<>> /\ phase' = "idle" /\ ForgetPrompts

ApplyAsk ==
    /\ pc = "events" /\ channel # <<>> /\ Head(channel) = "ask"
    /\ channel' = Tail(channel)
    /\ prompts' = prompts + 1 /\ dialog' = (dialog \/ prompts = 0)
    /\ UNCHANGED <<pc, phase, cancelReq, callReq, switcher, gone, rx, stream, answering,
                   toGateway, toClient, core, count, crossed>>

\* Done, an error event, or a stream that failed, which disconnects.
ApplyEnd ==
    /\ pc = "events" /\ channel # <<>> /\ Head(channel) \in {"done", "error", "err"}
    /\ EndTurn
    /\ gone' = (gone \/ Head(channel) = "err")
    /\ pc' = "requests"
    /\ UNCHANGED <<cancelReq, callReq, switcher, stream, answering, toGateway, toClient, core,
                   count, crossed>>

\* Nothing more: the sender is still there, or it is not and the turn is over.
ApplyNothing ==
    /\ pc = "events" /\ channel = <<>>
    /\ pc' = "requests"
    /\ IF rx # 0 /\ stream[rx] = "over" THEN EndTurn ELSE UNCHANGED <<rx, channel, phase, prompts, dialog>>
    /\ UNCHANGED <<cancelReq, callReq, switcher, gone, stream, answering, toGateway, toClient,
                   core, count, crossed>>

---------------------------------------------------------------------------
(* The main loop: requests.                                                *)

RequestCancel ==
    /\ pc = "requests" /\ cancelReq
    /\ cancelReq' = FALSE /\ Send("cancel", Nobody)
    /\ UNCHANGED <<pc, phase, prompts, dialog, callReq, switcher, gone, rx, channel, stream,
                   answering, toClient, core, count, crossed>>

\* A request that is sent and waited for: its writer has let go, and the reader
\* is locked next.
Call(kind) ==
    /\ Send(kind, Main)
    /\ pc' = IF Alive THEN "waits" ELSE "keys"

RequestCall ==
    /\ pc = "requests" /\ ~cancelReq /\ callReq
    /\ callReq' = FALSE /\ Call("list")
    /\ UNCHANGED <<phase, prompts, dialog, cancelReq, switcher, gone, rx, channel, stream,
                   answering, toClient, core, count, crossed>>

RequestNothing ==
    /\ pc = "requests" /\ ~cancelReq /\ ~callReq
    /\ pc' = "keys"
    /\ UNCHANGED <<app, rx, channel, stream, answering, toGateway, toClient, core, count, crossed>>

---------------------------------------------------------------------------
(* The main loop: one key, or none in time.                                *)

Key == pc = "keys"

\* No key: the child is looked at.
Poll ==
    /\ Key /\ pc' = "events"
    /\ IF ~gone /\ ~Alive
       THEN gone' = TRUE /\ phase' = "idle" /\ ForgetPrompts
       ELSE UNCHANGED <<gone, phase, prompts, dialog>>
    /\ UNCHANGED <<cancelReq, callReq, switcher, rx, channel, stream, answering, toGateway,
                   toClient, core, count, crossed>>

\* Enter on an idle turn: a thread for the message.
EnterSend ==
    /\ Key /\ Turn = "idle" /\ ~switcher /\ rx = 0 /\ count.turns < MaxTurns
    /\ pc' = "events" /\ phase' = "streaming"
    /\ count' = [count EXCEPT !.turns = @ + 1]
    /\ rx' = count'.turns /\ channel' = <<>>
    /\ stream' = [stream EXCEPT ![count'.turns] = "sends"]
    /\ UNCHANGED <<prompts, dialog, cancelReq, callReq, switcher, gone, answering, toGateway,
                   toClient, core, crossed>>

\* Enter on a running turn.
EnterSteer ==
    /\ Key /\ Turn = "streaming" /\ ~switcher /\ count.steers < MaxSteers
    /\ pc' = "events" /\ Send("steer", Nobody)
    /\ count' = [count EXCEPT !.steers = @ + 1]
    /\ UNCHANGED <<app, rx, channel, stream, answering, toClient, core, crossed>>

\* Enter on a question: a thread of its own sends the answer.
EnterAnswer ==
    /\ Key /\ dialog /\ ~switcher
    /\ pc' = "events"
    /\ prompts' = prompts - 1 /\ dialog' = (prompts # 1)
    /\ answering' = answering + 1
    /\ UNCHANGED <<phase, cancelReq, callReq, switcher, gone, rx, channel, stream, toGateway,
                   toClient, core, count, crossed>>

\* Esc closes the question, Enter opens it again.
ToggleDialog ==
    /\ Key /\ prompts # 0 /\ ~switcher
    /\ pc' = "events" /\ dialog' = ~dialog
    /\ UNCHANGED <<phase, prompts, cancelReq, callReq, switcher, gone, rx, channel, stream,
                   answering, toGateway, toClient, core, count, crossed>>

\* Mutant: a cancelled turn is over for the client at once.
CancelledAtOnce == rx' = 0 /\ channel' = <<>> /\ phase' = "idle"

Cancelled == phase' = "cancelling" /\ UNCHANGED <<rx, channel>>

\* App::cancel: the cancel goes out with the next requests.
PressCancel ==
    /\ Key /\ phase = "streaming" /\ count.cancels < MaxCancels
    /\ pc' = "events" /\ cancelReq' = TRUE /\ Cancelled
    /\ prompts' = 0 /\ dialog' = FALSE
    /\ count' = [count EXCEPT !.cancels = @ + 1]
    /\ UNCHANGED <<callReq, switcher, gone, stream, answering, toGateway, toClient, core, crossed>>

\* /sessions, /new or a contributed command, whatever the turn does.
PressCall ==
    /\ Key /\ ~dialog /\ count.calls < MaxCalls
    /\ pc' = "events" /\ callReq' = TRUE
    /\ count' = [count EXCEPT !.calls = @ + 1]
    /\ UNCHANGED <<phase, prompts, dialog, cancelReq, switcher, gone, rx, channel, stream,
                   answering, toGateway, toClient, core, crossed>>

\* Enter in the switcher: session/get, at once, when no turn runs here.  One more call
\* than MaxCalls, or a bound of one would leave none for it.
EnterSwitch ==
    /\ Key /\ switcher /\ Turn = "idle" /\ count.calls <= MaxCalls
    /\ Call("get")
    /\ count' = [count EXCEPT !.calls = @ + 1]
    /\ UNCHANGED <<app, rx, channel, stream, answering, toClient, core, crossed>>

CloseSwitcher ==
    /\ Key /\ switcher
    /\ pc' = "events" /\ switcher' = FALSE
    /\ UNCHANGED <<phase, prompts, dialog, cancelReq, callReq, gone, rx, channel, stream,
                   answering, toGateway, toClient, core, count, crossed>>

SendAnswer ==
    /\ answering > 0
    /\ answering' = answering - 1 /\ Send("answer", Nobody)
    /\ UNCHANGED <<pc, app, rx, channel, stream, toClient, core, count, crossed>>

---------------------------------------------------------------------------
(* Stdio::read_until, of a message's thread m or of the main thread.       *)

\* Mutant: one channel serves the threads of all messages.
TellAlways(m, what) == channel' = channel \o what

\* What the loop is handed by the thread of message m, if it still listens.
Tell(m, what) == channel' = IF rx = m THEN channel \o what ELSE channel

Free == pc # "reads" /\ \A m \in Messages : stream[m] # "reads"
Frame == Head(toClient)

LockMain ==
    /\ pc = "waits" /\ Free /\ pc' = "reads"
    /\ UNCHANGED <<app, rx, channel, stream, answering, toGateway, toClient, core, count, crossed>>

\* The thread sends its message, which a cancel of it may have overtaken, and asks for the reader.
SendMessage(m) ==
    /\ stream[m] = "sends" /\ Send("message", m)
    /\ Tell(m, IF Alive THEN <<>> ELSE <<"err">>)
    /\ stream' = [stream EXCEPT ![m] = IF Alive THEN "waits" ELSE "over"]
    /\ UNCHANGED <<pc, app, rx, answering, toClient, core, count, crossed>>

LockStream(m) ==
    /\ stream[m] = "waits" /\ Free /\ stream' = [stream EXCEPT ![m] = "reads"]
    /\ UNCHANGED <<pc, app, rx, channel, answering, toGateway, toClient, core, count, crossed>>

Foreign(reader) == Frame.kind \in {"ok", "refused"} /\ Frame.to # reader

Own(reader) == Frame.to = reader /\ Frame.kind \in {"ok", "refused"}

Crosses(reader) ==
    crossed' = (crossed \/ (Foreign(reader) /\ (Frame.to # Nobody \/ Frame.kind = "refused")))

\* Mutant: the end of the output is read as one more empty line.
EndedBlank == FALSE

\* The end of the output is an error.
Ended == toClient = <<>> /\ ~Alive

\* The main thread throws away what is not its response; a list opens the
\* switcher, a session that was fetched or created closes it.
ReadMain ==
    /\ pc = "reads"
    /\ \/ /\ toClient # <<>>
          /\ toClient' = Tail(toClient) /\ Crosses(Main)
          /\ IF Own(Main)
             THEN pc' = "keys" /\ switcher' \in (IF Frame.kind = "ok" THEN BOOLEAN ELSE {switcher})
             ELSE UNCHANGED <<pc, switcher>>
       \/ Ended /\ pc' = "keys" /\ UNCHANGED <<switcher, toClient, crossed>>
    /\ UNCHANGED <<phase, prompts, dialog, cancelReq, callReq, gone, rx, channel, stream,
                   answering, toGateway, core, count>>

\* What a frame is to the thread that reads it: an event, its own response, which
\* an error of another's turns into an event, or nothing.
Heard(m) ==
    CASE Frame.kind \in {"ask", "done"} -> <<Frame.kind>>
      [] Frame.kind = "refused" -> IF Own(m) THEN <<"err">> ELSE <<"error">>
      [] OTHER -> <<>>

ReadStream(m) ==
    /\ stream[m] = "reads"
    /\ \/ /\ toClient # <<>>
          /\ toClient' = Tail(toClient) /\ Crosses(m)
          /\ Tell(m, Heard(m))
          /\ stream' = IF Own(m) THEN [stream EXCEPT ![m] = "over"] ELSE stream
       \/ /\ Ended /\ Tell(m, <<"err">>)
          /\ stream' = [stream EXCEPT ![m] = "over"]
          /\ UNCHANGED <<toClient, crossed>>
    /\ UNCHANGED <<pc, app, rx, answering, toGateway, core, count>>

---------------------------------------------------------------------------
(* The gateway, as Rpc has it.                                             *)

Wrote(frames) == toClient' = toClient \o frames
Event(kind) == [kind |-> kind, to |-> Nobody]
Reply(kind, to) == [kind |-> kind, to |-> to]
Asked == Head(toGateway)
Takes == toGateway # <<>> /\ toGateway' = Tail(toGateway)

Between ==
    /\ gateway = "idle" /\ Takes
    /\ IF Asked.kind = "message"
       THEN gateway' = "turn" /\ running' = Asked.from /\ UNCHANGED toClient
       ELSE /\ Wrote(<<Reply(IF Asked.from = Main THEN "ok" ELSE "refused", Asked.from)>>)
            /\ UNCHANGED core
    /\ UNCHANGED <<pc, app, rx, channel, stream, answering, count, crossed>>

\* serve_frame: while a turn runs only what steers it is taken.
Serve ==
    /\ gateway \in {"turn", "asking", "finishing"} /\ Takes
    /\ LET taken == Asked.kind \in {"cancel", "steer"} \/ (Asked.kind = "answer" /\ gateway = "asking")
       IN Wrote(<<Reply(IF taken THEN "ok" ELSE "refused", Asked.from)>>)
    /\ gateway' = IF gateway = "asking" /\ Asked.kind \in {"answer", "cancel"} THEN "turn" ELSE gateway
    /\ UNCHANGED <<pc, app, rx, channel, stream, answering, running, count, crossed>>

Ask ==
    /\ gateway = "turn" /\ count.asks < MaxAsks
    /\ gateway' = "asking" /\ Wrote(<<Event("ask")>>)
    /\ count' = [count EXCEPT !.asks = @ + 1]
    /\ UNCHANGED <<pc, app, rx, channel, stream, answering, toGateway, running, crossed>>

\* The question's deadline.
GiveUp ==
    /\ gateway = "asking" /\ gateway' = "turn"
    /\ UNCHANGED <<pc, app, rx, channel, stream, answering, toGateway, toClient, running, count,
                   crossed>>

\* The turn is done, which is an event and later the response; or it failed.
Finish ==
    /\ \/ gateway = "turn" /\ gateway' = "finishing" /\ UNCHANGED running /\ Wrote(<<Event("done")>>)
       \/ gateway = "turn" /\ gateway' = "idle" /\ running' = 0 /\ Wrote(<<Reply("refused", running)>>)
       \/ gateway = "finishing" /\ gateway' = "idle" /\ running' = 0 /\ Wrote(<<Reply("ok", running)>>)
    /\ UNCHANGED <<pc, app, rx, channel, stream, answering, toGateway, count, crossed>>

Die ==
    /\ Alive /\ gateway' = "dead" /\ running' = 0 /\ toGateway' = <<>>
    /\ UNCHANGED <<pc, app, rx, channel, stream, answering, toClient, count, crossed>>

Loop ==
    \/ ApplyAsk \/ ApplyEnd \/ ApplyNothing
    \/ RequestCancel \/ RequestCall \/ RequestNothing
    \/ Poll \/ LockMain \/ ReadMain
User ==
    \/ EnterSend \/ EnterSteer \/ EnterAnswer \/ ToggleDialog
    \/ PressCancel \/ PressCall \/ EnterSwitch \/ CloseSwitcher
Gateway == Between \/ Serve \/ GiveUp \/ Finish

Next ==
    \/ Loop \/ User \/ SendAnswer
    \/ \E m \in Messages : SendMessage(m) \/ LockStream(m) \/ ReadStream(m)
    \/ Gateway \/ Ask \/ Die

Spec == Init /\ [][Next]_vars

\* The threads run, and the reader's lock is not withheld for ever from one who
\* waits; the gateway ends what it begins.  Nobody has to press a key.
FairSpec ==
    /\ Spec /\ WF_vars(Loop) /\ WF_vars(SendAnswer) /\ WF_vars(Gateway)
    /\ \A m \in Messages : WF_vars(SendMessage(m) \/ LockStream(m) \/ ReadStream(m))

---------------------------------------------------------------------------

\* A client that waits for a message has no turn running: unless a response was
\* read by somebody it was not for, the loop lets go of a turn only when the
\* gateway said it is done.  Otherwise the next message would be refused.
IdleIsIdle == rx = 0 /\ ~crossed => gateway \in {"idle", "finishing", "dead"}

\* A question is on the screen only while the events of its turn are listened to:
\* one that its turn outlived (the deadline passed) does not block the composer of
\* the next.
PromptsAreLive == prompts # 0 => rx # 0

\* The main thread gets the response it waits for, or an error, unless another
\* reader took it.
CallsReturn == (pc \in Blocked) ~> (pc \notin Blocked \/ crossed)

\* A gateway that dies is noticed, whoever reads, waits or was misled: the client
\* says so, and no turn is left streaming.
DeathIsNoticed == ~Alive ~> gone /\ phase = "idle" /\ rx = 0

\* Violated: `session_list` and the others are "only safe when no turn streams"
\* (transport.rs:398), and a key asks for them at any time; the loop goes on.
LoopGoesOn == (pc \in Blocked) ~> (pc \notin Blocked)
=============================================================================
