------------------------------- MODULE McpStdio -------------------------------
(***************************************************************************)
(* The registry-mcp guest as a client of MCP servers.  Modelled from       *)
(* pkgs/extensions/registry-mcp/src/lib.rs and the host side of it in      *)
(* pkgs/host/wasm/src/registry_host.rs.                                    *)
(*                                                                         *)
(* The guest is called by one thread: it connects its servers in order,    *)
(* then makes one tool call at a time.  A request over a child's pipes     *)
(* carries an id, but the reply is whatever line comes next, and what was  *)
(* read behind that line goes with it.  A server is a process of its own,  *)
(* which answers late, in any order, speaks unasked, or dies.              *)
(***************************************************************************)
EXTENDS Integers, Sequences, SequencesExt

CONSTANTS
    Configured,   \* the servers of the configuration, in its order
    Http,         \* those reached by one POST per request, the others over a child
    Granted,      \* the children named in execution.long-lived
    Tools,        \* bare tool names
    Offers,       \* server -> the tools it answers tools/list with
    Budget,       \* empty reads of a reply's budget, STDIO_REPLY_BUDGET_MS / STDIO_POLL_MS
    MaxCalls,     \* bound: tool calls
    MaxNotes      \* bound: lines the servers write unasked

Servers == ToSet(Configured)

VARIABLES
    pc,         \* where the guest is: connecting, idle, or in a request of this method
    known,      \* SERVERS: status and tools of each server
    turn,       \* the number of servers init is done with
    call,       \* the request being made: whom it names, whom it asks, how long it waited
    reply,      \* what json_rpc returned, Pending while it has not
    nextId,     \* REQ_ID
    alive,      \* the servers that run
    inbox,      \* what a server has still to answer
    pipe,       \* lines in a child's standard output
    calls,      \* tool calls made
    notes,      \* lines written unasked
    strayed     \* the servers that spoke unasked or owed a reply nobody waited for

vars == <<pc, known, turn, call, reply, nextId, alive, inbox, pipe, calls, notes, strayed>>
server == <<alive, inbox, pipe, notes>>

Methods == {"initialize", "tools/list", "tools/call"}
Line == [id : Nat, of : Methods \cup {"note"}, cut : BOOLEAN]
Pending == [is |-> "pending", id |-> 0, of |-> "note"]
Failed == [is |-> "failed", id |-> 0, of |-> "note"]
NoCall == [id |-> 0, named |-> "none", at |-> "none", tool |-> "none", waited |-> 0, part |-> FALSE]

TypeOK ==
    /\ pc \in {"connect", "idle"} \cup Methods
    /\ known \in [Servers -> [up : BOOLEAN, tools : SUBSET Tools]]
    /\ turn \in 0..Len(Configured) /\ calls \in 0..MaxCalls /\ notes \in 0..MaxNotes
    /\ call.id \in 0..nextId /\ call.waited \in 0..Budget /\ call.part \in BOOLEAN
    /\ reply.is \in {"pending", "failed", "ok"}
    /\ alive \subseteq Servers /\ strayed \subseteq Servers
    /\ \A s \in Servers : ToSet(pipe[s]) \subseteq Line
    /\ pc \in Methods <=> call # NoCall

Init ==
    /\ pc = "connect" /\ turn = 0
    /\ known = [s \in Servers |-> [up |-> FALSE, tools |-> {}]]
    /\ call = NoCall /\ reply = Failed
    /\ nextId = 1 /\ calls = 0 /\ notes = 0
    /\ alive = Http /\ strayed = {}
    /\ inbox = [s \in Servers |-> {}] /\ pipe = [s \in Servers |-> <<>>]

---------------------------------------------------------------------------
(* One request: write the line, then take the next line that comes.        *)

\* json_rpc up to its first read: a write to a child that is gone fails.
Ask(method, named, at, tool, running) ==
    /\ pc' = method /\ nextId' = nextId + 1
    /\ call' = [id |-> nextId, named |-> named, at |-> at, tool |-> tool, waited |-> 0, part |-> FALSE]
    /\ reply' = IF at \in running THEN Pending ELSE Failed
    /\ inbox' = IF at \in running
                THEN [inbox EXCEPT ![at] = @ \cup {[id |-> nextId, of |-> method]}] ELSE inbox

Reading == pc \in Methods /\ reply = Pending
Child == Reading /\ call.at \notin Http
Lines == pipe[call.at]

\* A chunk that ends before the line does; its text stays in this call's buffer.
ReadPart ==
    /\ Child /\ Lines # <<>> /\ ~call.part
    /\ call' = [call EXCEPT !.part = TRUE]
    /\ UNCHANGED <<pc, known, turn, reply, nextId, server, calls, strayed>>

\* Mutant: the line is looked at and left for the next read.
BehindKeeping(lines) == {lines}

\* What a read leaves in the pipe: the line, those behind it in the same chunk,
\* and the beginning of one more go with it.
Behind(lines) ==
    LET whole == {SubSeq(lines, n + 1, Len(lines)) : n \in 1..Len(lines)}
    IN whole \cup {[rest EXCEPT ![1].cut = TRUE] : rest \in whole \ {<<>>}}

\* The next line is the reply, whatever request it answers; the end of a line
\* whose beginning went to an earlier call is no JSON.
ReadLine ==
    /\ Child /\ Lines # <<>>
    /\ \E rest \in Behind(Lines) : pipe' = [pipe EXCEPT ![call.at] = rest]
    /\ reply' = IF Head(Lines).cut THEN Failed
                ELSE [is |-> "ok", id |-> Head(Lines).id, of |-> Head(Lines).of]
    /\ UNCHANGED <<pc, known, turn, call, nextId, alive, inbox, calls, notes, strayed>>

\* Mutant: each empty read has the whole budget.
WaitedAfresh == 1

Waited == call.waited + 1

\* Mutant: the budget is compared before the poll is added to it.
SpentLate == call.waited > Budget

Spent == Waited = Budget

\* An empty read: the server is gone, or the budget shrinks by one poll.  With a
\* part of a line read, the rest of it may not be written yet: it stays in the
\* pipe, and the call that gives up takes the beginning with it.
ReadNothing ==
    /\ Child
    /\ Lines = <<>> \/ (call.part /\ Len(Lines) = 1)
    /\ LET left == call.at \in alive /\ ~Spent
           owed == call.at \in alive /\ Spent
       IN /\ call' = IF left THEN [call EXCEPT !.waited = Waited] ELSE call
          /\ reply' = IF left THEN Pending ELSE Failed
          /\ strayed' = IF owed THEN strayed \cup {call.at} ELSE strayed
          /\ pipe' = IF ~left /\ call.part
                     THEN [pipe EXCEPT ![call.at][1].cut = TRUE] ELSE pipe
    /\ UNCHANGED <<pc, known, turn, nextId, alive, inbox, calls, notes>>

\* One POST and its response, or the fetch's own failure.
Post ==
    /\ Reading /\ call.at \in Http
    /\ reply' \in {Failed, [is |-> "ok", id |-> call.id, of |-> pc]}
    /\ inbox' = [inbox EXCEPT ![call.at] = {}]
    /\ UNCHANGED <<pc, known, turn, call, nextId, alive, pipe, calls, notes, strayed>>

---------------------------------------------------------------------------
(* The guest's init: the servers are connected in order.                   *)

Connecting == Configured[turn + 1]
ConnectedAll == turn = Len(Configured)

\* connect_stdio spawns the child and initializes it; connect_server only lists.
Connect ==
    /\ pc = "connect" /\ ~ConnectedAll
    /\ IF Connecting \in Http \cup Granted
       THEN /\ alive' = alive \cup {Connecting}
            /\ Ask(IF Connecting \in Http THEN "tools/list" ELSE "initialize",
                   Connecting, Connecting, "none", alive')
            /\ turn' = turn
       ELSE /\ turn' = turn + 1
            /\ UNCHANGED <<pc, call, reply, nextId, alive, inbox>>
    /\ UNCHANGED <<known, pipe, calls, notes, strayed>>

\* Mutant: tools/list is sent without reading the reply to initialize.
GreetedUnread == reply.is \in {"ok", "pending"}

\* connect_over follows an initialize that got any reply.
Greeted == reply.is = "ok"

Initialized ==
    /\ pc = "initialize" /\ Greeted
    /\ Ask("tools/list", call.at, call.at, "none", alive)
    /\ UNCHANGED <<known, turn, alive, pipe, calls, notes, strayed>>

InitializeFailed ==
    /\ pc = "initialize" /\ reply = Failed
    /\ pc' = "connect" /\ turn' = turn + 1 /\ call' = NoCall
    /\ UNCHANGED <<known, reply, nextId, server, calls, strayed>>

\* The end of connect_over: a line that lists no tools leaves a server that is
\* connected and has none.
Listed ==
    /\ pc = "tools/list" /\ reply # Pending
    /\ known' = [known EXCEPT ![call.at] =
         [up |-> reply.is = "ok",
          tools |-> IF reply.of = "tools/list" THEN Offers[call.at] ELSE {}]]
    /\ pc' = "connect" /\ turn' = turn + 1 /\ call' = NoCall
    /\ UNCHANGED <<reply, nextId, server, calls, strayed>>

\* refresh_cache: the names are read once init is done, and never again.
Started ==
    /\ pc = "connect" /\ ConnectedAll
    /\ pc' = "idle"
    /\ UNCHANGED <<known, turn, call, reply, nextId, server, calls, strayed>>

---------------------------------------------------------------------------
(* Tool calls.                                                             *)

Names == {n \in Servers \X Tools : known[n[1]].up /\ n[2] \in known[n[1]].tools}

\* The host drops the server's name, and the guest asks the first server that
\* is up and has a tool of that bare name.
FirstWith(t) ==
    Configured[CHOOSE i \in 1..Len(Configured) :
        /\ <<Configured[i], t>> \in Names
        /\ \A j \in 1..(i - 1) : <<Configured[j], t>> \notin Names]

InvokeTool(s, t) ==
    /\ pc = "idle" /\ calls < MaxCalls /\ <<s, t>> \in Names
    /\ Ask("tools/call", s, FirstWith(t), t, alive)
    /\ calls' = calls + 1
    /\ UNCHANGED <<known, turn, alive, pipe, notes, strayed>>

\* The result, or an invocation failure, goes back to the host.
Invoked ==
    /\ pc = "tools/call" /\ reply # Pending
    /\ pc' = "idle" /\ call' = NoCall
    /\ UNCHANGED <<known, turn, reply, nextId, server, calls, strayed>>

---------------------------------------------------------------------------
(* A server over a child: it answers what it was asked when and in the     *)
(* order it likes, may write a line nobody asked for, and may die.         *)

Answer(s) ==
    /\ s \in alive \ Http
    /\ \E r \in inbox[s] :
        /\ inbox' = [inbox EXCEPT ![s] = @ \ {r}]
        /\ pipe' = [pipe EXCEPT ![s] = Append(@, [id |-> r.id, of |-> r.of, cut |-> FALSE])]
    /\ UNCHANGED <<pc, known, turn, call, reply, nextId, alive, calls, notes, strayed>>

Note(s) ==
    /\ s \in alive \ Http /\ notes < MaxNotes
    /\ pipe' = [pipe EXCEPT ![s] = Append(@, [id |-> 0, of |-> "note", cut |-> FALSE])]
    /\ notes' = notes + 1 /\ strayed' = strayed \cup {s}
    /\ UNCHANGED <<pc, known, turn, call, reply, nextId, alive, inbox, calls>>

Exit(s) ==
    /\ s \in alive \ Http
    /\ alive' = alive \ {s}
    /\ inbox' = [inbox EXCEPT ![s] = {}]
    /\ UNCHANGED <<pc, known, turn, call, reply, nextId, pipe, calls, notes, strayed>>

Guest ==
    \/ ReadPart \/ ReadLine \/ ReadNothing \/ Post
    \/ Connect \/ Initialized \/ InitializeFailed \/ Listed \/ Started \/ Invoked

Next ==
    \/ Guest
    \/ \E s \in Servers, t \in Tools : InvokeTool(s, t)
    \/ \E s \in Servers : Answer(s) \/ Note(s) \/ Exit(s)

Spec == Init /\ [][Next]_vars

\* The guest runs on; a server owes nothing.
FairSpec == Spec /\ WF_vars(Guest)

---------------------------------------------------------------------------

Done == pc \in Methods /\ reply.is = "ok"

\* Nothing compares ids, so a call has its own reply only because the two sides
\* keep step: a reply to another request is taken only from a server that once
\* spoke unasked or was once given up on.
OwnReply == Done /\ reply.id # call.id => call.at \in strayed

\* A server that is connected has the tools it offers, unless a line that was
\* not the list was taken for it: it is then up, without tools, for good.
WholeCatalogue ==
    \A s \in Servers : known[s].up /\ known[s].tools # Offers[s] => s \in strayed

\* Every request ends, however the server behaves: with a line, with the child's
\* end, or with the budget.
RequestsEnd == (pc \in Methods) ~> (pc \notin Methods)

\* Violated: "Invoke an MCP tool (qualified name `server_id::tool_name`)"
\* (registry_host.rs:473): the server asked is the one the name begins with.
NamedServer == pc = "tools/call" => call.at = call.named
=============================================================================
