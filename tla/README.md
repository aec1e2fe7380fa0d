# A TLA+ verification of jan-klod

jan-klod is an agent gateway: it runs turns of a language model for clients on
several surfaces (REST and SSE, JSON-RPC, WebSocket, ACP, MCP, Telegram), gives
the model tools that live in WebAssembly extensions, passes every phase of a turn
through interceptors that can block it or ask the user, and keeps every session
in an append-only log. This directory models the parts whose correctness depends
on an order of events - threads, clients, child processes, crashes - checks them
with TLC, and proves what it can for every instance with TLAPS.

Paths below are relative to the repository. `PROJECT.json` maps each definition
to the lines it stands for, lists the runs, the hazards, a mutant for each
property, the findings and the theorems.

    tlc -workers 2 -config Agents.cfg MCAgents      # a run: MC<Module> where there is one
    tlapm EventLogProofs.tla                        # the proofs of a component: <Module>Proofs

There are twelve runs, 38 modules that model or instantiate, and eight that prove.

## 1. Inventory

A message passes through the system like this. A *surface* receives it and asks
the *registry* for the session's queue; the *session's thread* runs it as a job
on its agent; the *conductor* drives the turn through the *interceptors*, the
*providers* and the *tools*; what the turn emits goes through a *persisting sink*
into the *event log* and on to the surface's sink; a question goes through a
*persisting driver* to the surface's driver, which parks the turn until the
client answers. A tool call is offered to the agent's *fleets* of guests, which
come alive when they are first needed, keep rows in the *guest storage*, start
*child processes* and send *requests* through the egress checks. When a turn has
installed an extension, the hook after the job *adopts* it into the runtime that
the *boot* made from the configuration, and retires every agent.

| Component (source) | State | Operations | Hard behaviour | Correct when | Module |
|---|---|---|---|---|---|
| Event log (`pkgs/host/session/src/store.rs`, `event_log.rs`, `projection.rs`) | table `events(session, seq, kind, payload, prev_digest)` | open and upgrade, convert, append, fork, purge, verify, replay | boot steps commit row by row and can be cut by a crash | numbers are 1..n, rows never change, a digest never contradicts its row, a transcript is converted once, replay starts at a turn | `EventLog` |
| Turn loop (`agent/src/conductor.rs`, `protocol/src/intercept.rs`, `agent/src/lib.rs`) | phase, attempts, cycles, calls of the completion, texts | dispatch, complete with retries and fallback, tool pass, follow-up, finalise | a client that leaves at any event; interceptors that ask; retries x providers x cycles | no call runs that an interceptor did not pass, a cut-short turn says so, the cap holds, the turn ends | `Turn`, `TurnLog` |
| Agent registry (`host/src/sessions.rs`, `session_thread.rs`) | map key -> live agent, generation, queues, threads | queue, spawn, run, stop, adopt, drop | a queue is used after the lock; a retired agent runs on; the hook may hold the last reference | every caller is answered, fresh agents after an install, the drop ends | `Agents` |
| REST and SSE (`host/src/serve.rs`, `pending.rs`) | parked prompts, one channel per prompt | park, answer, wait, drop | the answer races the deadline; cleanup of one wait races the next | an answer reaches the waiting turn or is refused; a parked turn goes on | `Prompts` |
| JSON-RPC, WebSocket (`rpc.rs`, `ws.rs`) | incoming answers, cancel flag, queued follow-ups | serve a frame, emit, ask | one reader of the frames while a turn runs; frames out of turn | an answer answers its question; an acknowledged follow-up is heard | `Rpc` |
| ACP (`acp.rs`) | sessions, cancelled flag of the connection | prompt, cancel, permission request | a turn reads the editor's frames while it waits | a grant is one the editor gave; a cancelled turn says so | `Acp` |
| Telegram (`telegram.rs`, `main.rs`) | update offset, the queue of a cycle, deferred updates | poll, run, reply, wait for an answer | a waiting turn fetches too; an error half-way; a kill | a message is used once, and none is confirmed unused | `Telegram` |
| Terminal client, threads (`clients/tui/src/tui.rs`, `app.rs`, `transport.rs`) | phase, questions, the channel of the turn, one reader's lock | send, steer, answer, cancel, list, switch | whoever holds the reader takes what is meant for others | idle means idle, a question on screen is live, a call returns | `Client` |
| Terminal client, screen (`tui.rs`, `app.rs`, `keymap.rs`, `blocks.rs`, `viewport.rs`, `composer.rs`) | overlays and questions; entries, cursor, window; text, caret, history, lists | a key, an event of the turn, a drawing | a key is meant for what was drawn last; rows and bytes are counted apart from what they count | a question is answered in sight, history stays, arrows move one row | `Screen`, `Transcript`, `Composer` |
| REST routes (`host/src/serve.rs`) | requests, threads' jobs, how many are served | guard, route, enqueue, park, stop | a turn holds its thread while everything else goes on | only messages wait for a turn | `Rest` |
| Configuration, setup's writer and audit (`config/src/lib.rs`, `host/src/setup.rs`, `config_write.rs`) | `config.yaml`, its temporary file, its digest | load, expand, write, compare, audit | kills between the writer's steps, edits by hand in between | the file is whole, an edit is noticed | `Config` |
| Start of the gateway (`host/src/main.rs`) | the places of a store, a gateway's progress | load, look for the store, move it, boot, serve, verify | several starts, an edit during one, a crash's journal | no earlier session is lost | `Launch` |
| Interceptor guests (`wasm/src/interceptor_host.rs`) | what they contribute, who has trapped, what clients show | hello, contributions, invoke, dispatch a phase | a guest traps or changes its mind at any time | a menu is what is offered, a failure stays one | `Surface` |
| Shaping interceptors (`extensions/interceptor-*`) | the pending request | select model, context, tools; review texts | each sees what those before it left | reviewed text reaches no provider | `Shaping` |
| Providers, completer, intent router (`extensions/provider-*`, `wasm/src/route.rs`) | streams by handle | complete, next chunk, close; classify | a guest that traps between two chunks | a completion is the whole reply | `Provider` |
| File tools (`extensions/tool-edit`, `tool-find`, `tool-fs`, `guest-fs`) | the file, the view of it; the walk and its bounds | view, edit; find, grep | others write in between; a bound cuts a walk | an edit lands as seen, a part says so | `Edits`, `Search` |
| Boot, adoption, agents (`wasm/src/lib.rs`, `config/src/lib.rs`, `agent/src/lib.rs`, `main.rs`) | the list of extensions, the provider chain, agents | verify, boot, build, adopt | an agent is built long after the boot, over files that may have changed | what was verified is served; the chain is the configured one | `Boot` |
| Extension installation (`wasm/src/ext.rs`, `native_tools.rs`) | staged and landed files | fetch, stage, check, land, remove, adopt | two renames, a shared staging directory, kills | what lands was checked; a component has its manifest | `Install` |
| Tool and registry fleets, guest storage (`wasm/src/tool_host.rs`, `registry_host.rs`, `guest_storage.rs`) | lazy and live guests, bound sessions, rows | build, bind, dispatch, ask, read, write | a fleet comes alive in the middle of a turn; agents share rows | a guest sees its own rows; additions are lost only to a race | `Fleet` |
| Gate at `tool-call` (`extensions/interceptor-guardrails`, `interceptor-permission`) | remembered verdicts, counts of refusals | review, ask, remember, count | memory shared by sessions | a call runs only as its user allowed | `Gate` |
| MCP client (`extensions/registry-mcp`, `registry_host.rs`) | servers, their tools, the next id | connect, initialise, list, call | a server answers late, unasked, or dies | a call has its own reply; a request ends | `McpStdio` |
| Egress (`wasm/src/http.rs`, `egress.rs`) | the request and the hops it took | check, connect, redirect | a name resolves anew between check and connection | a request goes where it may | `Egress` |
| Command execution (`wasm/src/host_process.rs`) | children, pipes, reader threads, buffers | exec, spawn, read, write, kill | pipes that fill; processes that hold them | output is whole; calls return | `HostProcess` |
| Confinement and the command tools (`wasm/src/sandbox*.rs`, `host_process.rs`, `wasm/src/lib.rs`, `host/src/main.rs`, `extensions/tool-shell`, `tool-git`, `tool-proc`) | each agent's runner, the names of long-lived commands | build, run, confine, start, stop | the wrapper is the gateway's own binary, executed anew for every command; an agent is built long after the boot | what runs was asked for, granted and confined | `Commands` |
| MCP server (`host/src/mcp.rs`, `main.rs`) | the frame it does, the sessions' logs | classify, ask, list, get | the client writes on and closes a pipe; a kill in a turn | answers in order, a read shows what was answered, no turn half done | `Mcp` |
| Protocol types, session entries, delegation | - | - | section 7 | - | - |

## 2. What each module models

### `EventLog` - the session log (run `event_log`)

`events` is the table: session -> (number -> row). One process owns a store
behind a mutex, so an operation of a *running* store is one action:
`AppendEvent`, `ForkEvents`, `PurgeSessionEvents`. *Opening* the store is not
atomic. `OpenCurrent`, `OpenOld` and `OpenOldBare` are the three ways a table is
found; `BackfillRow` and `ConvertRow` are single statements that commit, with a
`Crash` possible between any two; `ConvertFails` is an append that returns an
error. Whatever was left is picked up by the next boot exactly as the code does:
the backfill is tied to the `ALTER TABLE` that added the column, the conversion
to a session without rows.

`phase`, `todo`, `unconverted`, `current` and `left` are the loop variables of the
boot; `upgraded` and `parent` are history (was a backfill ever cut short; what a
fork was copied from). SHA-256 is taken as injective: the digest of a row is its
number, kind and payload. Times are left out.

### `Turn`, `TurnLog` - one turn (run `turn`)

`Turn` is `run_turn` with the dispatch of each phase, one interceptor at a time
(`Proceed`, `ReplaceResponse`, `ReplaceAnswer`, `Block`, `Fail`, `Ask`, `Answer`), the provider
chain (`ProviderFails`, `Malformed`, `MalformedForever`, `CompletionFails`,
`Complete`), delivery of the response, the pass over its tool calls (`Denied`,
`Approved`, `Invoked`, `ResultDelivered`, `AfterToolCalls`), follow-ups
(`NoFollowUp`, `FollowUp`, `FollowedUp`) and the end (`NoteIncomplete`, `Finish`).
Interceptors, providers and tools answer anything their contracts allow. `GoAway`
is the client, at any moment; whether the conductor notices depends on the sink
of its surface, so `Sinks` holds the three kinds the surfaces have: SSE and RPC
report a lost client on every event, ACP on text only, the others never.

Texts are empty or not; a call is its position in the completion; a `replace` is
a `proceed` wherever the replaced data are not told apart, so only two have an
action: `ReplaceResponse`, and `ReplaceAnswer` at `finalize`, which takes the note of an
incomplete turn away with the text it stood in (`marked` is then `replaced`). A shaping
interceptor that answers with the wrong case is `ShapeFails`.

`TurnLog` is what a reader of the log may assume of a turn's rows, with no
conductor in it: the message first, a prompt before its answer, every invocation
followed by its own result, `done` last and only for an answered turn. `Turn`
refines it (`KeepsPromise`): the row last logged is the same variable, the stage
is read off `pc` and `phase`.

### `Agents` - the registry and its threads (run `agents`)

Three kinds of process interleave: the threads of requests, the threads of
sessions, and the owner of the registry. A step is what one does between two
points where another can come in. A request: `Load` reads the generation before
the lock, `Reuse` or `Spawn` under it hands out a queue (telling a stale agent to
stop), and `Send` happens after it. A session's thread builds its agent (`Build`,
`BuildFails`), takes a task (`Take`, `TakeStop`), runs it (`Finish`), takes a strong
reference for its hook and adopts what was installed (`Adopt`, `Bump`), releases
the reference (`Leave`), and only then answers (`Deliver`). `holders` are the strong references; the
last one to let go drops the registry, which sends Stop to every live thread and
joins each (`LetGo`, `DropRegistry`, `Join`). A drop on a session's own thread
joins itself, which panics in that thread (`panicked`).

A thread has the name of the request that spawned it. `told`, `known` and `late`
are history: which installs a caller has seen end, what was known when a request
came in, which jobs were queued behind a Stop.

### `Prompts` - parked turns (run `prompts`)

A turn registers its question (`Park`), emits it (`Show`), and waits in slices up
to a deadline (`Receive`, `Slice`, `TimeOut`), with a heartbeat after each
(`Heartbeat`); an answer (`Post`) takes the session's entry out of the registry
(`Lookup`) and then sends (`Hand`), two steps because the lock is released between
them; the cleanup at the end of a wait (`Unpark`) removes the session's entry,
whoever registered it. The
two layouts give the turns a session each, or the same one, which happens after
an adoption (`OneTurnAtATime`, section 6).

`MaxSlices` stands for the deadline divided by the heartbeat; a slice may expire
at any time. When a prompt was stolen its receiver is disconnected, and the wait
returns at once until the deadline: that is the same path with no sleep in it.

### `Rpc` - one connection of the client protocol (run `rpc`)

`sent` is everything the client has put on the wire, in order; `verdict` what was
decided on each frame read. The queue is first in, first out with one reader, so
the frames still in it are those after the last verdict. Between turns the reader
is `serve` (stdio) or `connection` (`ws.rs`): `Hello`, `Command`, `StartTurn`.
During a turn it is the turn itself, in three places: the sink drains the queue
after each event (`Emit`, `ServeQueued`, `Emitted`), the driver before it looks for a
follow-up (`Poll`, `ServeQueued`, `Polled`), and a question reads frame by frame
(`Ask`, `WaitServe`, `GiveUp`). `ServeFrame` is `serve_frame`, one frame at a time, so
the client can put the next one in between. `asking`, `cancelled` and `followUps` are
`TurnState`, new with each turn. The conductor is any sequence of emits, questions and
looks that `Turn` allows: after a heeded stop or an empty look (`closing`) it looks for no
follow-up any more.

The two transports differ where the code does: stdio ends with the first response
it cannot write, a WebSocket at its next frame, and a WebSocket is closed when the
session's agent takes no job. Frames that do not parse and the commands that keep
no state of the connection are the kind `other`. The client may send any frame at any
time, answer a question it was shown late or twice, and close either direction.

### `Acp` - an editor on a pipe (run `acp`)

`incoming` is the channel that the reader thread fills from the editor's lines; one
thread takes them out. Between turns it serves them (`ServeRequest`, `ServeCancel`,
`ServeAnswer`, `BeginTurn`); in a turn, after each delta it emits (`Speak`), it drains
what has come and looks only for a cancel; in a question (`Ask`) it reads frame by frame:
`TakeAnswer`, `TakeCancel`, `SkipFrame` - any other frame is read and thrown away - and
`AskEnds` when the pipe is closed. `cancelled` belongs to the connection and outlives a
turn; `heard` is history, a cancel taken during this one. `HangUp` closes the pipe, and
`ServeEnds` is `serve` returning.

### `Telegram` - one bot and its updates (run `acp`)

`updates` and `confirmed` are Telegram's: it hands out at most `Limit` updates from an
offset on, and forgets those before it. `Poll` is the fetch and filtering of
`poll_once`, `Refuse`, `BeginTurn` and `Reply` go through its queue, `CycleEnds` carries
the new offset back to the loop of `main.rs`. A turn that asks (`Ask`) fetches further
updates itself (`WaitPoll`): the first of its chat is the answer, the rest is `deferred`
to the end of the queue. `PollFails`, `ReplyFails` and `WaitFails` are errors of the
requests, with the count that makes the bot give up (`stopped`); `Restart` is a kill.

### `Client` - the terminal client (run `turn`)

The main thread's loop is three points of `pc`: the events of its turn (`ApplyAsk`,
`ApplyEnd`, `ApplyNothing`), what was asked for (`RequestCancel`, `RequestCall`,
`RequestNothing`) and one key (`Poll`, `EnterSend`, `EnterSteer`, `EnterAnswer`,
`ToggleDialog`, `PressCancel`, `PressCall`, `EnterSwitch`, `CloseSwitcher`). A message
has a thread of its own (`stream`), which `SendMessage` is the first step of, so that a key may
come before it; an answer has another. `LockStream`, `ReadStream`,
`LockMain`, `ReadMain` are `read_until` on the transport's one reader: whoever holds it
takes every line until its own response. `crossed` is history: a response was taken by
somebody it was not for. The gateway is `Rpc`'s, reduced to what a client can tell, and
may die (`Die`).

### `Install` - two files and two renames (run `install`)

One extension's name. A call - of the command-line tool, or of the tool `install` on a
session's thread - fetches (`Fetch`), refuses or goes on (`Check`), wipes the staging
directory (`Wipe`), copies component, manifest and signatures there (`Copy`), checks
digest, signatures and structure (`VerifyDigest`, `VerifySignature`, `CheckStructure`),
renames manifest then component (`LandFirst`, `LandSecond`, which takes the first back if
it fails), and cleans up (`Clean`). Every arrow between two file operations is a point
where another process, a removal, the replacement of the source (`SourceReplaced`) or a
kill (`Crash`) can come. `Removing` is `remove` in its two deletions, `AdoptRead` and
`AdoptInspect` the hook that takes what landed into the gateway. A build stands for the
bytes of a file, and its signature is valid for it alone. `shared` and `crossed` are
history: two calls were in the staging directory at once, or a removal ran beside a call.

### `Boot` - from files to agents (run `install`)

`config` and `disk` are what an operator edits (`EditConfig`, `PutComponents`), at any
moment. `Verify` is the command; `Serve` boots a runtime and keeps it until `Stop`;
`Rpc(s)` is a command with one agent. `extensions` is the list a boot makes, in the order
of the tiers and then of the names; `BuildAgent` builds an agent from it when its session
needs one, which starts the providers and interceptors and orders the provider chain
(`OrderChain`) and picks the classifier; lazy guests start only for an agent with an
interceptor. `InstallTool` is an installation inside a turn, `AfterTurn` adopts what the
turn installed and retires every agent.

### `Fleet` - the guests of an agent (run `fleet`)

`tools[a]` and `regs[a]` are an agent's fleets: what is pending, what is alive, the
session each guest is bound to. `BuildAgent` is `Runtime::instantiate`, `BeginTurn` binds
the session; `Dispatch` offers a call to the tool guests, then the registries, then the
host's own tools, bringing fleets to life on the way - any guest may fail to, and a
failure takes the ones drained with it. A guest then asks (`GuestAsks`,
`DriverAnswers`), answers (`GuestReturns`) or reads its row (`GuestReads`) and writes it
back (`GuestWrites`), which are two calls to the host with other agents between them.
`Scope` is which row a guest's key names. `kept` is what guests have acknowledged and
nobody has removed or run over.

### `Gate` - the two interceptors at `tool-call` (run `acp`)

A call (`BeginCall`) goes through the rules of `interceptor-guardrails` (`Review`,
`RuleAnswered`) and then `interceptor-permission`: `Recall` is `Policy::review` and what
is remembered for that kind of call, `Answered` the user's choice, `CountRead`,
`CountWrite`, `StandingDeny` the count of refusals and the verdict it settles. With
`persist` the memory is one for all sessions, and these steps interleave; without, it
ends with the agent (`Retire`). A rule that does not compile makes every dispatch fail
(`broken`), on which the dispatcher closes the gate. Calls are told apart by their kind
and by what the rules and the policy see in them: leaving the workspace, a credential
file, the rules that match.

### `McpStdio` - the MCP client (run `acp`)

The guest connects its servers in the configured order (`Connect`, `Initialized`,
`InitializeFailed`, `Listed`, `Started`) and then makes one tool call at a time
(`InvokeTool`, `Invoked`). A request to a child waits for a line in polls: `ReadPart`,
`ReadLine`, `ReadNothing`, which runs down the budget; a remote server is one `Post`.
The reply is the next line that comes, whatever its id. Servers `Answer` in any order
and at any time, `Note` (a line unasked) and `Exit`.

### `Mcp` - the gateway as an MCP server (run `acp`)

One thread: a frame is skipped (`Skip`), answered from itself (`AnswerAtOnce`), answered from the
store (`CallSessions`), or is a whole turn (`BeginAsk`, `EndAsk`) before the next is read. The client
writes without waiting (`Send`) and closes either pipe (`HangUp`, `StopReading`); a failed write ends
the server. `Kill` takes what was in the pipes, not the log, to which the next `Start` comes.

### `Egress` - one request (run `acp`)

`Fetch` begins, `Check` classifies every address a host resolves to and pins them,
`Connect` takes one of the pinned, `Redirect` is the server's answer and what it leaves of method,
body and credentials, of which it takes those in three headers, `TooManyRedirects` the limit. `Rebind` changes what a name
resolves to at any moment.

### `HostProcess` - child processes (runs `host_process`, `fleet`)

Two counters describe a pipe: what was written and what was got. `Exec` runs a command:
`Feed` writes its input, `SeesExit` or `Deadline` ends the wait, `ReadExec` and
`ReadDone` read the output afterwards. `Spawn`, `WriteStdin`, `ReadStdout`, `IsRunning`,
`Kill` and `DropInstance` are the long-lived children, with `ReadsStdout` and
`ReadsStderr` their reader threads into bounded buffers. A child does anything: `Writes`,
`Reads`, `Exits`, `LeavesAHolder` (a process it started keeps its pipes open).

### `Commands` - what a command is when it runs (run `host_process`)

`block` is the operator's `execution:`, `host` the system below. `Build` is what
`open_process_runner` makes of them when an agent is built: `Mode`, `Writable`, `Network` and
`Readable` read the block, `Backend` is what there is to confine with, `Effective` and `Refusal` are
`SandboxPolicy`'s. `Shell` and `Git` run to their end, `Start` and `Stop` are the long-lived commands of
`tool-proc`, `EndAgent` drops its guests. `Wrapped` writes the wrapper's arguments and `Parsed` reads
them; `Confine` is the wrapper, which restricts itself and becomes the command, or exits.
`Applies` is the kernel's part. `BinaryChanges` and `DirChanges` are what others do to the host at any
time. `HostProcess` has the pipes of a process, `Commands` what it is and what it may do.

### `Screen`, `Transcript`, `Composer` - what the terminal client shows (run `client`)

The same loop as `Client`'s, without its threads: a pass applies events, sends what was asked
for, draws, and handles one key. `Screen` is whose a key is. The handlers are asked in the
order of the code: the dialog (`PickOption`, `CloseDialog`, `TakeAnswer`), the
confirmation to quit (`QuitKeys`), the switcher, the help, the sidebar, the menu, and then the
loop's own keys; `Covered` is what is drawn over what, and `small` whether the terminal had room to
draw anything at all when it was drawn last (`Drain`). `Transcript` is the list of entries
(`Delta`, `Invoked`, `Result`, `Ends`), the cursor over the tool calls, and the window, which is
brought to the cursor by the rows of the last drawing (`Draw`). `Composer` is the text, as
graphemes with their bytes and cells, and a caret that counts bytes: rows are wrapped from the
cells, a word motion steps by bytes, `Slices` says whether every slice begins and ends
between characters. The history, the `/` menu and the `@` list are in it.

### `Rest` - the routes (run `agents`)

A request arrives, is checked for its principal (`Guard`), is served at once (`AtOnce`), as an
answer (`Answer`), or on a thread: the session's for a message, the housekeeping thread for
what is read. A turn may park (`Park`, `Unpark`) and its stream's reader may `Leave`.
`StopNotified` and `GatewayStops` end the surface, with a `Limit` of responses or without.

### `Config`, `Launch` - the file and the start (run `event_log`)

`Config` is `config.yaml`, the temporary file and the digest beside it. A caller of the
writer opens, fills and renames, and then opens and fills the digest; it is killed or fails
between any two. `HandEdit` is an operator's editor; `CheckDigest` and `CheckFile` are
the two reads of `has_not_been_edited`. `Loaded` is what a load makes of a document: the order of its
errors, the expansion of variables, the defaults; `Audited` what the audit of setup says.
`Launch` EXTENDS it with gateways that start: the configuration is read anew for tracing, for the
place of the store and for the boot, and between any two of them the others act. `StoreDir`,
`LookBehind`, `LookAhead`, `Move` are `store_dir` with the two legacy places; `Boot` opens the
store, `BeginWrite` and `EndWrite` are a transaction, cut by `Ends`. A store is known by
the name it was opened under, so that a move leaves its journal behind.

### `Surface` - interceptor guests and the clients' menus (run `fleet`)

A guest contributes commands and a status text, which change as it likes. Clients on a pipe or a
socket are told at connect (`ServeHello`) and after an invocation (`ServeDone`), a browser asks
(`ServeGet`); replies go through a `line` in order. A phase is dispatched guest by guest,
with the case of its state converted on the way in and out (`Replace`), and a guest that
traps is `dead`: asked nothing, and an error at every phase it subscribed to.

### `Shaping` - the request before it is sent (run `fleet`)

The bundled interceptors, in the order the operator loads them, at `select-model`,
`select-context`, `select-tools` and the phases that review texts. Texts are what of interest
is in them: the patterns that match, the tools they name, a size. `Context` trims from the
front, `ReviewContext` and `Review` are the guardrails, `ToolSelector` ranks. The
conductor's control is cut down to what happens to the request.

### `Provider` - a provider guest and its streams (run `install`)

`Complete` to `CloseStream` are `ProviderCompleter::complete` around the two builds, with the
request each makes of the turn's messages and what each makes of the endpoint's reply, both by
the endpoint's format; `streams` is the guest's table, whose handles wrap around. `Trap` may
come before any chunk. `ClassifyAtOnce`, `AskClassifier`, `Classified` are the intent router.

### `Edits`, `Search` - the file tools (runs `fleet`, `host_process`)

`Edits` is one file and the editors' `View`, `Read` (with every check), `Open`, which empties
it, and `Write`; anchors are a hash of number and text that may collide; `OtherWrites` at any
time. `Search` is one walk per step of an entry (`Walk`), bounded by visits, depth and
results, the globs of `tool-find`, the matching lines of `tool-fs`, and what `Return` says of
the bounds. `MatchSegments` is recursive, which is why nothing is proved of it.

### Components that share a run

`Telegram`, `Boot`, `Provider`, `Gate`, `Shaping`, `Surface`, `Egress`, `McpStdio`, `Mcp`, `Rest`, `Launch`,
`Client`, `Edits`, `Search`, `Commands`, `Screen`, `Transcript` and `Composer` share no state with the component
whose run checks them, and so their product has nothing to say that they do not say apart.
The `MC` modules of these runs EXTEND one component (`MCClient`, of the screen, none), INSTANCE the
others with variables of their own, and have one more variable (`surface`, `part`, `protocol`, `drawn`) that is
chosen in the initial state and says which of them moves; the others stay where they began. Every
behaviour is one of one component, and a property of one is checked against all of its behaviours.
`HostProcess` is in two runs: in `host_process` for what its calls must do at last, in `fleet`, whose
module declares its constants for the proofs of section 5, for what they return.

## 3. The runs

| Run | Specification | Distinct states | Bounds | What it shows |
|---|---|---|---|---|
| `event_log` | `EventLog`, `Config`, or `Launch` | 821 000 | `EventLog`: 2 sessions, 3 rows, 2 crashes, 3 old tables, one transcript of one turn. `Launch`: 2 gateways in 3 starts, 2 writers, 1 edit, 3 environments | digests through forks, purges, crashes and upgrades; no earlier session lost |
| `turn` | `FairSpec` of `Turn`, or `Client` | 783 000 | `Turn`: 2 interceptors, both at the gate, one also at `finalize`, 2 providers, 1 retry, cap 3, 2 calls, 1 question. `Client`: 2 messages, 1 call, 1 cancel, 1 follow-up, 1 question | the gate, cancellation, termination, refinement of `TurnLog`; the client's picture of the turn |
| `agents` | `Agents`, or `Rest` | 236 000 | `Agents`: 3 requests, 2 install (one streaming), 2 sessions. `Rest`: 2 requests, 1 session, 1 principal | fresh agents, no early work lost, everyone answered; only messages wait |
| `prompts` | `FairSpec` of `Prompts` | 946 000 | 2 turns x 2 questions, 2 answers, 1 slice, both layouts | what an accepted answer does, parked turns go on |
| `rpc` | `FairSpec` of `Rpc` | 825 000 | 4 frames, 2 questions, 1 event a turn, both transports | answers and follow-ups reach their turn; every frame is answered |
| `acp` | `Acp`, `Telegram`, `Gate`, `Egress`, `McpStdio`, or `Mcp` | 1 559 000 | `Acp`: 2 prompts, 1 of each other frame, 2 questions. `Telegram`: 3 updates in 2 chats, answers of 2, 1 question with 1 fetch, 2 failures, 2 in a row stop it, 1 kill. `Gate`: 2 sessions, 2 kinds of call, a rule that asks and one that blocks, 4 calls, 1 retirement, memory private or shared. `Egress`: 2 addresses, 2 names, one of them the operator's, a credential in a header that is stripped and one in another, 2 redirects, 2 changes of name. `McpStdio`: 4 servers (2 over a child, 1 remote, 1 not granted), 2 calls, budget 2, 1 unasked line. `Mcp`: 2 sessions, 3 frames, 1 kill | grants and cancels; no message forgotten; which calls run; where a request goes; whose reply is taken |
| `client` | `Screen`, `Transcript`, or `Composer` | 447 000 | `Screen`: 2 questions of 2 options, a terminal of either size. `Transcript`: 4 entries, a window of 3 rows, 2 keys that move. `Composer`: 3 graphemes of 5, 2 rows of 2 cells, 1 message | what a key means, what stays on the screen |
| `install` | `Install`, `Boot`, or `Provider` | 697 000 | `Install`: 2 builds, one signed, 2 calls, one the gateway's, 4 ways to install, 1 removal, kills anywhere. `Boot`: 5 extensions, 3 configurations, 7 contents of `ext/`, 2 sessions, 1 edit, 2 installations, 2 commands. `Provider`: both builds, 3 calls, 2 handles | what lands, what is served of it, whole completions |
| `fleet` | `Fleet`, `HostProcess`, `Edits`, `Shaping`, or `Surface` | 1 173 000 | `Fleet`: 2 agents, 2 sessions, guests `memory` (durable) and `plan` (durable, per session, asks), a skill named like a native tool, 2 questions, 2 turns, 1 failure. `HostProcess`: as in `host_process`. `Edits`: 2 editors, 4 lines, one collision, 2 edits, 1 other write. `Shaping`: its setups and histories in `MCFleet`. `Surface`: 2 guests, a client on a pipe and a browser | storage, dispatch, whole output, edits, the request, the menus |
| `host_process` | `HostProcess`, `Search`, or `Commands` | 293 000 | `HostProcess`: 1 long-lived child beside `exec`'s, pipes and buffers of 1 chunk, 2 chunks out, 1 err, 2 in, processes left behind. `Search`: 3 trees, one deeper than a walk goes, 7 globs, a bound of each kind, 1 change. `Commands`: 1 agent, 9 configurations, 6 systems, 2 processes, 1 change of the host | calls return, searches, confinement |
| `mcp_sessions` | `Spec` of `Mcp` | 9 000 | as `Mcp` in `acp` | violated: finding 2 |
| `client_frozen` | `FairSpec` of `Client` | 1 000 | 1 message, 1 call, no cancel, follow-up or question | violated: finding 1 |

A component has more properties than its run checks. The further ones are named at the end of each
configuration, and pass in the same place with the same constants. They are apart because they
are shallower, proved in section 5 from an invariant of which the run checks the rest, or as
dear to check as the others together: the types; `Gapless`, `ChainIntact`, `ForkIsPrefix`, `ConvertedOnce`,
`ReplayWholeTurns`, `AppendOnly`, `ConfigIsWhole`, `EditsAreNoticed`, `AuditForetells`;
`CancelIsMarked`, `FollowUpHeardOrMarked`, `CompletionsCapped`, `StopEndsTheLoop`; `NoOrphans`,
`DroppedByTheLast`, `DropEnds`; `AloneReachable`, `NothingLeftBehind`; `CancelsItsTurn`; `OnceEach`,
`EveryMessageUsed`, `InOrder`, `TurnsEnd`, `HangUpEndsServe`; `DeathIsNoticed`, `QuitIsTold`,
`HintsAreTrue`, `FrontsAreFresh`, `CursorOnTool`, `NothingRunsWhenIdle`, `WindowInRange`,
`FollowsTheEnd`, `ReaderStays`, `MovesReveal`, `StraysInSpacesOnly`, `CaretIsShown`, `OffersAreFresh`,
`DraftsSurvive`; `RefusalLeavesNothing`, `InstalledBecomesCallable`, `ChainAsConfigured`,
`GateKeepsItsOrder`, `NoStreamLeft`, `NothingUnsaid`, `InlineIsSure`; `WholeOrEmpty`,
`NativeNeverShadows`, `CallsEnd`, `SettledAfterThree`, `ShownIsReviewed`, `AskedIsSent`, `ContextFits`,
`FailureIsKept`, `DeadGuestsPassNothing`; `WholeCatalogue`, `FetchEnds`; `AnswersInOrder`, `AskedIsShown`,
`NoneHalfDone`; `StaleIsDead`,
`LastWords`, `NeverStalled`, `OneOfEachName`, `GitOnlyReads`.

Why the bounds are enough for what is claimed:

- *Event log.* Two sessions are a fork's source and target. Three rows hold a turn
  and the row before or after it, so a window can begin inside, at and after a
  turn. Two crashes cut a boot and the boot that repairs it. The old tables are
  none, one session with rows before its first message (as an interceptor's prompt
  leaves them), and both sessions with rows, one of them also with a transcript.
- *Turn.* Two interceptors are the least with an order between them; one call that
  is blocked and one that runs are the least pass with both; two providers and
  one retry reach a fallback after a retry; a cap of three reaches a tool cycle, a
  follow-up and the cap in one turn. `MaxAsks` bounds questions, which the
  dispatcher does not: `EveryTurnEnds` says that a turn ends if its interceptors stop
  asking.
- *Agents.* One installer that answers after the hook and one that streams, one in
  the session of the third request and one in another: the least in which a
  generation changes between another request's read and its lock, twice.
- *Prompts.* Two turns and two answers are the least in which a cleanup can hit
  another's entry; two questions let an answer meet the next question.
- *Rpc.* Four frames are a handshake, a turn, and two more: an answer and a cancel that
  race, two follow-ups in order, or a follow-up and the next turn. Frames about a second
  session are enough to tell a guard on the session from none.
- *Acp.* Two prompts and two questions let an answer or a cancel that is late meet the
  next turn and the next question of the same one.
- *Telegram.* Three updates and answers of two make a batch and something behind it;
  two chats an answer and a message that has to wait for it; two failures the count
  that stops the bot.
- *Client.* Two messages let the leftovers of one turn meet the next; one call is a list, and
  whatever the client does while it waits for it.
- *Screen, Transcript, Composer.* Two questions are one behind another; two options a choice.
  Entries of three rows in a window of three are each wholly above, in or below it. A grapheme of
  each kind - several bytes, no cell, white space of several bytes, the two that open a list -
  and three of them wrap into more rows than are shown.
- *Launch.* Two gateways are one that starts while another serves, writes or was killed; one edit
  falls between any two of the reads of a start. `Provider`: three calls
  on two handles let what the first left in the guest meet the others.
- *Shaping, Surface.* A setup for each order in which two interceptors matter to each other;
  two clients, of which one can be told of what the other changed.
- *Edits, Search.* Two edits and a write of others are a view that is stale in each way; each
  bound of a search is reached by one of the trees and missed by another.
- *Install.* Two calls, a removal and a replaced source are each of the writers of the
  directory once, with two of the kind that share the staging directory.
- *Boot.* Two providers can be in and out of order; the configured chains name one twice,
  name one that is not there, and leave one out. Two commands are a `verify` and the
  `serve` after it; two installations an extension and another on top of it.
- *Fleet.* Two agents on one durable row are the race; two sessions in one agent the
  rebinding.
- *McpStdio.* Two children tell one server's lines from another's, two calls a late
  reply from its own. *Mcp.* Three frames are two asks and a read, of one session or of two, with a
  kill anywhere.
- *Gate, Egress.* `Enough` is the code's three, and four calls go one beyond it; two sessions
  share a memory or do not. Two hops and two changes of name fit a change between any check and
  its connection.
- *HostProcess.* With pipes and buffers of one chunk, two chunks are full and overflowing.
- *Commands.* Each configuration differs from the first in one grant; the systems are a Mac with and
  without its applier, a third one, and a Linux without Landlock, with one that cannot enforce
  every right, with one that can, and with a gateway started at home. One agent ends and is built again after the binary
  changed; two processes are a long-lived one and another beside it.

`Stay` and `Rest` are the stuttering of a finished system, so that deadlock is
checked in `turn`, `agents` and `prompts` everywhere that it is not the end; the client of
`turn` polls for ever. The
other systems may really stop: a bounded client or operator has nothing more to do.

### Fairness, and why the code justifies it

- `Turn`: weak fairness of the conductor and the dispatch, on one thread that never
  waits for the client except in a question, which has a deadline. The client
  (`GoAway`) owes nothing.
- `Agents`: weak fairness of each request's steps, of each session's thread and of
  the owner's joins: they are operating-system threads, each in a loop or in a
  call that returns. A job ends because a turn does (`EveryTurnEnds`). Nobody has to
  drop the registry: `DropEnds` is about a drop that has begun.
- `Prompts`: weak fairness of a turn's own wait and of an answer that has begun.
  No client has to answer; what moves a parked turn is its deadline.
- `Rpc`: weak fairness of the serving thread as a whole. It blocks only on the queue
  between turns, where an unread frame unblocks it, and in a question, which has a
  deadline. The client owes nothing. Over a WebSocket the thread is the session's, so
  this rests on `EveryoneAnswered`.
- `Acp`: weak fairness of the thread of the turns. Unlike on the other surfaces a
  question has no limit here (`PipeAsker` waits on the channel), so `TurnsEnd` also
  assumes that an editor that does not hang up answers.
- `Telegram`: weak fairness of the bot's one thread; a fetch returns after its long poll
  and a turn ends. Nobody has to write and nothing has to fail.
- `Client`: weak fairness of the main loop, of the threads of messages and answers, and of
  the gateway's turns. Nobody presses a key.
- `Install`: weak fairness of the hook after a turn. No call has to be made or to succeed.
- `Fleet`: a guest call returns, trap or not (fuel and a deadline see to that), and a
  question is answered, with the default if by nobody (`ParkedGoesOn`).
- `McpStdio`: the guest runs on; a server owes nothing, not even a line. `Egress`: the host's
  steps; each exchange has a time limit.
- `HostProcess`: the call that was made and the two reader threads run on, and time
  passes. No child has to do anything.
- `Rest`: what the surface does itself, and the housekeeping thread, which runs no turns. A turn
  may take for ever.
- `EventLog`, `Launch`, `Boot`, `Provider`, `Gate`, `Shaping`, `Surface`, `Edits`, `Search`, `Commands`
  and the client's screen have no liveness property: what a crash leaves is for the next
  boot, and nothing forces one; an operator and a user may do nothing.

## 4. What the properties say

Each is stated in words above its definition. By component:

- *Event log.* `Gapless`, `DigestsTrue`, `ChainIntact`, `ForkIsPrefix`, `ConvertedOnce`,
  `ReplayWholeTurns`, `AppendOnly`: numbers are 1..n after forks, purges and
  crashes; a digest that is there is the digest of the row before; a session that
  is no fork verifies as intact unless a backfill was cut short; a fork says what
  its source said; a boot never converts on top of what is there; the window of
  rows replayed begins at a user message and agrees with the in-memory rule; no
  step but a purge changes what was logged.
- *Turn.* `GateFailsClosed`, `CancelIsMarked`, `FollowUpHeardOrMarked`, `CompletionsCapped`,
  `StopEndsTheLoop`, `EveryTurnEnds`, `KeepsPromise`: as in section 1. The
  cancel matters when a termination by an interceptor falls into the same pass;
  the follow-up when it is taken at the cap. Both say that the note is in the text, or that an
  interceptor subscribed to `finalize` has replaced the text that it was in.
- *Agents.* `FreshAgents`, `OnlyLateWorkIsLost`, `NoOrphans`, `DroppedByTheLast`,
  `EveryoneAnswered`, `DropEnds`: a request that came in after a caller saw an
  awaited install end runs on an agent with that extension; a job is lost only
  if it came behind a Stop, or its thread never had an agent or panicked; a
  thread not told to stop is in the map; a drop begins only when nobody holds
  the registry; every queued request hears back; a begun drop ends.
- *Prompts.* `AloneReachable`, `NothingLeftBehind`, `AcceptedIsTaken`, `ParkedGoesOn`: the only
  parked turn of its session can be answered; a turn that is not waiting leaves
  nothing in the registry; an accepted answer is taken by a turn of the session it
  was for, or came as its time was up; parking ends.
- *Rpc.* `AcceptedIsHeard`, `CancelsItsTurn`, `SteersItsTurn`, `EveryFrameAnswered`: an answer
  told `accepted` is what exactly one question returned, although the sink reads the
  same queue and drops answers; a turn is cancelled if and only if a cancel of its session
  was read since it began; a follow-up steers the turn it was sent during, in order; every
  frame is answered, or the connection is closed.
- *Acp.* `GrantsAreChosen`: the gate is told yes only where the editor chose it for that very
  question. `CancelsAreAnswered`: a turn that took a cancel from the pipe is not answered as
  if it had ended by itself. `TurnsEnd`, `HangUpEndsServe`.
- *Telegram.* `ConfirmedIsHandled`: no message is confirmed to Telegram that was not used,
  refused or is in memory, whatever fails, unless a waiting turn's fetch ran ahead of a
  cycle that was cut. `OnceEach`: a message is run or taken for an answer, once, but for a
  repetition per cycle cut short. `EveryMessageUsed`: it is used at some time. `InOrder`: the
  messages of a chat are not overtaken.
- *Rest.* `OnlyMessagesWait`: whatever a turn waits for, lists, reads, forks and answers are
  replied to.
- *Launch.* `EarlierSessionsSeen`: a gateway serves every session of the store in use, whoever was
  killed and wherever stores were left, unless starts overlapped, the file was edited during
  one, or a store was moved that was open or had a transaction cut short. `ConfigIsWhole`,
  `EditsAreNoticed`: the writer's rename, and the digest that comes after it. `AuditForetells`.
- *Screen, Transcript, Composer.* `AnswersAreSeen`: nothing is drawn over the dialog when Enter
  answers it, unless the terminal is too small for anything to be drawn. `HistoryStays`: what was answered keeps its result, also when a model uses an id
  again. `ArrowsMoveOneRow`: wherever lines wrap, an arrow moves the caret by one row.
- *Provider.* `CompletionIsWhole`: text and calls are those of the reply to this very request, in
  order, and it says if the model ran out of room, unless the guest trapped in between.
- *Shaping.* `ContextIsReviewed`: nothing that was in a shaped turn's request when its context was
  selected reaches a provider with a match of the operator's rules, in any cycle.
- *Surface.* `MenuIsTrue`: a client that waits for nothing shows what its guests contribute, unless
  that changed unsaid or one of them trapped.
- *Edits.* `EditsLandAsSeen`: an edit that is written found both ends of its span as its editor saw
  them, or lines whose hash collides with what it saw, and leaves the rest as it is on the disk, unless
  another write came between its read and its write. *Search.* `PartialIsSaid`: what a search
  shows is nothing but what was asked for, and all of it, or it says which bound cut it; but for what
  lies deeper than a walk goes, of which it never speaks.
- *Client.* `IdleIsIdle`: the client lets go of a turn only when the gateway has.
  `PromptsAreLive`: a question is on screen only while its turn is listened to.
  `CallsReturn`: the main thread gets the response it waits for, unless another reader took
  it. `DeathIsNoticed`.
- *Install.* `LandedAsChecked`: what lies in `ext/` passed the checks of the call that landed
  it, whatever happens to its source, unless two calls shared the staging directory.
  `ComponentHasItsManifest`: a component lies beside the manifest it was checked with, in
  every state a kill can leave. `RefusalLeavesNothing`; `InstalledBecomesCallable`.
- *Boot.* `VerifiedIsServed`: of a runtime booted from what `verify` passed every agent is built,
  with everything enabled, until something installed since does not start.
  `ChainAsConfigured`: the fallback chain has every provider once, in the configured order
  and then in the boot's. `GateKeepsItsOrder`: what is adopted comes behind the
  interceptors that were there.
- *Fleet.* `SeesItsOwn`: a guest reads rows of its own id, its own session if it has one, its
  own agent unless it is durable. `LostOnlyToARace`: an acknowledged addition stays until
  it is removed on purpose or a write that did not see it runs over it, which is in
  reach only for a row of two agents. `WholeOrEmpty`: a fleet comes alive whole or not at
  all, in the middle of a turn too. `NativeNeverShadows`, `CallsEnd`.
- *Gate.* `RunsAreAllowed`: no call runs that a rule blocks, that a rule asks about without a
  yes to it, or that the policy is concerned about without an approval which covers
  it; an `always` never covers an escape or a credential file. `SettledAfterThree`: a kind of call
  refused three times is not asked about again, unless two sessions counted at once.
- *McpStdio.* `OwnReply`: though no id is compared, a call has its own reply unless that server
  has spoken unasked or was given up on. `WholeCatalogue`: the same for the list of tools.
  `RequestsEnd`: the budget is spent or the request is over.
- *Mcp.* `AnswersInOrder`: what a client that writes on is told comes in the order of its requests.
  `AskedIsShown`: a session read after an ask of it was answered shows that turn, and nothing asked
  later. `NoneHalfDone`: only a kill leaves a turn without its end.
- *Egress.* `SentAsAllowed`: a request leaves for public addresses or origins the operator
  named, although names change; what it carries in one of the three headers that a redirect strips
  goes to the first target only, a body only as long as the method stays. `FetchEnds`.
- *HostProcess.* `ExitIsWhole`: what `exec` returns of a stream is all that was written, or its
  beginning, marked as cut. `LastWords`: the report of a death has the end of what the child
  wrote to stderr. `CallsReturn`: a call returns whatever the child does - except an `exec`
  that a full pipe or a process left behind keeps (finding 9). `StaleIsDead`: no handle given
  back has a process. `NeverStalled`: a child nobody reads does not stop on a full pipe.
- *Commands.* `RunsAsAsked`: what runs was granted and is what was asked for, with the operator's
  variables and no others, and is confined to what the policy says if there was something to
  confine it with when its agent was built; under `require` nothing runs otherwise - though
  what is spawned is a wrapper that reads its policy back from its arguments.
  `OneOfEachName`, `GitOnlyReads`.

## 5. What is proved

Each proof module gives the theorems for every value of the constants, bounds included,
from the named assumptions of the modules it extends alone. Where a run checks several components, its
`MC` module declares the constants of those that are proved about, with their assumption, so that a
theorem and the run are about the same instance.

`EventLogProofs`, from `ConstantsAssumption` (the old tables and
transcripts are logs numbered 1..n of at most `MaxRows` rows; the markers are not
values): `TypeCorrect`, `NumbersAreGapless` (of `Gapless`, which the run leaves to it), `DigestsAreTrue`,
`ChainsAreIntact` and
`LogIsAppendOnly`.
The invariants are not inductive as they stand. Whether an append keeps a log
gapless depends on nothing but the log, but whether a backfilled row's digest is
true depends on the rows it has not reached, and the chain is intact at the end of a boot
only because of what the boot still has to do. So `IInv` adds to the type: every
log is `Sound` (numbered 1..n, and every digest present is right); `ConvertInv`, what
the conversion has left fits into the session and the session is under
conversion; `BackfillInv`, `todo` holds only rows that exist and are not first, and
outside a backfill it is empty; `DigestsThere`, if no backfill was cut short then
every row of a session that is no fork, but its first and those in `todo`, has its
digest once the column exists. `InitInv`, `NextInv` (one step per action) and
`Invariance` are the induction; the lemmas before them say what an append, a
fork and a backfill do to one log (`AppendedOf`, `ForkedOf`, `SoundAppended`,
`SoundForked`, `SoundBackfilled`) and are all that the steps use of the operators.
And, from `LaunchAssumption` (what an operator or setup saves is not the half of a write that the
writer has not finished; earlier installs leave stores only where there are places for them; the
bounds are naturals): `EarlierSessionsAreSeen` and `LaunchTypesHold` of `LaunchSpec`, which has
the writers and the edits among its steps, and `ConfigStaysWhole` of `ConfigSpec`.
That a gateway has the sessions in use says nothing of one that has opened nothing yet. So
`LaunchInv` names the place of the store in use (`Home`: what is there decides it, not who moved it)
and says while nothing is disturbed, `Calm`: `WayFits`, a gateway on its way has found what is still
the store in use and does not go back to it once it may be moved (`Stays`); `OpenFits`, one that has
a store open has that of `Home`; `AloneInv`, no other is on its way; `TornInv`, what a killed
gateway has left half-written has its journal beside it, so nothing committed is lost in the
opening; `KnownInv`, the sessions its users know are in the store of `Home`. `GoesOn` and `OpensAt`
are the two kinds of step: one gateway goes on, and one opens a place. `ConfigInv` has, while no two
calls overlap, that at most one caller is not idle, that it writes to the temporary file alone, and
that what it is about to rename is whole. `LaunchKeepsConfig` carries it to `LaunchSpec`.

`RpcProofs`, from `RpcAssumption` (the
bounds are naturals): `TypeCorrect`, `AnswersAreHeard`, `CancelsAreExact` and
`FollowUpsSteer`. Its invariant adds to the properties: `TurnInv`, a turn has a frame
exactly when the reader is inside one (so the indexes the handlers use exist);
`AskInv`, `asking` is set exactly while a question waits, and the last question is the
one that does - without it a drain could accept an answer and drop it; `QueueInv`,
what is queued came in this turn, for its session, after everything heard - without it
taking the oldest follow-up says nothing about order. `ServeFrameKeeps` is the step that
both the drains and the wait share; `OthersKeepAnswers` and `OutcomeKeepsAnswers` say which
steps leave the accepted answers alone.

`InstallProofs`: `TypeCorrect`, `LandedIsChecked`, `ComponentsHaveManifests` and
`RefusalsLeaveNothing`. What lies in `ext/` says nothing of how it got there, so the
invariant follows the bytes through the staging directory. `Alone` and `Apart` say that
the two histories are true: without `shared` at most one call is at work, without
`crossed` none works beside a removal. `DigestChecked`, `ComponentSigned`,
`ManifestSigned` and `PairChecked` say what each check has established of the staged copy
at every later point of the same call; `Owned`, that what landed is of a call that got
that far; `Free`, that a call that is landing finds no component in its way;
`ManifestFirst`, that between the two renames the manifest that lies there is the
call's; `Hollow`, that between a removal's two deletions the component is gone.

`AcpProofs`, from `AcpAssumption`: `TypeCorrect`, `GrantsAreTrue`, `CancelsAreTrue`. The
channel must be followed: `ChannelInv`, an answer in it is one the editor gave to a
question that had been put; `AskingInv`, while a question waits it is the last one put;
`HeardInv`, a cancel heard is remembered, by whichever of the sink and the question
took it. And of the other components of the run `acp`:

- the gate, from `GateAssumption` (every call is of a kind): `CallsAreAllowed`, for any rules, calls,
  sessions and memory. `MemoryInv` says whose word a remembered approval is: an `allow` is there only
  while the last thing its user said of that kind was `always`, for counting adds only denials.
  `PassedInv`: where permission decides, the rules have passed. One lemma per step says when it
  may lead to a run, which is the property.
- a request: `RequestsGoWhereTheyMay`, for any names, origins and redirects. `HopsInv` counts: what was
  sent is of an earlier hop than the one that connects. `SecretInv`: what redirects strip is there for
  the first hop only, and a body only while nothing sent before went without it. `PinnedInv`: what may be
  connected to is what was checked for the very target of this hop, whatever its name resolves to now.
- the guest that calls MCP servers, from `GuestAssumption` (a configuration names each of its servers once,
  and offers tools for each): `GuestTypesHold`, `OwnReplyHolds`, `WholeCatalogueHolds`. No id of a reply is
  compared, so the invariant follows the lines: `InOrderInv` relates the request that is being made and
  the requests a server has read to the lines of each pipe, oldest first, as long as the server
  never spoke unasked and was never given up on; `OwnTaken` is then what a read takes.
- the gateway as such a server, from `ServerAssumption` (`"none"` is no session): `ServerTypesHold`,
  `AnswersAreInOrder`, `AskedAreShown`, `NoneIsHalfDone`, over any frames, failures and kills. `NumberedInv` orders
  what is unread behind what was read and what was answered, `TurnInv` and `HalfInv` say what the log of a
  session may end with while a turn runs and when none does, `LoggedInv` who wrote it.
- the bot, from `BotAssumption` (updates are of the kinds there are; an answer, a wait and the loop's
  patience have at least one of what they count): `BotTypesHold`, `ConfirmedAreHandled`, `UsedOnceEach`,
  `OrderIsKept`, for any updates, failures and kills. What may be forgotten depends on what
  earlier fetches brought, so the invariant speaks of every message before an offset: before the
  loop's it was used (`BehindInv`), before the cycle's it was used or is in memory (`CycleInv`), and what is both
  confirmed and in memory a waiting turn fetched (`AheadInv`), so that a cut loses nothing
  else. `OrderInv`: memory is in Telegram's order, all of it before the cursor; from which
  `OnceInv`, a message is not both in memory and to come, and `InOrder`. `FetchOf` is the lemma about an answer to
  `getUpdates`, and all that the steps know of it: its messages, ascending, are all there are
  between what is confirmed and the offset they make. It needs `Listing`, that the messages of a window can be listed in
  order, by induction on the window's size (`NatSet`: over a set of numbers, from `WFMin`).

`PromptsProofs`: `TypeCorrect`, `AnswersAreTaken`, `WaitsAreClean`,
`TheOnlyOneIsReachable`. An answer and a wait meet through the registry, an inbox and the
hands of a handler, so its invariant says of each where the answer is (`FoundInv`,
`InboxInv`, `TakenInv`, `SettledInv`), what questions have been put (`AskedInv`), and which
entry of the registry belongs to which turn (`RegisteredInv`), which makes the removal at
the end of a wait the removal of its own entry when it is alone in its session.

`TurnProofs`, from `TurnAssumption` (bounds are naturals, subscribers are interceptors, `NoCall` is no
call) and `SinksAssumption` (a sink that reports a lost client when a call is announced reports it on
its result too, which is so of each surface's sink): `TypeCorrect`, `GateIsClosed`,
`CancelsAreMarked`, `FollowUpsAreHeardOrMarked`, `CapHolds`, `StopsEndTheLoop` and
`TurnImplementsTurnLog`. The invariant is of what the place in the loop implies. `PhaseInv`: which
phase was last dispatched there. `PassInv`: a pass is at one of its calls, and what is open is that
call. `GateInv`: who let a call proceed is exactly the subscribers before the one being asked,
which at the end of the dispatch is all of them. `CancelInv` and `FollowInv`: a stop that
was heeded and a follow-up that was not heard are on their way to the note that the turn is
incomplete, past everything that might end it otherwise; if the note is gone from the answer, an
interceptor of `finalize` is among those that let the turn go on. `CountInv`: a completion is counted as a cycle
before the next one. The refinement is proved step by step: `PromiseInit`, and `PromiseStep`, where
each action of the loop is the step of `TurnLog` it logs, or leaves the mapped state alone.
`TurnLog` has no fairness, so this is `KeepsPromise` whole.

It also proves of the terminal client, from `ClientAssumption` (the bounds are naturals),
`ClientKnowsItsTurn` and `QuestionsAreLive`. What the client takes for the end of its turn - a `done`,
a reply to its message, an error, its thread over - comes through two queues and a channel, and
the gateway may take another message meanwhile, so the invariant says of each when it may be
there. `Settled`: no turn runs and no message is under way. `StartInv`: a thread that is still to send
its message is the one listened to. `PictureInv`: while no response was read by
another than its own reader and the gateway lives, the message under way and the turn that runs are
those of the one listened to; the word `done` comes once and before the reply (`DoneFirst`);
and whatever ends the turn for the client, from the moment it is written until it is applied
(`EndHeard`), is there only when the turn is settled. The lemmas `Taken`, `Sent`, `Read`, `Written` are
about the queues; each step lemma uses no more of them. `crossed` cannot be dropped: finding 1.

And of what is on the screen, each for its own component: `AnswersComeFromTheScreen`, `QuittersAreTold`,
`StatusBarIsTrue` and `NextQuestionsAreFresh` of `Screen`, from nothing; `AnsweredStays` and
`CallsAreShownAsTheyAre` of `Transcript`, from `TextAssumption` (a text has a natural number of rows). `ScreenInv` relates a
confirmation to the turn it was opened in, and the questions to the turn they are of; `TranscriptInv` has
the cursor on a call that is there, and no call left running when nobody listens for its result.
`TurnProofs` extends `MCClient` beside `MCTurn` for these: the names of the two do not meet.

`AgentsProofs`, from `AgentsAssumption` (`Owner`, `Stop` and `None` are no requests):
`TypeCorrect`, `AgentsAreFresh`, `EarlyWorkIsKept`, `NoneIsOrphaned`, `TheLastDrops`, for any number of
requests and keys and with no bound on the generation. `QueueInv` and `JobInv` say where a request is,
once, and that what stands behind a Stop came late; `HandleInv` that the thread it was given was
spawned for the generation it read. The hard one is `FreshAgents`, which relates three clocks: the
generation, the list of what is adopted, and what callers have heard. `SeenInv` relates them by
`Settled`, what was adopted before the last bump: an agent of the present generation has seen all of
it, and an agent of any generation what a request that read that generation knew. `AdoptInv` and
`ToldInv` make that enough: an installation whose caller waited for its answer is told of only
after its hook, which is after the bump. `OwnerInv` says who holds the registry while it serves.

`FleetProofs`, from `FleetAssumption` (a fleet's list names no guest twice, `None` is no guest, agent
or session, both as the host makes them): `TypeCorrect`, `GuestsSeeTheirOwn`, `OnlyRacesLose`,
`FleetsAreWhole`, `NativeComesLast`. `BoundInv`: in a turn the live guests are bound to its session, and
those to come will be. `ApartInv`: a session has one agent. `CallInv`: a call is in a guest that is
alive, and is overtaken only between its read and its write. `RowsInv`: what a row holds was
written by guests of its owner's id (`OwnRow`). `FreshInv`: what a guest read is what it would read
now, unless it was overtaken - without it a write could drop what another has added. The lemmas
`LookUp`, `Ensuring`, `RegEnsuring` and `Binding` say what dispatch, instantiation and binding return;
`Scoping` and `Alone` which row a call has, and that two agents share none but a durable one of
no session; `Elsewhere` and `Here` what a step does to the other agents and to its own.

It also proves of child processes, from `HostProcessAssumption` (a pipe and the cap hold at
least one chunk, the bounds are naturals): `ProcessesAreTyped`, `ExitsAreWhole`, `LastWordsAreHeard` and
`StaleHandlesAreDead`. `PipesInv`: nobody gets more than was written. `ReadingInv`: `exec` reads only
once its child is gone, standard error only when the other is done. `ReadInv`: while its result
stands both pipes are read to the end or past the cap, so that processes left behind, which
may write on, change nothing that was kept. `TailInv`: the thread of a child's standard error
ends only when nobody can write there any more, which is why the last words are all of them.

And of what clients show and what passes the boundary of guests, from `SurfaceAssumption` (a client is on
a pipe or in a browser; who subscribes to a phase is in the chain, which is a sequence): `MenusAreTrue`,
`FailuresAreKept`, `DeadGuestsLetNothingPass`, of `U!Spec`, the part of the run that is `Surface`. A menu is
a copy that arrives through a line, so `ClientsInv` speaks of what a client will show when it has read all
that was written to it (`Latest`): while nothing has happened that it is not told of, that is what
the guests contribute now. `BoundaryInv` says of a dispatch what holds of the guests it has passed:
the state at a tool's result says of the tool what was said going in (`ResultInv`), and whoever was
passed guards no calls or lives, or the call was stopped (`PassedInv`).

And of the file that sessions edit, for every hash and every text, from `EditsAssumption` (lines, and what
calls put in, are texts): `EditsLand`. `EditsInv` has that a call names lines by what its editor was shown,
and that what it read is on the disk unless another wrote since. `SplicedKeepsTheRest` is the lemma
about the operators: what an edit writes has the lines before and after its span, but for a blank last one.

Only model-checked:

- liveness: `EveryTurnEnds`, `EveryoneAnswered`, `OnlyMessagesWait`, `ParkedGoesOn`, `EveryFrameAnswered`,
  `CallsReturn` (of `Client` and of `HostProcess`), `RequestsEnd` and the further ones of section 3. The
  prover has no rules for fairness or ENABLED.
- `PartialIsSaid`, `RunsAsAsked`, `VerifiedIsServed`, `CompletionIsWhole` and `ArrowsMoveOneRow`: `Search`
  matches globs by recursion; `Commands` reads back the wrapper's arguments, `Provider` puts chunks together
  and `Composer` wraps texts with folds; `Boot` selects from sequences by a predicate. The prover cannot
  expand an operator that is recursive or takes an operator. Where a sequence was all there was
  to fold (`Telegram`'s answers) it is stated by what it contains instead.
- `ContextIsReviewed`: it is not true for every value of the constants. The rules are applied one after the
  other, so the replacement of a later rule may bring back what an earlier one took out (`a` to `b`,
  then `b` to `a`). In the run a replacement is matched by later rules only.
- `EditsAreNoticed` of the file: it is not true for every value of the constants. When two calls of the
  writer overlap, the digest of the one may come to stand beside the document of the other, and an
  operator who then saves by hand just what the first was to write is not told from setup. In the run
  no edit saves what setup writes.
- `AuditForetells`: what a load makes of a document is a concatenation of the faults of its parts, which
  the library defines by a fold.
- for want of a proof so far: `ForkIsPrefix`, `ConvertedOnce` and `ReplayWholeTurns` of the log, and those
  properties of section 3 that this section does not name.

## 6. Where the code and its words part

Each is a property that a comment, a document or a test of the repository states, and that
the model violates. The first two are the runs `client_frozen` and `mcp_sessions`. The others are defined at the
end of their modules, and TLC shows the trace when such a property is put, alone, into
the configuration of its component.

1. `LoopGoesOn` (`Client`) - asking for the sessions, or a contributed command, while a turn
   streams makes the main thread wait for a response that the turn's thread reads and
   throws away (`transport.rs:398`: only safe when no turn streams; a key asks at any time).
2. `AbsentIsNew` (`Mcp`) - two asks that name no session share one, `mcp`, so the second continues
   the first, although "a new one is made when absent" (`mcp.rs:41`, `mcp.rs:105`).
3. `OnlyEditsBreakAChain` (`EventLog`) - a fork copies rows without their digests, so every
   fork of two or more rows verifies as broken although nobody edited it (`store.rs:461`).
4. `ListedMeansConverted` (`EventLog`) - a conversion that is cut short leaves half a transcript
   that is listed, replayed and never completed (`event_log.rs:377`; `agent/src/lib.rs:180`
   says it will not be listed).
5. `MidAdoptionServed` (`Agents`) - a request given a queue just before an adoption retires its
   agent can be refused (`sessions.rs:72` against `sessions.rs:29`).
6. `OneTurnAtATime` (`Agents`) - two turns of one session can run at once after an adoption
   (`sessions.rs:71`).
7. `SeenAtNextTurn` (`Agents`) - a streaming caller can be served its next turn by an agent
   without what it installed (`session_thread.rs:99` against `sessions.rs:108`).
8. `Answerable` (`Prompts`) - with two turns of a session alive, the cleanup of one removes the
   prompt of the other, and answers to it get a 409 (`pending.rs:77`).
9. `ExecEnds` (`HostProcess`) - an `exec` outlives its time limit when its child does not read
   its input, or leaves a process that holds its output (`wit/host-process.wit`: each run
   has a timeout).
10. `AnswersItsQuestion` (`Rpc`) - an answer still unread when its question's deadline passes, or
   a second answer to the same question, answers the next question (`rpc.rs:430`
   against `rpc.rs:364`).
11. `CancelledByItsOwn` (`Acp`) - a cancel is remembered for the connection: a turn that begins
    after it can be answered as cancelled without one of its own (`acp.rs:103`, `acp.rs:698`).
12. `NamedServer` (`McpStdio`) - a call of `a::t` goes to the first server that has a tool `t`
    (`registry_host.rs:473`).
13. `TheBytesChecked` (`Install`) - with two installations at once the bytes that land need not
    be those that were checked: the staging directory is shared (`ext.rs:658`).
14. `DenialLasts` (`Gate`) - a kind of call that was settled as refused is asked about again
    after its session's agent is retired (`interceptor-permission/src/rules.rs:319`).
15. `FailsAtBoot` (`Boot`) - a provider or interceptor that does not start is found when the first
    agent is built, not at boot (`wasm/src/lib.rs:69`).
16. `ClassifierHeadsTheChain` (`Boot`) - without `classifier:` the classifier is the first provider
    in the order of the boot, not the head of the configured chain (`wasm/src/lib.rs:931`).
17. `LandedIsAdopted` (`Boot`) - an extension that was enabled before it was there is taken for
    loaded when it lands, and is not served until a restart (`wasm/src/lib.rs:497`).

18. `NeverPanics` (`Composer`) - a word motion stops one byte behind a white space, and where that
    has several bytes the next key slices between characters, although the caret is "always on a
    grapheme boundary" (`composer.rs:16`).
19. `OpenedIsShown` (`Transcript`) - opening a call brings it on screen by the rows of the last
    drawing; opened in the middle it may be taken to the new end instead (`viewport.rs:59`).
20. `NoSessionIsStranded` (`Launch`) - with two starts at once, or an edit during one, a gateway
    creates or opens an empty store and the earlier sessions are out of sight (`main.rs`,
    `store_dir`); a move leaves the rollback journal of an interrupted transaction behind.
21. `SpansAreSeen` (`Edits`) - only the two ends of a replaced span are compared, so the lines
    between them are overwritten unseen, although `tool-edit` says that an edit against a changed
    file is rejected instead of applied.
22. `NothingIsSaidOfAll` (`Search`) - that nothing matches is said also of a walk that was cut
    short, although "a partial tree never reads as exhaustive" (`tool-find/src/lib.rs:3`).
23. `OneDecision` (`Commands`) - commands are confined by "one decision" reported at boot
    (`docs/concepts/security-model.md:29`), but it is taken anew for each agent that is built
    (`wasm/src/lib.rs:827`): after the gateway's binary was replaced, later agents run commands
    unconfined, unless `require` is set. (This one needs two agents.)
24. `UnreadableTightens` (`Commands`) - a flag that cannot be read "tightens" (`sandbox.rs:288`), but
    such a `require` is false, which loosens.
25. `ScratchIsWritable` (`Commands`) - a command's `TMPDIR` is in the workspace so that it may write
    there (`host_process.rs:163`), but a narrowed `writable` leaves it out.
26. `DepthIsSaid` (`Search`) - a walk passes over directories at `MAX_DEPTH` without setting
    `bounded_by` (`guest-fs/src/lib.rs:162`), so what it shows reads as all there is, although "a partial
    tree never reads as exhaustive" (`tool-find/src/lib.rs:3`).
27. `CollisionsAreRejected` (`Edits`) - "a collision costs a rejected edit, never a bad write"
    (`tool-edit/src/lib.rs:9`) is so of two lines of the file with the anchor asked for; a line that
    changed to one of the same hash is taken for the line that was seen, and written over.
28. `CredentialsStay` (`Egress`) - forwarding headers "would leak a provider's API key to the redirect
    target" (`http.rs:72`), but three names are stripped, and a provider's key in another header, as
    the `x-api-key` of `provider-anthropic/src/lib.rs:328`, goes to every target of a redirect.
29. `NoteReachesTheText` (`Turn`) - the note of an incomplete turn is put in the text "since headless
    callers see only the text" (`conductor.rs:253`), but it is put there before `finalize`, where an
    interceptor that replaces the answer, or answers with another phase's state, drops it
    (`conductor.rs:390`).

The first two of these are runs; a further few came up while the code was read for the models, and are what
the models do, without a property of their own:

- *Client.* Ctrl+D on an empty composer scrolls, where `keymap.rs` says that it quits. A key goes to
  the dialog of a question although the switcher or the help is drawn over it. Ctrl+C does
  nothing while a dialog of options is open, and answering one clears the draft. After `/new` in the
  middle of a turn the old session's text lands in the new one's transcript, and a cancel or a
  follow-up goes to the new session.
- *Provider.* Anthropic is sent the first of several system messages only, and not the calls the
  assistant made; a trap between two chunks ends in a completion that is taken for whole; the errors
  for an overflowing context are never made.
- *Shaping.* A block of the guardrails at `after-response` and `finalize` has no effect, because
  `post_phase` ignores it (`guardrails/src/lib.rs:184`). `select-context` is dispatched once and for
  agentic turns only, although matching text "never leaves the machine" (`lib.rs:201`). A rule that
  does not compile lets everything through everywhere but at `tool-call`. The persona, which is a user
  message, is the first that is trimmed.
- *Config, Launch.* "Unchanged if any step fails" (`config_write.rs:115`) is not so of the digest's
  write, which comes after the rename; two writers share one temporary file. The audit of setup
  asks for a disabled provider's key by the instance's name, takes a guest for present whose name is
  the beginning of another's, and is silent about what a load refuses. `verify --chain` looks at
  the ten newest sessions and skips those it cannot read. A `serve.principals` that is no mapping
  falls back to one token, or to none.
- *Surface.* "A declaration costs a menu entry, never a turn" (`interceptor_host.rs:349`), but a guest
  that traps when asked for one is dead, and if it guards `tool-call` every later call is refused. A
  change that a guest makes in a turn, or for another client, is never announced. A reply of
  another phase's case drops the rewrites made before it.
- *Commands.* A Landlock that cannot enforce every right (ABI 1 to 4) counts as there, so the mode is
  reported as `os`, and every command is then refused by its own wrapper (exit code 126).
- *Edits.* A write of others between an edit's read and its write is lost, and a file is empty if
  the gateway is killed between opening and writing it; deleting the only line leaves a blank one.

Reachable in the models, and promised nowhere: a follow-up served by the drain of a turn's last
event is told `queued` and dropped with its turn (`rpc.rs:489`); a purge followed by a
boot converts the session's old transcript again; a Telegram answer that is full of
updates without text leaves the offset where it is and is fetched again for ever
(`Blocked`); an adopted extension that does not start makes every later agent fail until
the gateway is restarted; an adoption is in no file, so a restart forgets it unless the
configuration names the extension; in a terminal too small for the screen no dialog is drawn
(`tui.rs:663`), and Enter answers the question that nobody sees (`AnswersAreDrawn`).

## 7. Not modelled, and why

- *What the kernel and the WebAssembly runtime enforce*: a ruleset or a profile once applied (`Commands` takes
  it to hold), the fuel and memory of a guest.
- *The syntax* of YAML, of manifests, indexes, keys and bodies; `Config`, `Install` and `Rest` begin at
  what a parser makes of them. *The interview of setup*, which only tests call.
- *Fetch, web search and skill tools*: functions of one input, without state between calls. What they can
  answer is the nondeterminism of `Turn` and `Fleet`.
- *The terminal client's* drawing (styles, markdown, the sidebar's text), toasts, and its HTTP
  transport.
- *Protocol types, tracing, argument parsing, delegation* (which no surface uses): no order of
  events matters to them.
- *A second process on the same database file*, but for the starts of `Launch`: every surface owns
  its store.
- *Appends that fail while a turn goes on*: `Turn` logs every row.
- The times of rows, the minting of session ids and the strength of SHA-256.

## 8. What is left

1. `Rpc` composed with `Agents`: two WebSocket connections to one session, whose second waits
   for the first's turn; `Agents` composed with `Prompts` (a session is served by more
   than one thread only after an adoption).
2. `Turn` with a store that fails in the middle of a turn.
3. The HTTP transport of the terminal client, as a client of `Prompts`.
4. Proofs, in this order: `ForkIsPrefix` and `ConvertedOnce` of the log; `VerifiedIsServed` of `Boot` and
   `CompletionIsWhole` of `Provider`, once their selections are stated by what they contain;
   `ContextIsReviewed` of `Shaping`, for rules whose replacements no earlier rule matches.
