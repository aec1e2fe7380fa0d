------------------------------ MODULE Surface ------------------------------
(* Interceptor guests behind the WebAssembly boundary: what they contribute *)
(* to a client's interface, the commands a client invokes, and the phases   *)
(* they are dispatched at, whose states are converted on the way in and out *)
(* (interceptor_host.rs, intercept.rs, rpc.rs, serve.rs, app.rs).  One      *)
(* agent serves its turns and its clients one at a time: over stdio the one *)
(* client's, in a gateway the housekeeping agent's, which runs no turns but *)
(* answers every client.  A guest that has trapped is never entered again.  *)
EXTENDS Integers, Sequences, FiniteSets, SequencesExt

CONSTANTS
    Order,       \* the guests in load order
    Exports,     \* those whose component has the client surface
    Subscribed,  \* the guests of each phase
    Offer,       \* what a guest may contribute: commands, by name, and a status text
    BuiltIn,     \* the client's own commands, some of the same name
    Piped,       \* clients that are told of changes, over a pipe or a socket
    Browsers,    \* clients that ask, over REST
    Bodies,      \* the payloads of a phase's state
    MaxServed, MaxPhases, MaxAsks    \* bounds of the model

Guests == Range(Order)
Clients == Piped \cup Browsers
Phases == DOMAIN Subscribed
Absent == "absent"

State(case, body, failed) == [case |-> case, body |-> body, failed |-> failed]
NoState == State(Absent, Absent, FALSE)
Blocked == State("blocked", Absent, FALSE)

VARIABLES
    attached, \* the clients of this agent
    dead,     \* the guests that have trapped
    offers,   \* the commands a guest would contribute now, and its status text
    line,     \* what the gateway wrote to a client that has not read it
    held,     \* what the client's transport holds of contributions
    menu,     \* what the client shows
    doing,    \* a client's request: none, hello, get or the invocation
    since,    \* how what a client was last told came to be out of date
    phase, hook, at, answer, asks, stopped, tool, strayed,
    served, phases

guestvars == <<dead, offers>>
clientvars == <<line, held, menu, doing, since>>
turnvars == <<phase, hook, at, answer, asks, stopped, tool, strayed>>
vars == <<attached, guestvars, clientvars, turnvars, served, phases>>

NoRequest == [kind |-> "none"]
Invoke(e) == [kind |-> "invoke", extension |-> e.extension, name |-> e.name]
Nothing == [commands |-> {}, status |-> ""]
Entry(g, o) == [extension |-> g, commands |-> o.commands, status |-> o.status]

\* The agent serves one request or one turn at a time.
Free == phase = Absent

\* A set with nothing in it is skipped, as is a guest without the export or one that traps.
Declared(now, gone) ==
    LET shown == SelectSeq(Order, LAMBDA g : g \in Exports \ gone /\ now[g] # Nothing)
    IN  [i \in DOMAIN shown |-> Entry(shown[i], now[shown[i]])]

\* Reading what everybody contributes may be the call at which a guest traps.
Reads(traps) ==
    /\ traps \in SUBSET (Exports \ dead) /\ Cardinality(traps) <= 1
    /\ dead' = dead \cup traps

\* The client shows commands with a name and status items with a text, set by set.
Offered(sets) ==
    UNION {{[extension |-> sets[i].extension, name |-> n] : n \in sets[i].commands \ {""}} :
             i \in DOMAIN sets}
Shown(sets) ==
    [commands |-> Offered(sets),
     status |-> {[extension |-> sets[i].extension, text |-> sets[i].status] :
                   i \in {j \in DOMAIN sets : sets[j].status # ""}}]

\* The menu for what was typed, here the names that it begins; whichever row is
\* highlighted is the one chosen.
Typed == SUBSET (BuiltIn \cup UNION {o.commands : o \in Offer})
Matching(typed, shown) ==
    {e \in {[extension |-> Absent, name |-> n] : n \in BuiltIn} \cup shown.commands :
       e.name \in typed}

Told(c, frames) == line' = [line EXCEPT ![c] = @ \o frames]
Set(sets) == [is |-> "contributions", sets |-> sets]
Reply(kind) == [is |-> "reply", kind |-> kind]
Unheard(sets) == IF sets = <<>> THEN <<>> ELSE <<Set(sets)>>

\* Mutant: as at the greeting, nothing is sent when there is nothing left.
AnnouncedIfAny(sets) == Unheard(sets)
Announced(sets) == <<Set(sets)>>

\* What was told to others is out of date, and what this one was told is not.
Aged(told, why) == [c \in Clients |-> IF c \in told THEN {} ELSE since[c] \cup why]
OnlyRead(told, traps) == Aged(told, IF traps = {} THEN {} ELSE {"trap"})

-----------------------------------------------------------------------------
Init ==
    /\ attached \in {Clients} \cup {{c} : c \in Piped}
    /\ dead = {} /\ offers \in [Guests -> Offer]
    /\ \A g \in Guests \ Exports : offers[g] = Nothing
    /\ line = [c \in Clients |-> <<>>] /\ held = line
    /\ menu = [c \in Clients |-> Shown(<<>>)]
    /\ doing = [c \in Clients |-> NoRequest] /\ since = [c \in Clients |-> {"never"}]
    /\ phase = Absent /\ hook = NoState /\ at = 0 /\ answer = Absent /\ asks = 0 /\ stopped = FALSE
    /\ tool = NoState /\ strayed = FALSE
    /\ served = 0 /\ phases = 0

\* What a client sends: at its start, and the entry it chose in its menu.
Connect(c) ==
    /\ c \in attached /\ doing[c] = NoRequest /\ (c \in Piped => "never" \in since[c])
    /\ doing' = [doing EXCEPT ![c] = [kind |-> IF c \in Piped THEN "hello" ELSE "get"]]
    /\ UNCHANGED <<attached, guestvars, line, held, menu, since, turnvars, served, phases>>

Choose(c, typed) ==
    /\ doing[c] = NoRequest /\ "never" \notin since[c]
    /\ \E e \in Matching(typed, menu[c]) :
         e.extension # Absent /\ doing' = [doing EXCEPT ![c] = Invoke(e)]
    /\ UNCHANGED <<attached, guestvars, line, held, menu, since, turnvars, served, phases>>

\* The gateway greets: the contributions before the answer, if there are any.
ServeHello(c, traps) ==
    /\ Free /\ doing[c].kind = "hello" /\ line[c] = <<>> /\ served < MaxServed
    /\ Reads(traps)
    /\ Told(c, Unheard(Declared(offers, dead')) \o <<Reply("ok")>>)
    /\ since' = OnlyRead({c}, traps) /\ served' = served + 1
    /\ UNCHANGED <<attached, offers, held, menu, doing, turnvars, phases>>

ServeGet(c, traps) ==
    /\ Free /\ doing[c].kind = "get" /\ line[c] = <<>> /\ served < MaxServed
    /\ Reads(traps)
    /\ Told(c, <<Set(Declared(offers, dead'))>>)
    /\ since' = OnlyRead({c}, traps) /\ served' = served + 1
    /\ UNCHANGED <<attached, offers, held, menu, doing, turnvars, phases>>

\* An invocation goes to the guest of that id, whose answer is its own: it may say
\* that what it contributes has changed, or change it and not say so.
Invocable(c) == Free /\ doing[c].kind = "invoke" /\ line[c] = <<>> /\ served < MaxServed
Callee(c) == doing[c].extension
Becomes(g, o) == offers' = [offers EXCEPT ![g] = o]

ServeDone(c, now, says, traps) ==
    /\ Invocable(c) /\ Callee(c) \notin dead /\ Becomes(Callee(c), now)
    /\ IF says /\ c \in Piped THEN Reads(traps) ELSE traps = {} /\ UNCHANGED dead
    /\ Told(c,
             (IF says /\ c \in Piped THEN Announced(Declared(offers', dead')) ELSE <<>>)
               \o <<Reply("ok")>>)
    /\ since' = IF says /\ c \in Piped THEN Aged({c}, {"other"})
                ELSE IF now # offers[Callee(c)] THEN Aged({}, {"silent"}) ELSE since
    /\ served' = served + 1
    /\ UNCHANGED <<attached, held, menu, doing, turnvars, phases>>

\* A refusal, of a command it knows or does not, may come with a change as well.
ServeRefused(c, now) ==
    /\ Invocable(c) /\ Callee(c) \notin dead
    /\ Becomes(Callee(c), now) /\ Told(c, <<Reply("refused")>>)
    /\ since' = IF now # offers[Callee(c)] THEN Aged({}, {"silent"}) ELSE since
    /\ served' = served + 1
    /\ UNCHANGED <<attached, dead, held, menu, doing, turnvars, phases>>

ServeFailed(c) ==
    /\ Invocable(c) /\ dead' = dead \cup {Callee(c)} /\ Told(c, <<Reply("failed")>>)
    /\ since' = IF Callee(c) \in dead THEN since ELSE Aged({}, {"trap"})
    /\ served' = served + 1
    /\ UNCHANGED <<attached, offers, held, menu, doing, turnvars, phases>>

-----------------------------------------------------------------------------
\* What the client reads: a notification is held by its transport, and shown when
\* the answer it waits for has come; what a browser asked for it shows.
Heard(c) == line' = [line EXCEPT ![c] = Tail(@)]

ReadContributions(c) ==
    /\ line[c] # <<>> /\ Head(line[c]).is = "contributions" /\ Heard(c)
    /\ held' = [held EXCEPT ![c] = Head(line[c]).sets]
    /\ IF c \in Browsers
       THEN menu' = [menu EXCEPT ![c] = Shown(held'[c])] /\ doing' = [doing EXCEPT ![c] = NoRequest]
       ELSE UNCHANGED <<menu, doing>>
    /\ UNCHANGED <<attached, guestvars, since, turnvars, served, phases>>

ReadReply(c) ==
    /\ line[c] # <<>> /\ Head(line[c]).is = "reply" /\ Heard(c)
    /\ menu' = [menu EXCEPT ![c] = Shown(held[c])] /\ doing' = [doing EXCEPT ![c] = NoRequest]
    /\ UNCHANGED <<attached, guestvars, held, since, turnvars, served, phases>>

-----------------------------------------------------------------------------
\* A state on its way into a guest has no "failed", and one on its way out none to
\* give; the adapter puts back that of the state it sent, if both are of a tool's result.
ToGuest(s) == [case |-> s.case, body |-> s.body]
GuestStates == {ToGuest(State(p, b, f)) : p \in Phases, b \in Bodies, f \in BOOLEAN}
FromGuest(s) == State(s.case, s.body, FALSE)
\* Mutant: the guest's state as it comes.
PreservedNever(new, sent) == new
Preserved(new, sent) ==
    IF new.case = "tool-result" /\ sent.case = "tool-result"
    THEN [new EXCEPT !.failed = sent.failed] ELSE new
Replies(s) == Preserved(FromGuest(s), hook)

\* A turn reaches a phase; at a tool's result it says whether the tool failed.
Begin(p, body, failed) ==
    /\ Free /\ phases < MaxPhases /\ attached \subseteq Piped /\ Cardinality(attached) = 1
    /\ \A c \in attached : doing[c] = NoRequest
    /\ failed => p = "tool-result"
    /\ phase' = p /\ hook' = State(p, body, failed) /\ tool' = hook'
    /\ at' = 1 /\ answer' = Absent /\ asks' = 0 /\ stopped' = FALSE /\ strayed' = FALSE
    /\ phases' = phases + 1
    /\ UNCHANGED <<attached, guestvars, clientvars, served>>

Dispatching == ~Free /\ at \in DOMAIN Order
Called == Dispatching /\ Order[at] \in Subscribed[phase] \ dead

Skip ==
    /\ Dispatching /\ Order[at] \notin Subscribed[phase] /\ at' = at + 1
    /\ UNCHANGED <<attached, guestvars, clientvars, phase, hook, answer, asks, stopped, tool, strayed, served, phases>>

\* While it decides, a guest may come to contribute something else; nobody is told.
Wavers ==
    /\ \E o \in Offer : (Order[at] \in Exports \/ o = Nothing) /\ Becomes(Order[at], o)
    /\ since' = IF offers' # offers THEN Aged({}, {"silent"}) ELSE since
    /\ UNCHANGED <<line, held, menu, doing>>

Proceed ==
    /\ Called /\ Wavers /\ at' = at + 1 /\ answer' = Absent
    /\ UNCHANGED <<attached, dead, phase, hook, asks, stopped, tool, strayed, served, phases>>

Replace(s) ==
    /\ Called /\ Wavers /\ hook' = Replies(s) /\ at' = at + 1 /\ answer' = Absent
    /\ strayed' = (strayed \/ s.case # phase)
    /\ UNCHANGED <<attached, dead, phase, asks, stopped, tool, served, phases>>

Ask ==
    /\ Called /\ Wavers /\ asks < MaxAsks /\ asks' = asks + 1 /\ answer' = "given"
    /\ UNCHANGED <<attached, dead, phase, hook, at, stopped, tool, strayed, served, phases>>

\* It blocks, refuses, traps, or cannot be entered.  A block ends the dispatch, and at
\* a tool's call a failure is one; elsewhere a guest that fails is passed over.
Stops == at' = Len(Order) + 1 /\ stopped' = TRUE /\ answer' = Absent
\* Mutant: a guest that fails is passed over at every phase.
FailsOpen == at' = at + 1 /\ answer' = Absent /\ UNCHANGED stopped
Fails == IF phase = "tool-call" THEN Stops
         ELSE at' = at + 1 /\ answer' = Absent /\ UNCHANGED stopped

Block ==
    /\ Called /\ Wavers /\ Stops
    /\ UNCHANGED <<attached, dead, phase, hook, asks, tool, strayed, served, phases>>

Err ==
    /\ Called /\ Wavers /\ Fails
    /\ UNCHANGED <<attached, dead, phase, hook, asks, tool, strayed, served, phases>>

Trap ==
    /\ Dispatching /\ Order[at] \in Subscribed[phase] /\ dead' = dead \cup {Order[at]} /\ Fails
    /\ since' = IF Order[at] \in dead THEN since ELSE Aged({}, {"trap"})
    /\ UNCHANGED <<attached, offers, line, held, menu, doing, phase, hook, asks, tool, strayed, served, phases>>

\* What the loop makes of it.  A block counts at a tool's call and where a request is
\* shaped; elsewhere the state is used as it was left.  A state of the wrong case is an
\* error where a request is shaped, is taken as it was sent for a message, a call and the
\* next request, and as empty, a failure, for a text and a result.
Shaping == {"select-model", "select-context", "select-tools"}
Texts == {"after-response", "finalize"}
Fits(s) == s.case = phase \/ \E kin \in {Shaping, Texts} : {phase, s.case} \subseteq kin
Outcome ==
    IF stopped /\ phase \in Shaping \cup {"tool-call"} THEN Blocked
    ELSE IF Fits(hook) THEN hook
    ELSE CASE phase \in Shaping -> Blocked
           [] phase = "tool-result" -> [tool EXCEPT !.body = Absent, !.failed = TRUE]
           [] phase \in Texts -> [tool EXCEPT !.body = Absent]
           [] OTHER -> tool

Conclude ==
    /\ ~Free /\ at > Len(Order)
    /\ phase' = Absent /\ hook' = NoState /\ tool' = NoState /\ at' = 0
    /\ asks' = 0 /\ stopped' = FALSE /\ strayed' = FALSE
    /\ UNCHANGED <<attached, guestvars, clientvars, answer, served, phases>>

-----------------------------------------------------------------------------
Next ==
    \/ \E c \in Clients :
         \/ Connect(c) \/ ReadContributions(c) \/ ReadReply(c) \/ ServeFailed(c)
         \/ \E typed \in Typed : Choose(c, typed)
         \/ \E traps \in SUBSET Exports : ServeHello(c, traps) \/ ServeGet(c, traps)
         \/ \E now \in Offer : ServeRefused(c, now)
         \/ \E now \in Offer, says \in BOOLEAN, traps \in SUBSET Exports : ServeDone(c, now, says, traps)
    \/ \E p \in Phases, b \in Bodies, failed \in BOOLEAN : Begin(p, b, failed)
    \/ \E s \in GuestStates : Replace(s)
    \/ Skip \/ Proceed \/ Ask \/ Block \/ Err \/ Trap \/ Conclude

Spec == Init /\ [][Next]_vars

-----------------------------------------------------------------------------
SurfaceTypes ==
    /\ attached \subseteq Clients /\ dead \subseteq Guests /\ offers \in [Guests -> Offer]
    /\ \A c \in Clients :
         /\ Len(line[c]) <= 2 /\ since[c] \subseteq {"never", "silent", "trap", "other"}
         /\ doing[c].kind \in {"none", "hello", "get", "invoke"}
    /\ phase \in Phases \cup {Absent} /\ at \in 0..(Len(Order) + 1) /\ asks \in 0..MaxAsks
    /\ answer \in {Absent, "given"} /\ stopped \in BOOLEAN /\ strayed \in BOOLEAN

\* MenuIsTrue: a client that waits for nothing shows the commands and the status
\* its guests contribute, unless they changed since it was last told and said
\* nothing (or to another client), or one of them trapped.  The notification of a
\* change is written before the answer that ends the client's reading
\* (rpc.rs:299, transport.rs:499), and a set that became empty is told as well.
MenuIsTrue ==
    \A c \in attached :
        doing[c] = NoRequest /\ since[c] = {} => menu[c] = Shown(Declared(offers, dead))

\* FailureIsKept: what the interceptors make of a tool's result, whose type at the
\* boundary has no such field, failed if and only if the tool did, through any number
\* of replacements (interceptor_host.rs:432), unless one replied with another
\* phase's state.
FailureIsKept ==
    phase = "tool-result" /\ at > Len(Order) /\ ~strayed => Outcome.failed = tool.failed

\* DeadGuestsPassNothing: no call is let through while a guest that guards calls is
\* dead, whether it died in a turn or when it was asked what it contributes.
DeadGuestsPassNothing ==
    phase = "tool-call" /\ at > Len(Order) /\ dead \cap Subscribed[phase] # {}
        => Outcome = Blocked
=============================================================================
