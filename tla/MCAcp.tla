--------------------------------- MODULE MCAcp ---------------------------------
(* Who is asked, and what is let through: the ACP pipe, the Telegram bot,  *)
(* the gate at `tool-call`, a request over host-http, the guest that calls *)
(* MCP servers, and the gateway as such a server.  They share nothing (a   *)
(* turn's question is any question to the gate), so a behaviour is one of  *)
(* one of the six.                                                         *)
EXTENDS Acp

CONSTANTS
    Sorts, Limit, AnswerPolls, MaxErrors, MaxUpdates, MaxPrompts, MaxFailures, MaxKills,    \* of Telegram
    Sessions, Keys, SafeKeys, Calls, Rules, Enough, MaxCalls, MaxRetired,                   \* of Gate
    Literals, Hosts, Allowed, Secrets, MaxRedirects, MaxRebinds,                            \* of Egress
    Configured, Http, Granted, Tools, Offers, Budget, MaxToolCalls, MaxNotes,               \* of McpStdio
    DefaultSession, MaxFrames                                                               \* of Mcp

MaxOfValue == [k \in Requests \cup {"cancel"} |-> IF k = "prompt" THEN 2 ELSE 1]

\* scope_key names every call.
ASSUME GateAssumption == \A c \in Calls : c.key \in Keys

ASSUME BotAssumption ==
    /\ \A s \in Sorts : s.kind \in {"text", "unlisted", "other"}
    /\ Limit \in Nat \ {0} /\ AnswerPolls \in Nat \ {0} /\ MaxErrors \in Nat \ {0}
    /\ MaxUpdates \in Nat

\* A configuration names each of its servers once.
ASSUME GuestAssumption ==
    /\ Configured \in Seq({Configured[i] : i \in DOMAIN Configured})
    /\ \A i, j \in DOMAIN Configured : Configured[i] = Configured[j] => i = j
    /\ Http \subseteq {Configured[i] : i \in DOMAIN Configured}
    /\ Offers \in [{Configured[i] : i \in DOMAIN Configured} -> SUBSET Tools]
    /\ Budget \in Nat \ {0} /\ MaxToolCalls \in Nat /\ MaxNotes \in Nat

ASSUME ServerAssumption ==
    /\ DefaultSession \in Sessions /\ "none" \notin Sessions
    /\ MaxFrames \in Nat /\ MaxKills \in Nat

\* Two chats; a sender that is not listed and a sticker in one of them.
MCSorts == {[chat |-> 1, kind |-> "text"], [chat |-> 2, kind |-> "text"],
            [chat |-> 1, kind |-> "unlisted"], [chat |-> 2, kind |-> "other"]}

\* Writing is a kind of call to ask about, reading is known to be safe; the first
\* rule of the operator asks and the second blocks.
MadeCall(key, escapes, credentials, matches) ==
    [key |-> key, escapes |-> escapes, credentials |-> credentials, matches |-> matches]
MCCalls ==
    {MadeCall("write", FALSE, FALSE, m) : m \in {{}, {1}, {2}}}
      \cup {MadeCall("read", FALSE, FALSE, m) : m \in {{}, {1, 2}}}
      \cup {MadeCall("write", TRUE, FALSE, {}), MadeCall("read", FALSE, TRUE, {})}
MCRules == <<"ask", "block">>

\* A public and a private address.
MCLiterals == [h \in {"8.8.8.8", "127.0.0.1"} |-> IF h = "8.8.8.8" THEN "public" ELSE "private"]

\* Two servers over a child, one remote, and one that is configured but not granted.
MCConfigured == <<"files", "docs", "web", "ungranted">>
MCOffers == [s \in {"files", "docs", "web", "ungranted"} |->
                IF s = "web" THEN {"read", "get"} ELSE {"read"}]

VARIABLES
    surface,    \* the one that runs: "acp", "telegram", "gate", "http", "guest" or "mcp"
    updates, confirmed, offset, cursor, queue, deferred, pc, current, polls, asks,
    errors, failures, kills, cuts, turns, replies, refused, waited,
    persist, broken, verdict, refusals, at, call, seen, gated, retired, allowed, said,
    counted, raced,
    resolves, rebinds, hopAt, target, method, body, secret, pinned, hop, sent,
    callAt, known, place, request, reply, nextId, alive, inbox, pipe, calls, notes, strayed,
    readAt, input, open, listening, taking, log, told, written, cut, starts

Tg == INSTANCE Telegram WITH MaxAsks <- MaxPrompts

G == INSTANCE Gate WITH made <- gated, refused <- counted
E == INSTANCE Egress WITH pc <- hopAt

M == INSTANCE McpStdio WITH
    pc <- callAt, turn <- place, call <- request, MaxCalls <- MaxToolCalls

S == INSTANCE Mcp WITH pc <- readAt, current <- taking, answers <- told, sent <- written,
                        kills <- starts

gatevars == <<persist, broken, verdict, refusals, at, call, seen, gated, retired, allowed,
              said, counted, raced>>
httpvars == <<resolves, rebinds, hopAt, target, method, body, secret, pinned, hop, sent>>
tgvars == <<updates, confirmed, offset, cursor, queue, deferred, pc, current, polls,
            asks, errors, failures, kills, cuts, turns, replies, refused, waited>>
guestvars == <<callAt, known, place, request, reply, nextId, alive, inbox, pipe, calls, notes, strayed>>
mcpvars == <<readAt, input, open, listening, taking, log, told, written, cut, starts>>

\* Those that do not move begin in one of their initial states.
EitherInit ==
    /\ surface \in {"acp", "telegram", "gate", "http", "guest", "mcp"}
    /\ Init /\ Tg!Init /\ G!Init /\ E!Init /\ M!Init /\ S!Init
    /\ surface # "gate" => ~persist /\ ~broken
    /\ surface # "http" => resolves = [h \in Hosts |-> {}]

A(step) == surface = "acp" /\ step /\ UNCHANGED <<surface, tgvars, gatevars, httpvars, guestvars, mcpvars>>
T(step) == surface = "telegram" /\ step /\ UNCHANGED <<surface, vars, gatevars, httpvars, guestvars, mcpvars>>
L(step) == surface = "gate" /\ step /\ UNCHANGED <<surface, vars, tgvars, httpvars, guestvars, mcpvars>>
H(step) == surface = "http" /\ step /\ UNCHANGED <<surface, vars, tgvars, gatevars, guestvars, mcpvars>>
C(step) == surface = "guest" /\ step /\ UNCHANGED <<surface, vars, tgvars, gatevars, httpvars, mcpvars>>
V(step) == surface = "mcp" /\ step /\ UNCHANGED <<surface, vars, tgvars, gatevars, httpvars, guestvars>>

EitherNext ==
    \/ \E k \in {"unknown", "unreadable", "initialize", "new"} : A(SendRequest(k, 0))
    \/ \E s \in 1..MaxOf["new"] : A(SendRequest("prompt", s))
    \/ \E q \in 1..MaxAsks, c \in Options : A(SendAnswer(q, c))
    \/ A(SendCancel) \/ A(HangUp) \/ A(ServeRequest) \/ A(ServeCancel)
    \/ A(ServeAnswer) \/ A(BeginTurn) \/ A(ServeEnds) \/ A(TakeAnswer) \/ A(TakeCancel)
    \/ A(SkipFrame) \/ A(AskEnds) \/ A(Speak) \/ A(Ask) \/ A(EndTurn)
    \/ \E s \in Sorts : T(Tg!Send(s))
    \/ T(Tg!Poll) \/ T(Tg!Refuse) \/ T(Tg!BeginTurn) \/ T(Tg!Reply) \/ T(Tg!CycleEnds)
    \/ T(Tg!WaitPoll) \/ T(Tg!Ask) \/ T(Tg!PollFails) \/ T(Tg!ReplyFails)
    \/ T(Tg!WaitFails) \/ T(Tg!Restart)
    \/ \E s \in Sessions :
        \/ \E c \in Calls : L(G!BeginCall(s, c))
        \/ L(G!EndCall(s)) \/ L(G!Retire(s)) \/ L(G!Review(s)) \/ L(G!Recall(s))
        \/ \E a \in G!Answers : L(G!RuleAnswered(s, a)) \/ L(G!Answered(s, a))
        \/ L(G!CountRead(s)) \/ L(G!CountWrite(s)) \/ L(G!StandingDeny(s))
    \/ \E h \in Hosts, classes \in SUBSET E!Classes : H(E!Rebind(h, classes))
    \/ \E h \in E!Targets, m \in E!Methods, b \in BOOLEAN : H(E!Fetch(h, m, b))
    \/ H(E!Check) \/ H(E!TooManyRedirects) \/ H(E!ExchangeFails) \/ H(E!Answered)
    \/ \E a \in E!Classes : H(E!Connect(a))
    \/ \E h \in E!Targets, seeOther \in BOOLEAN : H(E!Redirect(h, seeOther))
    \/ C(M!ReadPart) \/ C(M!ReadLine) \/ C(M!ReadNothing) \/ C(M!Post) \/ C(M!Connect)
    \/ C(M!Initialized) \/ C(M!InitializeFailed) \/ C(M!Listed) \/ C(M!Started) \/ C(M!Invoked)
    \/ \E s \in M!Servers, t \in Tools : C(M!InvokeTool(s, t))
    \/ \E s \in M!Servers : C(M!Answer(s)) \/ C(M!Note(s)) \/ C(M!Exit(s))
    \/ \E kind \in S!Kinds, s \in Sessions \cup {"none"} : V(S!Send(kind, s))
    \/ V(S!HangUp) \/ V(S!StopReading) \/ V(S!Skip) \/ V(S!AnswerAtOnce) \/ V(S!CallSessions)
    \/ V(S!BeginAsk) \/ V(S!EndAsk) \/ V(S!Ends) \/ V(S!Kill) \/ V(S!Start)

EitherSpec ==
    /\ EitherInit /\ [][EitherNext]_<<surface, vars, tgvars, gatevars, httpvars, guestvars, mcpvars>>
    /\ WF_vars(surface = "acp" /\ Serve) /\ WF_vars(surface = "acp" /\ Answers)
    /\ WF_vars(surface = "acp" /\ EndTurn)
    /\ WF_vars(surface = "acp" /\ \E q \in 1..MaxAsks, c \in Options : SendAnswer(q, c))
    /\ WF_tgvars(surface = "telegram" /\ Tg!Bot) /\ WF_httpvars(surface = "http" /\ E!Host)
    /\ WF_guestvars(surface = "guest" /\ M!Guest)

\* Telegram's properties, by the names it gives them.
BotTypes == Tg!TypeOK
ConfirmedIsHandled == Tg!ConfirmedIsHandled
OnceEach == Tg!OnceEach
InOrder == Tg!InOrder
EveryMessageUsed == Tg!EveryMessageUsed

\* The gate's.
GateTypes == G!TypeOK
RunsAreAllowed == G!RunsAreAllowed
SettledAfterThree == G!SettledAfterThree
DenialLasts == G!DenialLasts

\* A request's.
RequestTypes == E!TypeOK
SentAsAllowed == E!SentAsAllowed
CredentialsStay == E!CredentialsStay
FetchEnds == E!FetchEnds

\* Those of the guest that calls servers.
GuestTypes == M!TypeOK
OwnReply == M!OwnReply
WholeCatalogue == M!WholeCatalogue
RequestsEnd == M!RequestsEnd

\* Those of the gateway as a server.
ServerTypes == S!TypeOK
AnswersInOrder == S!AnswersInOrder
AskedIsShown == S!AskedIsShown
NoneHalfDone == S!NoneHalfDone
AbsentIsNew == S!AbsentIsNew
=============================================================================
