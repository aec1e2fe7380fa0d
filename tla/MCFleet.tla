------------------------------ MODULE MCFleet ------------------------------
(* The tools of two agents, the processes a tool starts, a file that two    *)
(* sessions edit, the interceptors that shape what a provider is asked, and *)
(* what interceptors contribute to a client's interface.  They share no     *)
(* state, so a behaviour is one of one of the five.                         *)
EXTENDS Fleet

CONSTANTS
    MaxSpawns, Pipe, Cap, MaxOut, MaxErr, MaxIn, Forks,            \* of HostProcess
    Order, Exports, GuestsOf, Offer, BuiltIn, Piped, Browsers,   \* of Surface
    Bodies, MaxServed, MaxPhases, MaxWavers,
    Editors, LineTexts, NoText, Hash, Firsts, Puts,                 \* of Edits, and its texts
    MaxLines, MaxEdits, MaxOthers, ViewCap

ASSUME HostProcessAssumption ==
    /\ MaxSpawns \in Nat /\ MaxOut \in Nat /\ MaxErr \in Nat /\ MaxIn \in Nat
    /\ Pipe \in Nat \ {0} /\ Cap \in Nat \ {0} /\ Forks \in BOOLEAN

\* A client is told or asks; guests are subscribed to what guests are dispatched at.
ASSUME SurfaceAssumption ==
    /\ Piped \cap Browsers = {}
    /\ \A p \in DOMAIN GuestsOf : GuestsOf[p] \subseteq {Order[i] : i \in DOMAIN Order}
    /\ Order \in Seq({Order[i] : i \in DOMAIN Order})

\* A file, and what is put into it, are lines of text.
ASSUME EditsAssumption ==
    /\ NoText \in LineTexts /\ Puts \subseteq Seq(LineTexts) /\ ViewCap \in Nat
    /\ Firsts \subseteq [lines : Seq(LineTexts), nl : BOOLEAN]

\* Two agents, two sessions; the guests of a small distribution: a memory shared
\* by all sessions and a plan per session, whose guest may ask first.  A skill has
\* taken the name of one of the host's own tools.
MCToolList   == <<"memory", "plan">>
MCSkillList  == <<"skills">>
MCMcpList    == <<"mcp">>
MCNativeNames == {"install"}
MCNameOf     == [t \in {"memory", "plan"} |-> t]
MCOffersOf   == [r \in {"skills", "mcp"} |->
                  IF r = "skills" THEN {"install"} ELSE {"grep"}]

\* Three texts, one of which matches two of the rules; the first rule's replacement is
\* matched by the second.
Text(has, names, size) == [has |-> has, names |-> names, size |-> size]
MCTexts == {Text({}, {2}, 1), Text({"a", "b"}, {}, 2), Text({"c"}, {}, 0)}
MCRules == <<[find |-> "a", act |-> "replace", with |-> {"b"}],
             [find |-> "b", act |-> "replace", with |-> {}],
             [find |-> "c", act |-> "block", with |-> {}]>>
Shipped == <<"system", "persona", "task-router", "context", "guardrails", "tool-selector">>
Turned == <<"guardrails", "tool-selector", "persona", "system", "context", "task-router">>
Setup(order, prompt, nested, budget, broken, most) ==
    [order |-> order, prompt |-> prompt, project |-> "text", projectHas |-> {"b"},
     persona |-> [nested |-> nested, enabled |-> TRUE], routes |-> [chat |-> "m", code |-> ""],
     budget |-> budget, rules |-> MCRules, broken |-> broken, cut |-> [most |-> most, least |-> 2 * most]]
MCSetups ==
    {Setup(Shipped, "absent", TRUE, 4, FALSE, 1), Setup(Shipped, "absent", TRUE, 9, TRUE, 0),
     Setup(Turned, "blank", TRUE, 2, FALSE, 0), Setup(Turned, "text", FALSE, 3, FALSE, 1)}
Earlier(role, text) == [role |-> role, from |-> "history", text |-> text]
MCHistories == {<<>>, <<Earlier("user", Text({"a"}, {1}, 1)), Earlier("assistant", Text({}, {}, 2))>>}

\* A guest that guards calls and one that does not, which has a command with no name.
MCGuestsOf ==
    [p \in {"tool-call", "tool-result", "after-response", "select-model"} |->
        IF p \in {"tool-call", "tool-result"} THEN {"gate", "plain"} ELSE {"plain"}]
Offering(commands, status) == [commands |-> commands, status |-> status]
MCOrder == <<"gate", "plain">>
MCOffer == {Offering({}, ""), Offering({"prompt"}, ""), Offering({"", "prompt"}, "busy")}

\* A line that occurs again further down, an empty one, a file without a last newline,
\* and one clash among the hashes: line 4, "b" has that of line 2, "a".
MCFirsts == {[lines |-> <<"a", "b">>, nl |-> TRUE], [lines |-> <<"b", "a", "b">>, nl |-> TRUE],
             [lines |-> <<"a", "b", "a">>, nl |-> FALSE]}
MCHash == [line \in (1..4) \X {"a", "b", ""} |-> IF line = <<4, "b">> THEN <<2, "a">> ELSE line]
MCPuts == {<<>>, <<"b", "">>}

VARIABLES
    part,       \* "tools", "process", "edits", "shaping" or "surface"
    alive, holding, stdin, wrote, got, lo, tail, handles, next, said, doingCall, last,
    setup, agentic, spc, phaseAt, request, text, scalls, sent, shown, cycles,
    attached, dead, offers, line, held, menu, doing, since, served,
    phase, hook, place, answer, asks, stopped, toolAt, strayed, phases,
    file, view, edit, others, edits

HP == INSTANCE HostProcess WITH held <- holding, live <- handles, call <- doingCall

H == INSTANCE Shaping WITH
    Setups <- MCSetups, Histories <- MCHistories, Texts <- MCTexts, NTools <- 3, MaxCycles <- 2,
    pc <- spc, at <- phaseAt, calls <- scalls

U == INSTANCE Surface WITH
    Subscribed <- GuestsOf, MaxAsks <- MaxWavers, at <- place, tool <- toolAt

Ed == INSTANCE Edits WITH Blank <- NoText, Blocks <- Puts

shapingvars == <<setup, agentic, spc, phaseAt, request, text, scalls, sent, shown, cycles>>

surfacevars == <<attached, dead, offers, line, held, menu, doing, since, served,
                 phase, hook, place, answer, asks, stopped, toolAt, strayed, phases>>

processvars == <<alive, holding, stdin, wrote, got, lo, tail, handles, next, said, doingCall, last>>

editvars == <<file, view, edit, others, edits>>

\* Those that do not move begin in one of their initial states.
EitherInit ==
    /\ part \in {"tools", "process", "edits", "shaping", "surface"}
    /\ Init /\ HP!Init /\ H!Init /\ U!Init /\ Ed!Init
    /\ part # "tools" => ~eager
    /\ part # "edits" => file = [lines |-> <<"a", "b">>, nl |-> TRUE]
    /\ part # "shaping" => setup = Setup(Shipped, "absent", TRUE, 4, FALSE, 1)
    /\ part # "surface" =>
        attached = Piped /\ offers = [g \in Range(Order) |-> Offering({}, "")]

F(step) == part = "tools" /\ step /\ UNCHANGED <<part, processvars, editvars, shapingvars, surfacevars>>
C(step) == part = "process" /\ step /\ UNCHANGED <<part, vars, editvars, shapingvars, surfacevars>>
E(step) == part = "edits" /\ step /\ UNCHANGED <<part, vars, processvars, shapingvars, surfacevars>>
I(step) == part = "shaping" /\ step /\ UNCHANGED <<part, vars, processvars, editvars, surfacevars>>
V(step) == part = "surface" /\ step /\ UNCHANGED <<part, vars, processvars, editvars, shapingvars>>

EitherNext ==
    \/ \E a \in Agents :
        \/ F(BuildAgent(a)) \/ F(EndTurn(a)) \/ F(GuestAsks(a)) \/ F(DriverAnswers(a))
        \/ F(GuestReturns(a)) \/ F(GuestReads(a))
        \/ \E row \in Rendered(a) : F(GuestWrites(a, row))
        \/ \E s \in Sessions : F(BeginTurn(a, s))
        \/ \E name \in Names, bad, regBad \in MayBreak : F(Dispatch(a, name, bad, regBad))
    \/ \E p \in HP!Procs : C(HP!Child(p))
    \/ \E h \in HP!Handles : C(HP!ReadsStdout(h)) \/ C(HP!ReadsStderr(h))
    \/ C(HP!InCall) \/ C(HP!Guest)
    \/ \E e \in Editors :
        \/ E(Ed!View(e)) \/ E(Ed!Read(e)) \/ E(Ed!Reject(e)) \/ E(Ed!Open(e)) \/ E(Ed!Write(e))
        \/ E(Ed!Killed(e))
    \/ \E c \in Firsts : E(Ed!OtherWrites(c))
    \/ \E history \in MCHistories, asked \in MCTexts : I(H!Begin(history, asked))
    \/ I(H!System) \/ I(H!Persona) \/ I(H!Context) \/ I(H!ReviewContext) \/ I(H!Review)
    \/ I(H!ShapeEnds) \/ I(H!LoopEnds) \/ I(H!TurnEnds)
    \/ \E label \in {"chat", "code", "planning", "?"} : I(H!TaskRouter(label))
    \/ \E ranked \in H!Rankings : I(H!ToolSelector(ranked))
    \/ \E t \in MCTexts :
        \/ I(H!ToolRuns(t)) \/ I(H!FollowUp(t))
        \/ \E called \in BOOLEAN : I(H!Complete(t, called))
    \/ \E c \in Piped \cup Browsers :
        \/ V(U!Connect(c)) \/ V(U!ReadContributions(c)) \/ V(U!ReadReply(c)) \/ V(U!ServeFailed(c))
        \/ \E typed \in U!Typed : V(U!Choose(c, typed))
        \/ \E traps \in SUBSET Exports :
             \/ V(U!ServeHello(c, traps)) \/ V(U!ServeGet(c, traps))
             \/ \E now \in Offer, says \in BOOLEAN : V(U!ServeDone(c, now, says, traps))
        \/ \E now \in Offer : V(U!ServeRefused(c, now))
    \/ \E p \in DOMAIN GuestsOf, body \in Bodies, failed \in BOOLEAN : V(U!Begin(p, body, failed))
    \/ \E s \in U!GuestStates : V(U!Replace(s))
    \/ V(U!Skip) \/ V(U!Proceed) \/ V(U!Ask) \/ V(U!Block) \/ V(U!Err) \/ V(U!Trap) \/ V(U!Conclude)

EitherSpec ==
    /\ EitherInit /\ [][EitherNext]_<<part, vars, processvars, editvars, shapingvars, surfacevars>>
    /\ \A a \in Agents :
        /\ WF_vars(part = "tools" /\ DriverAnswers(a))
        /\ WF_vars(part = "tools" /\ (GuestAsks(a) \/ GuestReturns(a) \/ GuestReads(a)
                                        \/ \E row \in Rendered(a) : GuestWrites(a, row)))

\* Those of the child processes.
ProcessTypes == HP!TypeOK
ExitIsWhole == HP!ExitIsWhole
LastWords == HP!LastWords
StaleIsDead == HP!StaleIsDead

\* Those of the file.
EditTypes == Ed!EditTypes
EditsLandAsSeen == Ed!EditsLandAsSeen
CollisionsAreRejected == Ed!CollisionsAreRejected

\* The shaping interceptors'.
ShapingTypes == H!TypeOK
ContextIsReviewed == H!ContextIsReviewed
ShownIsReviewed == H!ShownIsReviewed
AskedIsSent == H!AskedIsSent
ContextFits == H!ContextFits

\* Those of what interceptors contribute, and of the boundary they are behind.
SurfaceTypes == U!SurfaceTypes
MenuIsTrue == U!MenuIsTrue
FailureIsKept == U!FailureIsKept
DeadGuestsPassNothing == U!DeadGuestsPassNothing
=============================================================================
