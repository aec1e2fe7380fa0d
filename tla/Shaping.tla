------------------------------- MODULE Shaping -------------------------------
(***************************************************************************)
(* What the bundled interceptors make of a turn: the instructions and the  *)
(* persona put in front, the route to a model, the context trimmed to its  *)
(* budget, the tools cut, and texts reviewed by the operator's rules, as   *)
(* the conductor dispatches them.  Modelled from interceptor-system,       *)
(* -persona, -task-router, -context, -tool-selector and -guardrails, and   *)
(* pkgs/host/agent/src/conductor.rs.                                       *)
(*                                                                         *)
(* Turn has the conductor's control for any interceptors; here its control *)
(* is cut down to what happens to the request.  The gate at tool-call is   *)
(* Gate's, the classifier and what a provider sends on are Provider's.  A  *)
(* text is what of interest is in it: matches of patterns, names of tools. *)
(***************************************************************************)
EXTENDS Integers, Sequences, FiniteSets, SequencesExt

CONSTANTS
    Setups,      \* an operator's configuration: see Init
    Histories,   \* what the session's log says of earlier turns
    Texts,       \* texts of users, models and tools: [has, names, size]
    NTools,      \* tools the fleet advertises
    MaxCycles    \* bound: completions of a turn

VARIABLES
    setup,     \* the configuration
    agentic,   \* whether before-loop let the turn be shaped
    pc,        \* the phase being dispatched; "complete", "after", "answered", "failed"
    at,        \* the interceptor whose turn it is, of those subscribed
    request,   \* PendingRequest: its messages, tools and model
    text,      \* the text under review
    calls,     \* whether the last completion called a tool
    sent,      \* the last request put to the providers
    shown,     \* texts shown to the client: deltas and the answer
    cycles     \* completions so far

vars == <<setup, agentic, pc, at, request, text, calls, sent, shown, cycles>>

NoRequest == [messages |-> <<>>, tools |-> {}, model |-> ""]
Interceptors == {"system", "persona", "task-router", "context", "guardrails", "tool-selector"}
Shaped == <<"select-model", "select-context", "select-tools">>
Tools == 1..NTools

PhasesOf(x) ==
    CASE x \in {"system", "persona", "task-router"} -> {"select-model"}
      [] x = "context" -> {"select-context"}
      [] x = "tool-selector" -> {"select-tools"}
      [] x = "guardrails" -> {"select-context", "after", "finalize"}

\* In the order they were loaded.
Subscribed(phase) == SelectSeq(setup.order, LAMBDA x : phase \in PhasesOf(x))

Said(role, from, t) == [role |-> role, from |-> from, text |-> t]

TypeOK ==
    /\ setup \in Setups /\ agentic \in BOOLEAN /\ calls \in BOOLEAN
    /\ pc \in {"begin", "complete", "after", "finalize", "answered", "failed"} \cup ToSet(Shaped)
    /\ at \in 1..Cardinality(Interceptors) + 1
    /\ \A i \in DOMAIN request.messages :
          request.messages[i].role \in {"system", "user", "assistant", "tool"}
    /\ request.tools \subseteq Tools /\ cycles \in 0..MaxCycles

\* A setup says: order, the interceptors in load order; prompt and project, texts or
\* "absent" or "blank"; persona, whether its section says so and where; routes, models
\* by task; budget; cut, at most and at least; rules, patterns to replace or block, in
\* the operator's order; broken, whether one of them cannot be read.
Init ==
    /\ setup \in Setups /\ agentic = FALSE /\ pc = "begin" /\ at = 1
    /\ request = NoRequest /\ text = [has |-> {}, names |-> {}, size |-> 0] /\ calls = FALSE
    /\ sent = NoRequest /\ shown = {} /\ cycles = 0

---------------------------------------------------------------------------
(* Dispatch.                                                               *)

Turn(x) == at <= Len(Subscribed(pc)) /\ Subscribed(pc)[at] = x

\* build_initial_request; the intent router blocks a message that needs no loop, and
\* its request is not shaped.
Begin(history, asked) ==
    /\ pc = "begin"
    /\ request' = [NoRequest EXCEPT !.messages = Append(history, Said("user", "asked", asked))]
    /\ agentic' \in BOOLEAN
    /\ pc' = IF agentic' THEN "select-model" ELSE "complete"
    /\ UNCHANGED <<setup, at, text, calls, sent, shown, cycles>>

\* Proceed, or replace; an interceptor that fails is passed over in these phases.
Shape(r) ==
    /\ at' = at + 1 /\ request' = r
    /\ UNCHANGED <<setup, agentic, pc, text, calls, sent, shown, cycles>>

PhaseAfter(phase) ==
    CASE phase = "select-model" -> "select-context"
      [] phase = "select-context" -> "select-tools"
      [] phase = "select-tools" -> "complete"

ShapeEnds ==
    /\ pc \in ToSet(Shaped) /\ at = Len(Subscribed(pc)) + 1
    /\ at' = 1 /\ pc' = PhaseAfter(pc)
    /\ UNCHANGED <<setup, agentic, request, text, calls, sent, shown, cycles>>

---------------------------------------------------------------------------
(* select-model.                                                           *)

HasSystem(messages) == \E i \in DOMAIN messages : messages[i].role = "system"
Blank(t) == t \in {"absent", "blank"}

\* prompt::resolve and resolve_with_project: the texts that make up the instructions.
Resolved ==
    CASE setup.prompt = "blank" -> <<>>
      [] setup.prompt # "blank" /\ Blank(setup.project) -> <<"base">>
      [] OTHER -> <<"base", "project">>

\* The project's instructions are a text like any other, the rest is the runtime's own.
Instructions ==
    [has |-> IF Len(Resolved) = 2 THEN setup.projectHas ELSE {}, names |-> {}, size |-> Len(Resolved)]

System ==
    /\ Turn("system")
    /\ Shape(IF Resolved = <<>> \/ HasSystem(request.messages) THEN request
             ELSE [request EXCEPT !.messages = <<Said("system", "prompt", Instructions)>> \o @])

\* PersonaConfig::from_config: init looks for the section inside the section it is given.
PersonaIsOn == setup.persona.nested /\ setup.persona.enabled
PersonaText == [has |-> {}, names |-> {}, size |-> 1]

\* As a message of the user's, behind a system message.
Persona ==
    /\ Turn("persona")
    /\ LET m == request.messages
           in == IF HasSystem(m) THEN 2 ELSE 1
       IN Shape(IF ~PersonaIsOn \/ (\E i \in DOMAIN m : m[i].from = "persona") THEN request
                ELSE [request EXCEPT !.messages = InsertAt(m, in, Said("user", "persona", PersonaText))])

\* parse_task: none when the classifier fails or says something else; then it is chat.
TaskOf(label) == IF label \in DOMAIN setup.routes \cup {"planning"} THEN label ELSE "chat"
ModelOf(task) == IF task \in DOMAIN setup.routes THEN setup.routes[task] ELSE ""

TaskRouter(label) ==
    /\ Turn("task-router")
    /\ Shape(IF ModelOf(TaskOf(label)) = "" THEN request
             ELSE [request EXCEPT !.model = ModelOf(TaskOf(label))])

---------------------------------------------------------------------------
(* select-context.                                                         *)

SizeOf(messages) == FoldLeft(LAMBDA n, m : n + m.text.size, 0, messages)
Systems(messages) == SelectSeq(messages, LAMBDA m : m.role = "system")

\* Mutant: a newest message that does not fit is dropped like any other.
KeptStrictly(messages, budget) ==
    LET left == budget - SizeOf(Systems(messages))
        Older(s, i) == IF messages[i].role = "system" \/ s.full THEN s
                       ELSE IF messages[i].text.size <= s.left
                       THEN [left |-> s.left - messages[i].text.size, kept |-> s.kept \cup {i}, full |-> FALSE]
                       ELSE [s EXCEPT !.full = TRUE]
    IN FoldLeft(Older, [left |-> IF left < 0 THEN 0 ELSE left, kept |-> {}, full |-> FALSE],
                Reverse([i \in DOMAIN messages |-> i])).kept

\* keep_indices, of the others than the system's: from the newest on while they fit.
Kept(messages, budget) ==
    LET left == budget - SizeOf(Systems(messages))
        Older(s, i) == IF messages[i].role = "system" \/ s.full THEN s
                       ELSE IF messages[i].text.size <= s.left
                       THEN [left |-> s.left - messages[i].text.size, kept |-> s.kept \cup {i}, full |-> FALSE]
                       ELSE [s EXCEPT !.kept = IF @ = {} THEN {i} ELSE @, !.full = TRUE]
    IN FoldLeft(Older, [left |-> IF left < 0 THEN 0 ELSE left, kept |-> {}, full |-> FALSE],
                Reverse([i \in DOMAIN messages |-> i])).kept

Trimmed(messages, budget) ==
    IF SizeOf(messages) <= budget THEN messages
    ELSE LET keep == Kept(messages, budget) \cup {i \in DOMAIN messages : messages[i].role = "system"}
             indices == SelectSeq([i \in DOMAIN messages |-> i], LAMBDA i : i \in keep)
         IN [k \in DOMAIN indices |-> messages[indices[k]]]

Context ==
    /\ Turn("context")
    /\ Shape([request EXCEPT !.messages = Trimmed(@, setup.budget)])

---------------------------------------------------------------------------
(* The guardrails' review of texts.                                        *)

RulesOf(act) == SelectSeq(setup.rules, LAMBDA r : r.act = act)
Fires(rule, has) == rule.find \in has
IsBlocked(t) == \E i \in DOMAIN RulesOf("block") : Fires(RulesOf("block")[i], t.has)

\* Mutant: one rule to a text.
RedactedOnce(t) ==
    LET firing == SelectSeq(RulesOf("replace"), LAMBDA r : Fires(r, t.has))
    IN IF firing = <<>> THEN t ELSE [t EXCEPT !.has = (@ \ {firing[1].find}) \cup firing[1].with]

\* review_text, of a text no rule blocks: each rule is given what the ones before left.
Redacted(t) ==
    [t EXCEPT !.has = FoldLeft(LAMBDA has, r : IF Fires(r, has) THEN (has \ {r.find}) \cup r.with ELSE has,
                               @, RulesOf("replace"))]

\* A rule that cannot be read fails every dispatch.
ReviewContext ==
    /\ pc = "select-context" /\ Turn("guardrails")
    /\ IF ~setup.broken /\ \E i \in DOMAIN request.messages : IsBlocked(request.messages[i].text)
       THEN /\ pc' = "failed" /\ UNCHANGED <<setup, agentic, at, request, text, calls, sent, shown, cycles>>
       ELSE Shape(IF setup.broken THEN request
                  ELSE [request EXCEPT !.messages =
                          [i \in DOMAIN @ |-> [@[i] EXCEPT !.text = Redacted(@)]]])

\* At after-response and finalize.  post_phase does not look at the outcome: what is
\* blocked goes on as it is.
Review ==
    /\ pc \in {"after", "finalize"} /\ Turn("guardrails")
    /\ at' = at + 1
    /\ text' = IF setup.broken \/ IsBlocked(text) THEN text ELSE Redacted(text)
    /\ UNCHANGED <<setup, agentic, pc, request, calls, sent, shown, cycles>>

---------------------------------------------------------------------------
(* select-tools.                                                           *)

NamedIn(messages) == UNION {messages[i].text.names : i \in DOMAIN messages}

\* Taken in order while there are fewer than `most`.
Filled(keep, order, most) ==
    FoldLeft(LAMBDA k, t : IF Cardinality(k) < most THEN k \cup {t} ELSE k, keep, order)

\* rank::select; a tool's rank is how its description fits what the user says, of
\* those that fit at all.
Selected(named, ranked) ==
    LET most == setup.cut.most
        least == setup.cut.least
    IN IF most = 0 \/ most >= NTools THEN Tools
       ELSE Filled(Filled(named, ranked, most), [t \in Tools |-> t], least)

Rankings == UNION {SetToSeqs(s) : s \in SUBSET Tools}

ToolSelector(ranked) ==
    /\ Turn("tool-selector")
    /\ Shape(IF NTools = 0 THEN request
             ELSE [request EXCEPT !.tools = Selected(NamedIn(request.messages), ranked)])

---------------------------------------------------------------------------
(* The loop.                                                               *)

Complete(reply, called) ==
    /\ pc = "complete" /\ cycles < MaxCycles
    /\ sent' = request /\ cycles' = cycles + 1
    /\ text' = reply /\ calls' = called /\ pc' = "after" /\ at' = 1
    /\ UNCHANGED <<setup, agentic, request, shown>>

ReviewEnds == at = Len(Subscribed(pc)) + 1
Answered(r) == [r EXCEPT !.messages = Append(@, Said("assistant", "model", text))]

\* The reviewed text is added and shown; then tools are run, and their results added.
ToolRuns(result) ==
    /\ pc = "after" /\ ReviewEnds /\ calls /\ cycles < MaxCycles
    /\ request' = [Answered(request) EXCEPT !.messages = Append(@, Said("tool", "tool", result))]
    /\ shown' = shown \cup {text} /\ pc' = "complete" /\ at' = 1
    /\ UNCHANGED <<setup, agentic, text, calls, sent, cycles>>

\* A follow-up goes on with the request as it is.
FollowUp(said) ==
    /\ pc = "after" /\ ReviewEnds /\ ~calls /\ cycles < MaxCycles
    /\ request' = [Answered(request) EXCEPT !.messages = Append(@, Said("user", "follow-up", said))]
    /\ shown' = shown \cup {text} /\ pc' = "complete" /\ at' = 1
    /\ UNCHANGED <<setup, agentic, text, calls, sent, cycles>>

\* Nothing is left to do, or the turn is cut short.
LoopEnds ==
    /\ pc = "after" /\ ReviewEnds /\ (calls => cycles = MaxCycles)
    /\ request' = Answered(request)
    /\ shown' = shown \cup {text} /\ pc' = "finalize" /\ at' = 1
    /\ UNCHANGED <<setup, agentic, text, calls, sent, cycles>>

TurnEnds ==
    /\ pc = "finalize" /\ ReviewEnds /\ pc' = "answered" /\ shown' = shown \cup {text}
    /\ UNCHANGED <<setup, agentic, at, request, text, calls, sent, cycles>>

Next ==
    \/ \E history \in Histories, asked \in Texts : Begin(history, asked)
    \/ System \/ Persona \/ Context \/ ReviewContext \/ Review \/ ShapeEnds
    \/ \E label \in DOMAIN setup.routes \cup {"planning", "?"} : TaskRouter(label)
    \/ \E ranked \in Rankings : ToolSelector(ranked)
    \/ \E reply \in Texts, called \in BOOLEAN : Complete(reply, called)
    \/ \E t \in Texts : ToolRuns(t) \/ FollowUp(t)
    \/ LoopEnds \/ TurnEnds

Spec == Init /\ [][Next]_vars

---------------------------------------------------------------------------

Finds == {setup.rules[i].find : i \in DOMAIN setup.rules}
Reviewing == ~setup.broken /\ "guardrails" \in ToSet(setup.order)

\* Of a shaped turn nothing that was in the request when its context was selected, from
\* whomever, reaches a provider with a match of the operator's rules, in any cycle.
ContextIsReviewed ==
    agentic /\ Reviewing =>
        \A i \in DOMAIN sent.messages :
            sent.messages[i].from \in {"history", "asked", "prompt", "persona"} =>
                sent.messages[i].text.has \cap Finds = {}

\* What a client is shown, and later turns are told, has no match of a rule that
\* replaces, unless one that blocks matched as well, which then changes nothing.
ShownIsReviewed ==
    Reviewing => \A t \in shown : IsBlocked(t) \/ t.has \cap Finds = {}

\* However much is trimmed and whatever was put in front, a request has the instructions
\* first, if there are any, and the message it is about; and what it has of the session
\* is the end of it.
AskedIsSent ==
    sent # NoRequest =>
        LET m == sent.messages
            From(from) == {i \in DOMAIN m : m[i].from = from}
        IN /\ Cardinality(From("asked")) = 1
           /\ agentic /\ "system" \in ToSet(setup.order) /\ Resolved # <<>> => m[1].role = "system"
           /\ \A i \in From("asked"), j \in From("history") : j < i
           /\ \A i \in From("persona"), j \in From("history") : i < j

\* As much of the session is kept as fits, and no more; the newest message always.
ContextFits ==
    [][ pc = "select-context" /\ Turn("context") /\ request' # request =>
        LET all == SelectSeq(request.messages, LAMBDA m : m.role # "system")
            kept == SelectSeq(request'.messages, LAMBDA m : m.role # "system")
            n == Len(kept)
            room == setup.budget - SizeOf(Systems(request.messages))
        IN /\ n > 0 /\ kept = SubSeq(all, Len(all) - n + 1, Len(all))
           /\ SizeOf(kept) <= room \/ n = 1
           /\ n < Len(all) => SizeOf(SubSeq(all, Len(all) - n, Len(all))) > room
      ]_vars
==============================================================================
