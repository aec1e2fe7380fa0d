---------------------------- MODULE MCInstall ----------------------------
(* The installation of one name, the life of the runtime that boots and     *)
(* adopts what is installed, and a provider among what it started.  What    *)
(* Boot calls good or faulty Install does not look into, and Provider is    *)
(* one that started or did not, so a behaviour is one of one of the three.  *)
EXTENDS Install, Sequences, SequencesExt

\* Two builds under one name, only one of them signed, each with a manifest that
\* fits it alone; the index's way to install, a path with a signature, a path with
\* only a digest, and one with neither.
MCFits == {<<b, b>> : b \in Builds}
MCWays == [remote : {TRUE}, sha256 : Signed, unsigned : {FALSE}]
          \cup [remote : {FALSE}, sha256 : {None}, unsigned : BOOLEAN]
          \cup [remote : {FALSE}, sha256 : Builds \ Signed, unsigned : {TRUE}]

\* Two providers, a tool and a gate; an interceptor nobody has enabled, whose id comes
\* before the gate's.  One configuration has no interceptor, one cannot be parsed.
MCIds == <<"interceptor.audit", "interceptor.gate", "provider.a", "provider.b", "tool.t">>
MCCategoryOf ==
    [e \in ToSet(MCIds) |->
       CASE e \in {"interceptor.audit", "interceptor.gate"} -> "interceptor"
         [] e = "tool.t" -> "tool"
         [] OTHER -> "provider"]
Config(sound, enabled, chained) == [sound |-> sound, enabled |-> enabled, chain |-> chained]
MCConfigs ==
    {Config(TRUE, ToSet(MCIds) \ {"interceptor.audit"}, <<"provider.b", "provider.a", "provider.b">>),
     Config(TRUE, {"provider.a", "provider.b"}, <<"provider.x", "provider.b">>),
     Config(FALSE, {}, <<>>)}
Shipped == [e \in ToSet(MCIds) |-> IF e = "interceptor.audit" THEN "none" ELSE "good"]
MCDistributions ==
    {Shipped} \cup {[Shipped EXCEPT ![e] = x] :
                      e \in {"provider.a", "tool.t"}, x \in {"none", "faulty", "refused"}}

\* A provider's sections; requests without and with what a turn collects; replies.
MCSections == [baseUrl : BOOLEAN, secret : {"none", "S"}, key : {"k"}, model : {"", "m"}]
Message(role, content, id) == [role |-> role, content |-> content, id |-> id]
Begun == <<Message("user", "c1", "none")>>
Loop == <<Message("system", "s", "none"), Message("user", "c1", "none"),
          Message("assistant", "c2", "none"), Message("tool", "c3", "a"), Message("tool", "c4", "b")>>
MCRequests == [model : {"", "m2"}, tools : {<<>>}, max : {"none"}, grammar : {"none"},
               messages : {Begun, Loop}]
Chosen(content, calls, finish) ==
    [json |-> TRUE, choice |-> TRUE, content |-> content, calls |-> calls, finish |-> finish]
MCOpenAiReplies ==
    {[json |-> FALSE], [json |-> TRUE, choice |-> FALSE], Chosen("", <<"a", "b">>, "none"),
     Chosen("simple", <<>>, "length"), Chosen("agentic", <<"a">>, "stop")}
Block(type, what) == [type |-> type, what |-> what]
Blocks(blocks, stop) ==
    [json |-> TRUE, error |-> "none", content |-> TRUE, blocks |-> blocks, stop |-> stop]
Refusal(e) == [json |-> TRUE, error |-> e, content |-> FALSE, blocks |-> <<>>, stop |-> "none"]
MCAnthropicReplies ==
    {Refusal(e) : e \in {"none", "permission_error", "rate_limit_error", "overloaded_error"}}
      \cup {[json |-> FALSE, blocks |-> <<>>],
            Blocks(<<Block("text", "simple"), Block("thinking", ""), Block("text", "agentic")>>, "end_turn"),
            Blocks(<<Block("text", ""), Block("tool_use", "a"), Block("text", "x"), Block("tool_use", "b")>>,
                   "tool_use"),
            Blocks(<<Block("text", "simple")>>, "max_tokens")}

VARIABLES
    part,       \* "install", "boot" or "provider"
    config, disk, verified, command, chain, extensions, agents, installed,
    edits, installs, runs, booted, vouched,
    kind, section, env, user, state, made, pconfig, streams, next, ppc, pcall, handle, done,
    result, sent, intent

B == INSTANCE Boot WITH
    Ids <- MCIds, CategoryOf <- MCCategoryOf, Configs <- MCConfigs,
    Distributions <- MCDistributions, Sessions <- {1, 2},
    MaxEdits <- 1, MaxInstalls <- 2, MaxRuns <- 2

P == INSTANCE Provider WITH
    Sections <- MCSections, Requests <- MCRequests, OpenAiReplies <- MCOpenAiReplies,
    AnthropicReplies <- MCAnthropicReplies, HandleCount <- 2, MaxCalls <- 3,
    config <- pconfig, pc <- ppc, call <- pcall

providervars == <<kind, section, env, user, state, made, pconfig, streams, next, ppc, pcall,
                  handle, done, result, sent, intent>>

bootvars == <<config, disk, verified, command, chain, extensions, agents, installed,
              edits, installs, runs, booted, vouched>>

\* Those that do not move begin in one of their initial states.
EitherInit ==
    /\ part \in {"install", "boot", "provider"} /\ Init /\ B!Init /\ P!Init
    /\ part # "boot" => config.chain = <<>> /\ disk = Shipped
    /\ part # "provider" =>
         /\ kind = "openai" /\ user = "turn" /\ env = {}
         /\ section = [baseUrl |-> TRUE, secret |-> "none", key |-> "k", model |-> "m"]
    /\ part # "install" =>
         /\ \E b \in Signed : source = [f \in Files |-> b]
         /\ way = [c \in Calls |-> [remote |-> FALSE, sha256 |-> None, unsigned |-> FALSE]]

I(step) == part = "install" /\ step /\ UNCHANGED <<part, bootvars, providervars>>
R(step) == part = "boot" /\ step /\ UNCHANGED <<part, vars, providervars>>
M(step) == part = "provider" /\ step /\ UNCHANGED <<part, vars, bootvars>>

EitherNext ==
    \/ I(SourceReplaced) \/ I(AdoptRead) \/ I(AdoptInspect)
    \/ \E c \in Calls :
        \/ I(Begin(c)) \/ I(Check(c)) \/ I(Wipe(c)) \/ I(VerifyDigest(c))
        \/ I(CheckStructure(c)) \/ I(LandFirst(c)) \/ I(LandSecond(c)) \/ I(Clean(c))
        \/ I(Crash(c))
        \/ \E f \in Files : I(Fetch(c, f)) \/ I(Copy(c, f)) \/ I(VerifySignature(c, f))
    \/ \E r \in Removes :
        \/ I(RemoveBegins(r)) \/ I(RemoveComponent(r)) \/ I(RemoveManifest(r)) \/ I(RemoveDies(r))
    \/ R(B!Verify) \/ R(B!Serve) \/ R(B!Stop)
    \/ \E s \in {1, 2} :
        \/ R(B!Rpc(s)) \/ R(B!BuildAgent(s)) \/ R(B!AfterTurn(s))
        \/ \E e \in ToSet(MCIds), x \in {"good", "faulty"} : R(B!InstallTool(s, e, x))
    \/ \E c \in MCConfigs : R(B!EditConfig(c))
    \/ \E put \in MCDistributions : R(B!PutComponents(put))
    \/ M(P!Instantiate) \/ M(P!NextChunk) \/ M(P!CloseStream) \/ M(P!Trap) \/ M(P!Classified)
    \/ \E r \in MCRequests : user = "turn" /\ M(P!Complete(r))
    \/ \E e \in P!WireErrors : M(P!FetchFails(e))
    \/ \E b \in MCOpenAiReplies : kind = "openai" /\ M(P!Fetched(b))
    \/ \E b \in MCAnthropicReplies : kind = "anthropic" /\ M(P!Fetched(b))
    \/ \E prompt \in P!Prompts : M(P!ClassifyAtOnce(prompt)) \/ M(P!AskClassifier(prompt))

EitherSpec ==
    /\ EitherInit /\ [][EitherNext]_<<part, vars, bootvars, providervars>>
    /\ WF_vars(part = "install" /\ Adopt)

\* The runtime's properties, by the names Boot gives them.
RuntimeTypes == B!TypeOK
VerifiedIsServed == B!VerifiedIsServed
ChainAsConfigured == B!ChainAsConfigured
GateKeepsItsOrder == B!GateKeepsItsOrder
FailsAtBoot == B!FailsAtBoot
ClassifierHeadsTheChain == B!ClassifierHeadsTheChain
LandedIsAdopted == B!LandedIsAdopted

\* The provider's.
ProviderTypes == P!TypeOK
CompletionIsWhole == P!CompletionIsWhole
NoStreamLeft == P!NoStreamLeft
NothingUnsaid == P!NothingUnsaid
InlineIsSure == P!InlineIsSure
==========================================================================
