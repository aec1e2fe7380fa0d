------------------------------ MODULE Provider ------------------------------
(***************************************************************************)
(* A provider extension and the completer around it: what of a request     *)
(* reaches the endpoint, how the endpoint's reply becomes a completion,    *)
(* the streams the guest keeps in between, and the intent router's use of  *)
(* a provider as its classifier.  Modelled from                            *)
(* pkgs/extensions/provider-openai and provider-anthropic,                 *)
(* pkgs/host/wasm/src/route.rs and lib.rs, and                             *)
(* pkgs/extensions/interceptor-intent-router.                              *)
(*                                                                         *)
(* A guest that traps cannot be entered again.  What lies between the      *)
(* guest and the endpoint is Egress.                                       *)
(***************************************************************************)
EXTENDS Integers, Sequences, FiniteSets, SequencesExt

CONSTANTS
    Sections,         \* an instance's section of config.yaml
    Requests,         \* what a turn assembles
    OpenAiReplies,    \* JSON bodies of 2xx replies of an OpenAI-compatible endpoint
    AnthropicReplies, \* and of Anthropic's
    HandleCount,      \* stream handles wrap around after so many
    MaxCalls          \* bound: completions asked for

VARIABLES
    kind,      \* which build: "openai" or "anthropic"
    section,   \* its section
    env,       \* the secrets the environment has
    user,      \* whose completer it is: a "turn"'s chain, or the "router"'s classifier
    state,     \* "absent", "rejected", "up", or "trapped"
    config,    \* CONFIG: what init made of the section
    streams,   \* STREAMS: chunks by handle
    next,      \* NEXT_HANDLE
    pc,        \* the completer: "idle", "fetching", "reading", "closing"; "answered": to the router
    call,      \* what is asked, and what the endpoint replied
    handle, done, result,   \* of ProviderCompleter::complete
    sent,      \* the last request to the endpoint, and what it is made of
    intent,    \* the router's last decision, "phrase" one of its heuristics
    made       \* completions asked for

instance == <<kind, section, env, user>>
vars == <<instance, state, config, streams, next, pc, call, handle, done, result, sent, intent, made>>

Unset == "none"
Nothing == [text |-> <<>>, calls |-> <<>>, finish |-> ""]
NoReply == [none |-> TRUE]
NoRequest == [none |-> TRUE]
Errors == {"auth", "model", "limited", "unreachable", "transient", "trapped"}
WireErrors == {"invalid-url", "connection", "timeout", "tls", "backend",
               "400", "401", "403", "404", "429", "500"}

TypeOK ==
    /\ kind \in {"openai", "anthropic"} /\ section \in Sections
    /\ state \in {"absent", "rejected", "up", "trapped"}
    /\ \A h \in DOMAIN streams : h \in 0..HandleCount - 1
    /\ next \in 0..HandleCount - 1
    /\ pc \in {"idle", "fetching", "reading", "closing", "answered"}
    /\ result.error \in Errors \cup {Unset}
    /\ intent \in {Unset, "phrase", "simple", "agentic"}
    /\ made \in 0..MaxCalls

Init ==
    /\ kind \in {"openai", "anthropic"} /\ section \in Sections
    /\ env \in SUBSET ({section.secret} \ {Unset}) /\ user \in {"turn", "router"}
    /\ state = "absent" /\ config = [key |-> "", model |-> ""]
    /\ streams = <<>> /\ next = 1
    /\ pc = "idle" /\ call = [request |-> NoRequest, reply |-> NoReply]
    /\ handle = 0 /\ done = Nothing /\ result = [error |-> Unset, completion |-> Nothing]
    /\ sent = NoRequest /\ intent = Unset /\ made = 0

---------------------------------------------------------------------------
(* Starting an instance.                                                   *)

\* host-secrets: the environment, for any name.
IsSet(secret) == secret \in env

\* api-key-secret names a variable; one that is not set leaves the plain key.
AnthropicConfig ==
    [key |-> IF IsSet(section.secret) THEN section.secret ELSE section.key, model |-> section.model]

\* The same, and without a base-url it does not start.
OpenAiAccepts == section.baseUrl
OpenAiConfig == AnthropicConfig

\* instantiate_provider: init, and start.
Instantiate ==
    /\ state = "absent"
    /\ IF kind = "openai" /\ ~OpenAiAccepts
       THEN state' = "rejected" /\ UNCHANGED config
       ELSE state' = "up" /\ config' = IF kind = "openai" THEN OpenAiConfig ELSE AnthropicConfig
    /\ UNCHANGED <<instance, streams, next, pc, call, handle, done, result, sent, intent, made>>

---------------------------------------------------------------------------
(* What is sent.                                                           *)

OpenAiBody(model, r) ==
    [model |-> model, messages |-> r.messages, tools |-> r.tools, max |-> r.max,
     grammar |-> r.grammar, stream |-> FALSE]

\* A result is content of the user's, under the id of its call.
AnthropicMessage(m) ==
    CASE m.role = "tool" -> [role |-> "user", result |-> m.id, content |-> m.content]
      [] m.role = "system" -> [role |-> "user", result |-> Unset, content |-> m.content]
      [] OTHER -> [role |-> m.role, result |-> Unset, content |-> m.content]

SystemsOf(messages) == SelectSeq(messages, LAMBDA m : m.role = "system")

\* Mutant: what the user says is kept, results are not.
ConversationSaid(messages) == SelectSeq(messages, LAMBDA m : m.role \notin {"system", "tool"})

Conversation(messages) == SelectSeq(messages, LAMBDA m : m.role # "system")

\* The first system message is `system`; there is no grammar, and always a maximum.
AnthropicBody(model, r) ==
    [model |-> model,
     max |-> IF r.max = Unset THEN "8192" ELSE r.max,
     system |-> IF SystemsOf(r.messages) = <<>> THEN Unset ELSE SystemsOf(r.messages)[1].content,
     messages |-> [i \in DOMAIN Conversation(r.messages) |->
                      AnthropicMessage(Conversation(r.messages)[i])],
     tools |-> r.tools]

ModelFor(r) == IF r.model = "" THEN config.model ELSE r.model

\* Requests as the two guests make them: what of, with which key.
OpenAiSends(r) == [of |-> r, key |-> config.key, body |-> OpenAiBody(ModelFor(r), r)]
AnthropicSends(r) == [of |-> r, key |-> config.key, body |-> AnthropicBody(ModelFor(r), r)]

Ended == IF user = "router" THEN "answered" ELSE "idle"
Fails(error) ==
    /\ pc' = Ended /\ result' = [error |-> error, completion |-> Nothing]

\* Completer::complete, up to the guest's request.
Complete(r) ==
    /\ state \in {"up", "trapped"} /\ pc = "idle" /\ made < MaxCalls
    /\ made' = made + 1
    /\ call' = [request |-> r, reply |-> NoReply]
    /\ done' = Nothing /\ intent' = Unset
    /\ CASE state = "trapped" -> Fails("trapped") /\ UNCHANGED sent
         [] state = "up" /\ ModelFor(r) = "" -> Fails("model") /\ UNCHANGED sent
         [] OTHER -> /\ pc' = "fetching" /\ UNCHANGED result
                     /\ sent' = IF kind = "openai" THEN OpenAiSends(r) ELSE AnthropicSends(r)
    /\ UNCHANGED <<instance, state, config, streams, next, handle>>

---------------------------------------------------------------------------
(* What comes back.                                                        *)

MapHttpError(e) ==
    CASE e \in {"401", "403"} -> "auth"
      [] e = "404" -> "model"
      [] e = "429" -> "limited"
      [] e \in {"connection", "timeout", "tls"} -> "unreachable"
      [] OTHER -> "transient"

Text(t) == [kind |-> "text", what |-> t]
ToolCall(id) == [kind |-> "call", what |-> id]
Done(reason) == [kind |-> "done", what |-> reason]

\* Chunks, or an error.
OpenAiParsed(b) ==
    IF ~b.json \/ ~b.choice THEN [error |-> "transient", chunks |-> <<>>]
    ELSE [error |-> Unset,
          chunks |-> (IF b.content = "" THEN <<>> ELSE <<Text(b.content)>>)
                     \o [i \in DOMAIN b.calls |-> ToolCall(b.calls[i])]
                     \o <<Done(IF b.finish = Unset THEN "stop" ELSE b.finish)>>]

\* Mutant: only the use of a tool is told from other ends.
FinishOfTools(stop) == IF stop = "tool_use" THEN "tool-calls" ELSE "stop"

FinishOf(stop) ==
    CASE stop = "tool_use" -> "tool-calls"
      [] stop = "max_tokens" -> "length"
      [] OTHER -> "stop"

AnthropicParsed(b) ==
    LET told == SelectSeq(b.blocks, LAMBDA x : x.type = "tool_use" \/ (x.type = "text" /\ x.what # ""))
    IN CASE ~b.json -> [error |-> "transient", chunks |-> <<>>]
         [] b.json /\ b.error # Unset ->
              [error |-> CASE b.error \in {"authentication_error", "permission_error"} -> "auth"
                           [] b.error = "rate_limit_error" -> "limited"
                           [] OTHER -> "transient",
               chunks |-> <<>>]
         [] b.json /\ b.error = Unset /\ ~b.content -> [error |-> "transient", chunks |-> <<>>]
         [] OTHER ->
              [error |-> Unset,
               chunks |-> [i \in DOMAIN told |-> IF told[i].type = "text" THEN Text(told[i].what)
                                                 ELSE ToolCall(told[i].what)]
                          \o <<Done(FinishOf(b.stop))>>]

Parsed(b) == IF kind = "openai" THEN OpenAiParsed(b) ELSE AnthropicParsed(b)
Replies == IF kind = "openai" THEN OpenAiReplies ELSE AnthropicReplies

FetchFails(e) ==
    /\ pc = "fetching" /\ Fails(MapHttpError(e))
    /\ UNCHANGED <<instance, state, config, streams, next, call, handle, done, sent, intent, made>>

Fetched(b) ==
    /\ pc = "fetching" /\ call' = [call EXCEPT !.reply = b]
    /\ IF Parsed(b).error # Unset
       THEN Fails(Parsed(b).error) /\ UNCHANGED <<streams, next, handle>>
       ELSE /\ pc' = "reading" /\ UNCHANGED result
            /\ handle' = next /\ next' = (next + 1) % HandleCount
            /\ streams' = [h \in DOMAIN streams \cup {next} |->
                             IF h = next THEN Parsed(b).chunks ELSE streams[h]]
    /\ UNCHANGED <<instance, state, config, done, sent, intent, made>>

\* Mutant: the last one first.
PoppedBack(chunks) == <<chunks[Len(chunks)], SubSeq(chunks, 1, Len(chunks) - 1)>>

\* VecDeque::pop_front: what is popped, and the rest.
Popped(chunks) == <<Head(chunks), Tail(chunks)>>

Collected(c, chunk) ==
    CASE chunk.kind = "text" -> [c EXCEPT !.text = Append(@, chunk.what)]
      [] chunk.kind = "call" -> [c EXCEPT !.calls = Append(@, chunk.what)]
      [] chunk.kind = "done" -> [c EXCEPT !.finish = chunk.what]

\* next_chunk, and the completer's loop, which ends at Done or with the chunks.
NextChunk ==
    /\ pc = "reading" /\ state = "up"
    /\ IF handle \in DOMAIN streams /\ streams[handle] # <<>>
       THEN LET popped == Popped(streams[handle])
            IN /\ streams' = [streams EXCEPT ![handle] = popped[2]]
               /\ done' = Collected(done, popped[1])
               /\ pc' = IF popped[1].kind = "done" THEN "closing" ELSE pc
       ELSE pc' = "closing" /\ UNCHANGED <<streams, done>>
    /\ UNCHANGED <<instance, state, config, next, call, handle, result, sent, intent, made>>

\* Mutant: a stream read to its end is taken for closed.
DroppedIfUnread(h) ==
    IF streams[h] = <<>> THEN streams ELSE [x \in DOMAIN streams \ {h} |-> streams[x]]

Dropped(h) == [x \in DOMAIN streams \ {h} |-> streams[x]]

\* close_stream, which a guest that trapped does not do: the completion is whatever
\* was read.
CloseStream ==
    /\ pc = "closing" /\ pc' = Ended /\ result' = [error |-> Unset, completion |-> done]
    /\ streams' = IF state = "up" THEN Dropped(handle) ELSE streams
    /\ UNCHANGED <<instance, state, config, next, call, handle, done, sent, intent, made>>

\* A trap while completing is an error, one between two chunks the end of the reply.
Trap ==
    /\ state = "up" /\ pc \in {"fetching", "reading"} /\ state' = "trapped"
    /\ IF pc = "fetching" THEN Fails("trapped") ELSE pc' = "closing" /\ UNCHANGED result
    /\ UNCHANGED <<instance, config, streams, next, call, handle, done, sent, intent, made>>

---------------------------------------------------------------------------
(* The intent router, whose classifier is a provider instance of its own.  *)

ClassifierRequest ==
    [model |-> "", tools |-> <<>>, max |-> "4", grammar |-> "labels",
     messages |-> <<[role |-> "system", content |-> "instructions", id |-> Unset],
                    [role |-> "user", content |-> "prompt", id |-> Unset]>>]

\* classifier_fn: a failure is labelled as the longer way.
Label(r) == IF r.error = Unset THEN r.completion.text ELSE <<"agentic">>

\* Mutant: the first label that is found.
ParseIntentEager(text) == IF "simple" \in ToSet(text) THEN "simple" ELSE "agentic"

ParseIntent(text) ==
    IF "agentic" \in ToSet(text) THEN "agentic"
    ELSE IF "simple" \in ToSet(text) THEN "simple" ELSE "agentic"

\* Prompts, by their language and by what is left of them in lower case and without
\* punctuation: nothing, a phrase of the list, a greeting and more, or something else.
Prompts == [foreign : BOOLEAN, words : {"nothing", "phrase", "greeting", "other"}]
IsHeuristicEligible(prompt) == ~prompt.foreign
IsSimple(prompt) == prompt.words \in {"nothing", "phrase", "greeting"}
Settled(prompt) == IsHeuristicEligible(prompt) /\ IsSimple(prompt)

\* The heuristics settle it, or there is no provider to ask.
ClassifyAtOnce(prompt) ==
    /\ user = "router" /\ pc = "idle" /\ (Settled(prompt) \/ state \in {"absent", "rejected"})
    /\ intent' = IF Settled(prompt) THEN "phrase" ELSE ParseIntent(<<"agentic">>)
    /\ UNCHANGED <<instance, state, config, streams, next, pc, call, handle, done, result, sent, made>>

AskClassifier(prompt) == user = "router" /\ ~Settled(prompt) /\ Complete(ClassifierRequest)

\* Whether the message is answered without the loop.
Blocks(i) == i \in {"phrase", "simple"}

\* llm_classify: the host's stream has the label and an end, which drain_text reads.
Classified ==
    /\ pc = "answered" /\ pc' = "idle" /\ intent' = ParseIntent(Label(result))
    /\ UNCHANGED <<instance, state, config, streams, next, call, handle, done, result, sent, made>>

Next ==
    \/ Instantiate
    \/ \E r \in Requests : user = "turn" /\ Complete(r)
    \/ \E e \in WireErrors : FetchFails(e)
    \/ \E b \in Replies : Fetched(b)
    \/ NextChunk \/ CloseStream \/ Trap
    \/ \E prompt \in Prompts : ClassifyAtOnce(prompt) \/ AskClassifier(prompt)
    \/ Classified

Spec == Init /\ [][Next]_vars

---------------------------------------------------------------------------

RanOut(reason) == reason \in {"length", "max_tokens"}

\* What the endpoint's reply says, by the endpoint's own format.
Said(b) ==
    IF kind = "openai"
    THEN [text |-> IF b.content = "" THEN <<>> ELSE <<b.content>>, calls |-> b.calls,
          ranOut |-> RanOut(b.finish)]
    ELSE [text |-> [i \in DOMAIN SelectSeq(b.blocks, LAMBDA x : x.type = "text" /\ x.what # "") |->
                       SelectSeq(b.blocks, LAMBDA x : x.type = "text" /\ x.what # "")[i].what],
          calls |-> [i \in DOMAIN SelectSeq(b.blocks, LAMBDA x : x.type = "tool_use") |->
                       SelectSeq(b.blocks, LAMBDA x : x.type = "tool_use")[i].what],
          ranOut |-> RanOut(b.stop)]

Answered == pc \in {"idle", "answered"} /\ state = "up" /\ call.reply # NoReply /\ result.error = Unset

\* A completion is the whole of the reply to its own request, text and calls in the
\* order of the reply, and says that the model ran out of room if and only if it did;
\* unless the guest trapped between two chunks.
CompletionIsWhole ==
    Answered =>
        /\ result.completion.text = Said(call.reply).text
        /\ result.completion.calls = Said(call.reply).calls
        /\ RanOut(result.completion.finish) <=> Said(call.reply).ranOut

\* Between two completions a guest that can still be entered keeps no stream: what a
\* turn never reads would stay for the agent's life.
NoStreamLeft == pc \in {"idle", "answered"} /\ state # "trapped" => streams = <<>>

\* Every message of the turn reaches the endpoint, in its order, results under the ids
\* of their calls, if there is one system message at most.
NothingUnsaid ==
    sent # NoRequest =>
        LET said == sent.of.messages
            body == sent.body
        IN IF kind = "openai" THEN body.messages = said
           ELSE /\ Len(body.messages) + Len(SystemsOf(said)) = Len(said)
                /\ \A i \in DOMAIN said : said[i].role = "system" => body.system = said[i].content
                /\ \A i \in DOMAIN body.messages :
                      LET m == SelectSeq(said, LAMBDA x : x.role # "system")[i]
                      IN body.messages[i].content = m.content /\ body.messages[i].result = m.id

\* A message is answered without the loop only if a phrase settles it, or the model's
\* reply was read to its end and names the short way and not the long one, "wrongly
\* skipping the loop is worse than an extra one".
InlineIsSure ==
    Blocks(intent) /\ intent # "phrase" /\ state = "up" =>
        /\ "simple" \in ToSet(Said(call.reply).text)
        /\ "agentic" \notin ToSet(Said(call.reply).text)
=============================================================================
