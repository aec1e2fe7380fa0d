--------------------------------- MODULE Turn ---------------------------------
(***************************************************************************)
(* One turn of the conductor: the phases dispatched to the interceptors,   *)
(* the provider chain with its retries, the tool calls and the follow-ups, *)
(* and the rows the persisting sink and driver log on the way.             *)
(* Modelled from pkgs/host/agent/src/conductor.rs, Dispatcher::dispatch    *)
(* (pkgs/host/protocol/src/intercept.rs), run_and_persist                  *)
(* (pkgs/host/agent/src/lib.rs) and PersistingSink/PersistingDriver        *)
(* (pkgs/host/session/src/event_log.rs).                                   *)
(*                                                                         *)
(* The turn runs on one thread; what races with it is the client, which    *)
(* may go away or cancel at any time.  Texts are abstracted to empty or    *)
(* not, a call to its position in the completion (interceptors may rewrite *)
(* its id).  A `replace` by an interceptor is a `proceed` wherever the     *)
(* replaced data are not told apart here.                                  *)
(***************************************************************************)
EXTENDS Integers, FiniteSets

CONSTANTS
    NInterceptors,   \* interceptors, numbered in load order
    Subscribers,     \* phase -> the interceptors subscribed to it
    NProviders,      \* length of the provider fallback chain
    MaxRetries,      \* MAX_RETRIES
    MaxIterations,   \* limits.max-iterations
    Sinks,           \* per surface, the events on which its sink reports a lost client
    NoCall,          \* no tool call
    MaxCalls,        \* bound: tool calls in one completion
    MaxAsks          \* bound: prompts in one turn

Interceptors == 1..NInterceptors
Shaping == {"select-model", "select-context", "select-tools"}
Phases == Shaping \cup {"before-loop", "after-response", "tool-call", "tool-result",
                        "prepare-next-turn", "finalize"}
Calls == 1..MaxCalls

ASSUME TurnAssumption ==
    /\ NInterceptors \in Nat /\ NProviders \in Nat /\ MaxRetries \in Nat
    /\ MaxIterations \in Nat /\ MaxCalls \in Nat /\ MaxAsks \in Nat
    /\ Subscribers \in [Phases -> SUBSET Interceptors]
    /\ Sinks \subseteq SUBSET {"text-delta", "tool-invoked", "tool-result"}
    /\ NoCall \notin Calls

\* A sink that reports a lost client when a call is announced reports it on the result too:
\* those of SSE and RPC report on every event, that of ACP on text only, the others never.
ASSUME SinksAssumption == \A sink \in Sinks : "tool-invoked" \in sink => "tool-result" \in sink

VARIABLES
    pc,          \* where the conductor is; answered or failed at the end
    phase,       \* the phase being dispatched
    hook,        \* the interceptor whose turn it is in this dispatch
    blocked,     \* whether this dispatch was blocked
    approved,    \* interceptors that let this dispatch proceed
    provider,    \* position in the fallback chain
    attempt,     \* retries of a malformed completion so far
    iterations,  \* ReAct cycles so far
    calls,       \* tool calls of the last completion
    k,           \* the tool call at hand
    open,        \* the tool call logged as invoked, without a result yet
    stop,        \* ToolPass: continue, terminated or cancelled
    text,        \* the text of the last response: empty or not
    marked,      \* the note that the turn is incomplete: no, yes or replaced with the text it was in
    gone,        \* the client disconnected or cancelled
    reports,     \* the events on which this turn's sink returns Flow::Stop once `gone`
    row,         \* the last row logged
    asks,        \* prompts so far
    completions, \* history: completions the conductor accepted
    stopSeen,    \* history: an emit whose flow counts returned Stop
    unheard      \* history: a follow-up was taken that no completion has seen

vars == <<pc, phase, hook, blocked, approved, provider, attempt, iterations, calls, k, open,
          stop, text, marked, gone, reports, row, asks, completions, stopSeen, unheard>>

dispatching == <<phase, hook, blocked, approved>>
completing  == <<provider, attempt, completions>>
passing     == <<calls, k, open, stop>>
history     == <<stopSeen, unheard>>
client      == <<gone, reports>>

-----------------------------------------------------------------------------
(* Rows and dispatches. *)

RowKinds == {"none", "user-message", "ask", "answer", "warning", "text-delta", "follow-up",
             "tool-invoked", "tool-result", "done"}
Rows == [kind : RowKinds, call : Calls \cup {NoCall}]

\* PersistingSink::emit and PersistingDriver log a row, then pass it on.
Log(kind, call) == row' = [kind |-> kind, call |-> call]

\* The Flow of an event the sink passed on.
Stopped(kind) == gone /\ kind \in reports

\* An emit whose Flow the conductor heeds.
Emit(kind, call) == Log(kind, call) /\ stopSeen' = (stopSeen \/ Stopped(kind))

Enter(p) ==
    /\ pc' = "dispatch" /\ phase' = p
    /\ hook' = 1 /\ blocked' = FALSE /\ approved' = {}

\* The next subscribed interceptor, in load order.
Consults(i) ==
    /\ i \in Subscribers[phase] /\ i >= hook
    /\ \A j \in Subscribers[phase] : j < hook \/ j >= i

\* Dispatcher::dispatch returned.
Over(p) ==
    /\ pc = "dispatch" /\ phase = p
    /\ blocked \/ \A i \in Subscribers[p] : i < hook

Init ==
    /\ pc = "dispatch" /\ phase = "before-loop" /\ hook = 1 /\ blocked = FALSE /\ approved = {}
    /\ provider = 1 /\ attempt = 0 /\ iterations = 0
    /\ calls = 0 /\ k = 0 /\ open = NoCall /\ stop = "continue"
    /\ text = "empty" /\ marked = "no"
    /\ gone = FALSE /\ reports \in Sinks
    /\ row = [kind |-> "none", call |-> NoCall]
    /\ asks = 0 /\ completions = 0 /\ stopSeen = FALSE /\ unheard = FALSE

-----------------------------------------------------------------------------
(* Dispatcher::dispatch, one interceptor at a time. *)

Proceed ==
    /\ pc = "dispatch" /\ ~blocked
    /\ \E i \in Interceptors : /\ Consults(i)
                               /\ hook' = i + 1
                               /\ approved' = approved \cup {i}
    /\ UNCHANGED <<pc, phase, blocked, completing, iterations, passing, text, marked, client, row,
                   asks, history>>

\* A replaced response may have lost or gained its text.
ReplaceResponse ==
    /\ pc = "dispatch" /\ phase = "after-response" /\ ~blocked
    /\ \E i \in Interceptors : /\ Consults(i)
                               /\ hook' = i + 1
                               /\ approved' = approved \cup {i}
    /\ text' \in {"empty", "some"}
    /\ UNCHANGED <<pc, phase, blocked, completing, iterations, passing, marked, client, row, asks,
                   history>>

\* At finalize another text, or a state of another phase, takes the note away with the answer
\* it was appended to.
ReplaceAnswer ==
    /\ pc = "dispatch" /\ phase = "finalize" /\ ~blocked
    /\ \E i \in Interceptors : /\ Consults(i)
                               /\ hook' = i + 1
                               /\ approved' = approved \cup {i}
    /\ marked' = IF marked = "no" THEN "no" ELSE "replaced"
    /\ UNCHANGED <<pc, phase, blocked, completing, iterations, passing, text, client, row, asks,
                   history>>

Block ==
    /\ pc = "dispatch" /\ ~blocked
    /\ \E i \in Interceptors : Consults(i)
    /\ blocked' = TRUE
    /\ UNCHANGED <<pc, phase, hook, approved, completing, iterations, passing, text, marked, client,
                   row, asks, history>>

\* Mutant: an interceptor that fails is skipped at every phase.
FailOpen ==
    /\ pc = "dispatch" /\ ~blocked
    /\ \E i \in Interceptors : Consults(i) /\ hook' = i + 1
    /\ UNCHANGED <<pc, phase, blocked, approved, completing, iterations, passing, text, marked,
                   client, row, asks, history>>

\* An interceptor that fails blocks a tool call and is skipped anywhere else.
Fail ==
    /\ pc = "dispatch" /\ ~blocked
    /\ \E i \in Interceptors :
         /\ Consults(i)
         /\ IF phase = "tool-call"
            THEN blocked' = TRUE /\ hook' = hook
            ELSE hook' = i + 1 /\ blocked' = blocked
    /\ UNCHANGED <<pc, phase, approved, completing, iterations, passing, text, marked, client, row,
                   asks, history>>

\* Decision::Ask, or a tool's invoke-asking: the turn blocks on the driver.
Ask ==
    /\ asks < MaxAsks
    /\ \/ pc = "dispatch" /\ ~blocked /\ (\E i \in Interceptors : Consults(i)) /\ pc' = "asking"
       \/ pc = "invoke" /\ pc' = "tool-asking"
    /\ asks' = asks + 1
    /\ Log("ask", NoCall)
    /\ UNCHANGED <<dispatching, completing, iterations, passing, text, marked, client, history>>

\* The answer, or the default: the same interceptor, or the tool, is invoked again with it.
Answer ==
    /\ \/ pc = "asking" /\ pc' = "dispatch"
       \/ pc = "tool-asking" /\ pc' = "invoke"
    /\ Log("answer", NoCall)
    /\ UNCHANGED <<dispatching, completing, iterations, passing, text, marked, client, asks, history>>

-----------------------------------------------------------------------------
(* The conductor. *)

\* build_initial_request: a blocked before-loop only skips the shaping.
BeforeLoopDone ==
    /\ Over("before-loop")
    /\ Log("user-message", NoCall)
    /\ IF blocked THEN pc' = "complete" /\ UNCHANGED dispatching ELSE Enter("select-model")
    /\ UNCHANGED <<completing, iterations, passing, text, marked, client, asks, history>>

\* shape: blocked, or left with a state of another phase, the turn fails without an event.
ShapeFails ==
    /\ \E p \in Shaping : Over(p)
    /\ blocked \/ approved # {}
    /\ pc' = "failed"
    /\ UNCHANGED <<dispatching, completing, iterations, passing, text, marked, client, row, asks, history>>

ShapeDone ==
    /\ \E p \in Shaping : Over(p)
    /\ ~blocked
    /\ CASE phase = "select-model"   -> Enter("select-context")
         [] phase = "select-context" -> Enter("select-tools")
         [] phase = "select-tools"   -> pc' = "complete" /\ UNCHANGED dispatching
    /\ UNCHANGED <<completing, iterations, passing, text, marked, client, row, asks, history>>

\* complete_with_fallback: a provider fails, the next is tried; its warning's flow is ignored.
ProviderFails ==
    /\ pc = "complete" /\ provider < NProviders
    /\ provider' = provider + 1
    /\ Log("warning", NoCall)
    /\ UNCHANGED <<pc, dispatching, attempt, completions, iterations, passing, text, marked, client,
                   asks, history>>

\* Mutant: a malformed completion does not count as an attempt.
MalformedForever ==
    /\ pc = "complete" /\ provider <= NProviders /\ attempt < MaxRetries
    /\ provider' = 1
    /\ Log("warning", NoCall)
    /\ UNCHANGED <<pc, dispatching, attempt, completions, iterations, passing, text, marked, client,
                   asks, history>>

\* validate finds the arguments are not JSON: the whole chain is asked again with a correction.
Malformed ==
    /\ pc = "complete" /\ provider <= NProviders /\ attempt < MaxRetries
    /\ attempt' = attempt + 1
    /\ provider' = 1
    /\ Log("warning", NoCall)
    /\ UNCHANGED <<pc, dispatching, completions, iterations, passing, text, marked, client, asks,
                   history>>

\* The last provider failed, there is none, or the last retry is malformed too.
CompletionFails ==
    /\ pc = "complete"
    /\ provider >= NProviders \/ attempt = MaxRetries
    /\ pc' = "failed"
    /\ Log("warning", NoCall)
    /\ UNCHANGED <<dispatching, completing, iterations, passing, text, marked, client, asks, history>>

\* A completion is accepted; one cut off at the token limit only adds a warning.
Complete ==
    /\ pc = "complete" /\ provider <= NProviders
    /\ calls' \in 0..MaxCalls
    /\ text' \in {"empty", "some"}
    /\ row' = row \/ Log("warning", NoCall)
    /\ completions' = completions + 1
    /\ provider' = 1 /\ attempt' = 0
    /\ unheard' = FALSE
    /\ Enter("after-response")
    /\ UNCHANGED <<iterations, k, open, stop, marked, client, asks, stopSeen>>

\* Mutant: the flow of the text's event is ignored.
DeliverRegardless ==
    /\ Over("after-response")
    /\ pc' = "decide"
    /\ IF text = "empty" THEN UNCHANGED <<row, stopSeen>> ELSE Emit("text-delta", NoCall)
    /\ UNCHANGED <<dispatching, completing, iterations, passing, text, marked, client, asks, unheard>>

\* post_phase(after-response), whose block is ignored, and the delivery of its text.
Deliver ==
    /\ Over("after-response")
    /\ IF text = "empty"
       THEN pc' = "decide" /\ UNCHANGED <<row, stopSeen>>
       ELSE Emit("text-delta", NoCall) /\ pc' = IF Stopped("text-delta") THEN "incomplete" ELSE "decide"
    /\ UNCHANGED <<dispatching, completing, iterations, passing, text, marked, client, asks, unheard>>

\* No tool calls: the driver may have a follow-up.
DecideFollowUp ==
    /\ pc = "decide" /\ calls = 0
    /\ pc' = "follow-up"
    /\ UNCHANGED <<dispatching, completing, iterations, passing, text, marked, client, row, asks, history>>

\* Tool calls: a cycle more, unless that reaches the cap.
DecideCalls ==
    /\ pc = "decide" /\ calls # 0
    /\ iterations' = iterations + 1
    /\ IF iterations' >= MaxIterations
       THEN pc' = "incomplete" /\ UNCHANGED <<dispatching, k, stop>>
       ELSE k' = 1 /\ stop' = "continue" /\ Enter("tool-call")
    /\ UNCHANGED <<completing, calls, open, text, marked, client, row, asks, history>>

\* handle_no_tool_calls, Driver::follow_up has nothing: the turn is over.
NoFollowUp ==
    /\ pc = "follow-up"
    /\ Enter("finalize")
    /\ UNCHANGED <<completing, iterations, passing, text, marked, client, row, asks, history>>

\* It has a message: PersistingDriver logs it, prepare-next-turn shapes the request.
FollowUp ==
    /\ pc = "follow-up"
    /\ Log("follow-up", NoCall)
    /\ unheard' = TRUE
    /\ Enter("prepare-next-turn")
    /\ UNCHANGED <<completing, iterations, passing, text, marked, client, asks, stopSeen>>

\* Mutant: at the cap the turn ends as if it were finished.
FollowedUpQuietly ==
    /\ Over("prepare-next-turn")
    /\ iterations' = iterations + 1
    /\ IF iterations' >= MaxIterations
       THEN Enter("finalize")
       ELSE pc' = "complete" /\ UNCHANGED dispatching
    /\ UNCHANGED <<completing, passing, text, marked, client, row, asks, history>>

\* Mutant: the cap is off by one.
FollowedUpOnceMore ==
    /\ Over("prepare-next-turn")
    /\ iterations' = iterations + 1
    /\ pc' = IF iterations' > MaxIterations THEN "incomplete" ELSE "complete"
    /\ UNCHANGED <<dispatching, completing, passing, text, marked, client, row, asks, history>>

\* The message is pushed whatever prepare-next-turn said; it counts as a cycle.
FollowedUp ==
    /\ Over("prepare-next-turn")
    /\ iterations' = iterations + 1
    /\ pc' = IF iterations' >= MaxIterations THEN "incomplete" ELSE "complete"
    /\ UNCHANGED <<dispatching, completing, passing, text, marked, client, row, asks, history>>

\* run_tool_calls: a blocked call is not run, its result says it was denied.
Denied ==
    /\ Over("tool-call") /\ blocked
    /\ Log("warning", NoCall)
    /\ Enter("tool-result")
    /\ UNCHANGED <<completing, iterations, passing, text, marked, client, asks, history>>

\* Mutant: when nobody listens any more, the pass returns before the call has its result.
ApprovedOrReturned ==
    /\ Over("tool-call") /\ ~blocked
    /\ Emit("tool-invoked", k)
    /\ open' = k
    /\ stop' = IF Stopped("tool-invoked") THEN "cancelled" ELSE stop
    /\ pc' = IF Stopped("tool-invoked") THEN "passed" ELSE "invoke"
    /\ UNCHANGED <<dispatching, completing, iterations, calls, k, text, marked, client, asks, unheard>>

\* An approved call is announced, and run even if nobody listens any more.
Approved ==
    /\ Over("tool-call") /\ ~blocked
    /\ Emit("tool-invoked", k)
    /\ open' = k
    /\ stop' = IF Stopped("tool-invoked") THEN "cancelled" ELSE stop
    /\ pc' = "invoke"
    /\ UNCHANGED <<dispatching, completing, iterations, calls, k, text, marked, client, asks, unheard>>

\* The tool answered, failed, or does not exist.
Invoked ==
    /\ pc = "invoke"
    /\ Enter("tool-result")
    /\ UNCHANGED <<completing, iterations, passing, text, marked, client, row, asks, history>>

\* Mutant: a termination is merged over a cancel.
ResultStopMerged ==
    IF blocked THEN "terminated" ELSE IF Stopped("tool-result") THEN "cancelled" ELSE stop

\* The flow of the tool-result event is heeded after its dispatch's block.
ResultStop ==
    IF Stopped("tool-result") THEN "cancelled" ELSE IF blocked THEN "terminated" ELSE stop

\* Mutant: the pass runs one call too many.
ResultDeliveredOnceMore ==
    /\ Over("tool-result")
    /\ Emit("tool-result", k)
    /\ open' = NoCall
    /\ stop' = ResultStop
    /\ IF k <= calls
       THEN k' = k + 1 /\ Enter("tool-call")
       ELSE k' = k /\ pc' = "passed" /\ UNCHANGED dispatching
    /\ UNCHANGED <<completing, iterations, calls, text, marked, client, asks, unheard>>

\* The result is delivered and pushed; the next call of the pass follows, whatever `stop` says.
ResultDelivered ==
    /\ Over("tool-result")
    /\ Emit("tool-result", k)
    /\ open' = NoCall
    /\ stop' = ResultStop
    /\ IF k < calls
       THEN k' = k + 1 /\ Enter("tool-call")
       ELSE k' = k /\ pc' = "passed" /\ UNCHANGED dispatching
    /\ UNCHANGED <<completing, iterations, calls, text, marked, client, asks, unheard>>

\* after_tool_calls.
AfterToolCalls ==
    /\ pc = "passed"
    /\ CASE stop = "continue"   -> pc' = "complete" /\ UNCHANGED dispatching
         [] stop = "cancelled"  -> pc' = "incomplete" /\ UNCHANGED dispatching
         [] stop = "terminated" -> Enter("finalize")
    /\ UNCHANGED <<completing, iterations, passing, text, marked, client, row, asks, history>>

\* note_incomplete, also by way of cut_short; the flow of its warning is ignored.
NoteIncomplete ==
    /\ pc = "incomplete"
    /\ Log("warning", NoCall)
    /\ marked' = "yes"
    /\ Enter("finalize")
    /\ UNCHANGED <<completing, iterations, passing, text, client, asks, history>>

\* post_phase(finalize) and the last event.
Finish ==
    /\ Over("finalize")
    /\ Log("done", NoCall)
    /\ pc' = "answered"
    /\ UNCHANGED <<dispatching, completing, iterations, passing, text, marked, client, asks, history>>

\* The client goes away, or cancels, between any two steps of the turn.
GoAway ==
    /\ ~gone /\ pc \notin {"answered", "failed"}
    /\ gone' = TRUE
    /\ UNCHANGED <<reports, pc, dispatching, completing, iterations, passing, text, marked, row, asks, history>>

Dispatch == Proceed \/ ReplaceResponse \/ ReplaceAnswer \/ Block \/ Fail \/ Ask \/ Answer

Conduct ==
    \/ BeforeLoopDone \/ ShapeDone \/ ShapeFails
    \/ ProviderFails \/ Malformed \/ CompletionFails \/ Complete
    \/ Deliver \/ DecideFollowUp \/ DecideCalls \/ NoFollowUp \/ FollowUp \/ FollowedUp
    \/ Denied \/ Approved \/ Invoked \/ ResultDelivered \/ AfterToolCalls
    \/ NoteIncomplete \/ Finish

Finished == pc \in {"answered", "failed"}

\* A finished turn stays as it is.
Stay == Finished /\ UNCHANGED vars

Next == Dispatch \/ Conduct \/ GoAway \/ Stay

Spec == Init /\ [][Next]_vars

\* The turn's thread runs on: interceptors, providers, tools and the driver all return.
FairSpec == Spec /\ WF_vars(Dispatch \/ Conduct)

-----------------------------------------------------------------------------
(* Properties. *)

\* Type correctness.
TypeOK ==
    /\ pc \in {"dispatch", "asking", "complete", "decide", "follow-up", "invoke", "tool-asking",
               "passed", "incomplete", "answered", "failed"}
    /\ phase \in Phases
    /\ hook \in 1..(NInterceptors + 1) /\ blocked \in BOOLEAN /\ approved \subseteq Interceptors
    /\ provider \in 1..(NProviders + 1) /\ attempt \in 0..MaxRetries
    /\ iterations \in Nat /\ completions \in Nat
    /\ calls \in 0..MaxCalls /\ k \in 0..MaxCalls /\ open \in Calls \cup {NoCall}
    /\ stop \in {"continue", "terminated", "cancelled"}
    /\ text \in {"empty", "some"} /\ marked \in {"no", "yes", "replaced"} /\ gone \in BOOLEAN /\ reports \in Sinks
    /\ row \in Rows
    /\ asks \in 0..MaxAsks
    /\ stopSeen \in BOOLEAN /\ unheard \in BOOLEAN

\* The gate fails closed: a tool runs only once every interceptor subscribed to tool-call has
\* let this very call proceed; one that failed or blocked is not among them.
GateFailsClosed == pc \in {"invoke", "tool-asking"} => open = k /\ approved = Subscribers["tool-call"]

\* The text carries the note, unless an interceptor at finalize put another in its place.
Noted == marked = "yes" \/ (marked = "replaced" /\ approved \cap Subscribers["finalize"] # {})

\* A disconnect is never recorded as a finished answer (the comment on ToolPass): once an emit
\* whose flow counts told the conductor to stop, the text handed to finalize carries the note,
\* and only an interceptor there takes it away.
CancelIsMarked == pc # "failed" /\ phase = "finalize" /\ stopSeen => Noted

\* A follow-up that was taken and acknowledged was put to the model, or the answer said that it
\* is incomplete until an interceptor at finalize replaced it.
FollowUpHeardOrMarked == pc = "answered" /\ unheard => Noted

\* Violated: the note of an incomplete turn is put in the text "since headless callers see only
\* the text" (conductor.rs:253), so every such answer carries it; what replaces the answer at
\* finalize drops it.
NoteReachesTheText == pc = "answered" /\ (unheard \/ stopSeen) => marked = "yes"

\* The cap holds whatever the model and the clients do: the model answers at most
\* limits.max-iterations times, once at least.
CompletionsCapped == completions <= IF MaxIterations = 0 THEN 1 ELSE MaxIterations

\* After a heeded stop the model is not asked again.
StopEndsTheLoop == [][stopSeen => completions' = completions]_vars

\* Every turn ends, if its interceptors do not ask forever.
TurnEnds == <>Finished

-----------------------------------------------------------------------------
(* The log a turn writes, as its readers rely on it. *)

Promise == INSTANCE TurnLog WITH
    stage  <- IF Finished THEN pc
              ELSE IF phase = "before-loop" /\ pc \in {"dispatch", "asking"} THEN "opening"
              ELSE "open",
    asking <- pc \in {"asking", "tool-asking"}

\* The turn keeps the promise of TurnLog: the message once and first, every invoked tool call
\* followed by its own result, `done` last and only for an answered turn.
KeepsPromise == Promise!Spec
===============================================================================
