---------------------------------- MODULE Gate ----------------------------------
(***************************************************************************)
(* The gate at `tool-call`: the two interceptors that are shipped for it,  *)
(* in the order a boot dispatches them.  interceptor-guardrails holds a    *)
(* call against the operator's rules; interceptor-permission against the   *)
(* workspace, the credential files and its list of safe calls, remembers   *)
(* `always` and `never` by the kind of call, and stops asking after three  *)
(* refusals.  Modelled from pkgs/extensions/interceptor-guardrails and     *)
(* interceptor-permission, with the dispatch of protocol/src/intercept.rs. *)
(*                                                                         *)
(* Each session has an agent with instances of its own.  Their memory is   *)
(* private to the instance, or, with `persist: true`, rows that all of     *)
(* them share: then what they do between two storage calls interleaves.    *)
(***************************************************************************)
EXTENDS Integers, FiniteSets, FiniteSetsExt

CONSTANTS
    Sessions,
    Keys,           \* kinds of call, as scope_key names them
    SafeKeys,       \* those in `safe-calls`
    Calls,          \* the calls a model may make: [key, escapes, credentials, matches]
    Rules,          \* deny-tool-arguments: the act of each rule, "block" or "ask"
    Enough,         \* REFUSALS_BEFORE_STANDING_DENY
    MaxCalls,       \* bound: calls made
    MaxRetired      \* bound: agents retired by an adoption

VARIABLES
    persist,        \* configuration: the memory is shared
    broken,         \* configuration: a rule does not parse
    verdict,        \* memory: place -> key -> none | allow | deny
    refusals,       \* memory: place -> key -> the counter
    at,             \* session -> where its call is
    call,           \* session -> the call
    seen,           \* session -> the counter as read
    made, retired,
    allowed,        \* history: session -> what the user answered about this very call
    said,           \* history: place -> key -> the last always or never
    refused,        \* history: place -> key -> refusals since the last always
    raced           \* history: places and keys where a count was overwritten

config == <<persist, broken>>
memory == <<verdict, refusals>>
bounds == <<made, retired>>
vars == <<config, memory, at, call, seen, bounds, allowed, said, refused, raced>>

Places == Sessions \cup {"shared"}
Place(s) == IF persist THEN "shared" ELSE s

Stages == {"idle", "rules", "rule asked", "permission", "asked", "counting", "counted",
           "standing", "run", "blocked"}
Answers == {"yes", "no", "always", "never"}
NoCall == [key |-> "none", escapes |-> FALSE, credentials |-> FALSE, matches |-> {}]

TypeOK ==
    /\ persist \in BOOLEAN /\ broken \in BOOLEAN
    /\ verdict \in [Places -> [Keys -> {"none", "allow", "deny"}]]
    /\ refusals \in [Places -> [Keys -> 0..MaxCalls]]
    /\ at \in [Sessions -> Stages] /\ seen \in [Sessions -> 0..MaxCalls]
    /\ \A s \in Sessions : (call[s] = NoCall) <=> (at[s] = "idle")
    /\ made \in 0..MaxCalls /\ retired \in 0..MaxRetired

Fresh(x) == [k \in Keys |-> x]

Init ==
    /\ persist \in BOOLEAN /\ broken \in BOOLEAN
    /\ verdict = [p \in Places |-> Fresh("none")] /\ refusals = [p \in Places |-> Fresh(0)]
    /\ at = [s \in Sessions |-> "idle"] /\ call = [s \in Sessions |-> NoCall]
    /\ seen = [s \in Sessions |-> 0] /\ made = 0 /\ retired = 0
    /\ allowed = [s \in Sessions |-> {}]
    /\ said = [p \in Places |-> Fresh("none")] /\ refused = [p \in Places |-> Fresh(0)]
    /\ raced = {}

Goes(s, stage) == at' = [at EXCEPT ![s] = stage]

---------------------------------------------------------------------------
(* A call comes to the gate, and leaves it run or blocked.                 *)

BeginCall(s, c) ==
    /\ at[s] = "idle" /\ made < MaxCalls
    /\ made' = made + 1 /\ call' = [call EXCEPT ![s] = c] /\ Goes(s, "rules")
    /\ UNCHANGED <<config, memory, seen, retired, allowed, said, refused, raced>>

EndCall(s) ==
    /\ at[s] \in {"run", "blocked"}
    /\ Goes(s, "idle") /\ call' = [call EXCEPT ![s] = NoCall]
    /\ allowed' = [allowed EXCEPT ![s] = {}]
    /\ UNCHANGED <<config, memory, seen, bounds, said, refused, raced>>

\* An adoption retires the session's agent: the next one has instances of its own.
Retire(s) ==
    /\ at[s] = "idle" /\ retired < MaxRetired /\ retired' = retired + 1
    /\ IF persist THEN UNCHANGED <<memory, said, refused>>
       ELSE /\ verdict' = [verdict EXCEPT ![s] = Fresh("none")]
            /\ refusals' = [refusals EXCEPT ![s] = Fresh(0)]
            /\ said' = [said EXCEPT ![s] = Fresh("none")]
            /\ refused' = [refused EXCEPT ![s] = Fresh(0)]
    /\ UNCHANGED <<config, at, call, seen, made, allowed, raced>>

---------------------------------------------------------------------------
(* interceptor-guardrails.                                                 *)

\* Rules::review_tool_call: the first rule that fires, in the operator's order.
Act(c) == IF c.matches = {} THEN "none" ELSE Rules[Min(c.matches)]

\* A broken rule fails every dispatch, which the dispatcher closes the gate on.
Review(s) ==
    /\ at[s] = "rules"
    /\ Goes(s, CASE broken \/ Act(call[s]) = "block" -> "blocked"
                 [] ~broken /\ Act(call[s]) = "ask" -> "rule asked"
                 [] OTHER -> "permission")
    /\ UNCHANGED <<config, memory, call, seen, bounds, allowed, said, refused, raced>>

\* Only "yes" passes.
RuleAnswered(s, answer) ==
    /\ at[s] = "rule asked"
    /\ Goes(s, IF answer = "yes" THEN "permission" ELSE "blocked")
    /\ allowed' = [allowed EXCEPT ![s] = IF answer = "yes" THEN @ \cup {"rule"} ELSE @]
    /\ UNCHANGED <<config, memory, call, seen, bounds, said, refused, raced>>

---------------------------------------------------------------------------
(* interceptor-permission.                                                 *)

\* Policy::review.
Concern(c) ==
    CASE c.escapes -> "EscapesScope"
      [] ~c.escapes /\ c.credentials -> "TouchesCredentials"
      [] ~c.escapes /\ ~c.credentials /\ c.key \notin SafeKeys -> "NotKnownSafe"
      [] OTHER -> "none"

\* Mutant: a blanket approval covers an escape as well.
RememberableAll(c) == Concern(c) # "none"

\* Concern::is_rememberable.
Rememberable(c) == Concern(c) = "NotKnownSafe"

Standing(s) == IF Rememberable(call[s]) THEN verdict[Place(s)][call[s].key] ELSE "none"

\* The call without an answer: what is remembered decides, or the user is asked.
Recall(s) ==
    /\ at[s] = "permission"
    /\ Goes(s, CASE Concern(call[s]) = "none" \/ Standing(s) = "allow" -> "run"
                 [] Standing(s) = "deny" -> "blocked"
                 [] OTHER -> "asked")
    /\ UNCHANGED <<config, memory, call, seen, bounds, allowed, said, refused, raced>>

Approves(answer) == answer \in {"yes", "always"}

\* `remember`, of an answer that stands.
Remembered(s, answer) ==
    IF Rememberable(call[s]) /\ answer \in {"always", "never"}
      THEN [verdict EXCEPT ![Place(s)][call[s].key] = IF answer = "always" THEN "allow" ELSE "deny"]
      ELSE verdict

\* The user's answer; the options of a call with no scope are yes and no, but what
\* is typed is parsed all the same.
Answered(s, answer) ==
    /\ at[s] = "asked"
    /\ verdict' = Remembered(s, answer)
    /\ Goes(s, CASE Approves(answer) -> "run"
                 [] ~Approves(answer) /\ Rememberable(call[s]) -> "counting"
                 [] OTHER -> "blocked")
    /\ allowed' = [allowed EXCEPT ![s] = IF Approves(answer) THEN @ \cup {"call"} ELSE @]
    /\ LET p == Place(s) k == call[s].key IN
        IF ~Rememberable(call[s]) THEN UNCHANGED <<said, refused>>
        ELSE /\ said' = IF answer \in {"always", "never"} THEN [said EXCEPT ![p][k] = answer] ELSE said
             /\ refused' = IF answer = "always" THEN [refused EXCEPT ![p][k] = 0]
                           ELSE IF answer = "yes" THEN refused
                           ELSE [refused EXCEPT ![p][k] = @ + 1]
    /\ UNCHANGED <<config, refusals, call, seen, bounds, raced>>

\* count_refusal: the counter is read, and written one higher.
CountRead(s) ==
    /\ at[s] = "counting" /\ Goes(s, "counted")
    /\ seen' = [seen EXCEPT ![s] = refusals[Place(s)][call[s].key]]
    /\ UNCHANGED <<config, memory, call, bounds, allowed, said, refused, raced>>

\* Mutant: one refusal more than enough settles it.
CountWriteLate(s) ==
    LET p == Place(s) k == call[s].key IN
    /\ at[s] = "counted"
    /\ refusals' = [refusals EXCEPT ![p][k] = seen[s] + 1]
    /\ Goes(s, IF seen[s] + 1 > Enough THEN "standing" ELSE "blocked")
    /\ raced' = IF refusals[p][k] # seen[s] THEN raced \cup {<<p, k>>} ELSE raced
    /\ UNCHANGED <<config, verdict, call, seen, bounds, allowed, said, refused>>

CountWrite(s) ==
    LET p == Place(s) k == call[s].key IN
    /\ at[s] = "counted"
    /\ refusals' = [refusals EXCEPT ![p][k] = seen[s] + 1]
    /\ Goes(s, IF seen[s] + 1 >= Enough THEN "standing" ELSE "blocked")
    /\ raced' = IF refusals[p][k] # seen[s] THEN raced \cup {<<p, k>>} ELSE raced
    /\ UNCHANGED <<config, verdict, call, seen, bounds, allowed, said, refused>>

\* remember(key, Deny): it was refused often enough.
StandingDeny(s) ==
    /\ at[s] = "standing" /\ Goes(s, "blocked")
    /\ verdict' = [verdict EXCEPT ![Place(s)][call[s].key] = "deny"]
    /\ UNCHANGED <<config, refusals, call, seen, bounds, allowed, said, refused, raced>>

Next == \E s \in Sessions :
    \/ \E c \in Calls : BeginCall(s, c)
    \/ EndCall(s) \/ Retire(s)
    \/ Review(s) \/ \E a \in Answers : RuleAnswered(s, a)
    \/ Recall(s) \/ \E a \in Answers : Answered(s, a)
    \/ CountRead(s) \/ CountWrite(s) \/ StandingDeny(s)

Spec == Init /\ [][Next]_vars

---------------------------------------------------------------------------

\* A call runs only as its user allowed: no rule blocks it, a rule that asks was
\* answered `yes` for it, and what permission is concerned about was approved for
\* this call, or by an `always` that still stands for its kind in this memory; an
\* escape and a credential file only for this call.
RunsAreAllowed ==
    [][\A s \in Sessions : at'[s] = "run" /\ at[s] # "run" =>
        LET c == call[s] IN
        /\ ~broken /\ Act(c) # "block" /\ (Act(c) = "ask" => "rule" \in allowed[s])
        /\ \/ c.key \in SafeKeys /\ ~c.escapes /\ ~c.credentials
           \/ "call" \in allowed'[s]
           \/ said[Place(s)][c.key] = "always" /\ ~c.escapes /\ ~c.credentials]_vars

Counting(p, k) == \E s \in Sessions :
    at[s] \in {"counting", "counted", "standing"} /\ Place(s) = p /\ call[s].key = k

\* A kind of call refused three times is settled: the user is not asked about it
\* again - unless two sessions with one memory counted at once, and one count is lost.
SettledAfterThree ==
    \A p \in Places, k \in Keys :
        refused[p][k] >= Enough /\ <<p, k>> \notin raced /\ ~Counting(p, k) =>
            verdict[p][k] = "deny"

\* Violated: what was settled stays so ("This kind of call is refused for the rest
\* of the session", interceptor-permission/src/rules.rs:319).
DenialLasts ==
    [][\A s \in Sessions, k \in Keys :
        verdict[Place(s)][k] = "deny" /\ said'[Place(s)][k] # "always" =>
            verdict'[Place(s)][k] = "deny"]_vars
=============================================================================
