------------------------------- MODULE Fleet -------------------------------
(***************************************************************************)
(* The fleet of tool guests one agent owns: how lazily instantiated tools  *)
(* and registries come alive (`wasm/src/tool_host.rs`,                     *)
(* `registry_host.rs`), in which order a call is offered to them and to    *)
(* the host's own tools (`CombinedFleet`), how a guest may put questions   *)
(* before it answers (`invoke_asking`), and where its `host-storage` calls *)
(* land (`guest_storage.rs`, `agent/src/session_entries.rs`).  Agents run  *)
(* on threads of their own and share one durable store, so the storage     *)
(* calls of their guests interleave; a guest that keeps state reads its    *)
(* row, changes it and writes it back, as `tool-memory` and `tool-plan` do.*)
(***************************************************************************)
EXTENDS Naturals, Sequences, FiniteSets, SequencesExt

CONSTANTS
    Agents,      \* one fleet each
    Sessions,
    ToolList,    \* the enabled `tool.*` guests, in load order
    SkillList,   \* the enabled `registry.skills` guests
    McpList,     \* the enabled `registry.mcp` guests
    NativeNames, \* what the host's own tools answer to
    NameOf,      \* the name a tool guest advertises
    OffersOf,    \* the names a registry guest lists
    Askable,     \* tool guests that export `tool-askable`
    PerSession,  \* tool guests configured with `scope: session`
    Durable,     \* tool guests configured with `persist: true`
    MaxAsks,     \* MAX_ASKS
    MaxTurns,    \* turns run in the model
    MaxBroken,   \* agents that may lose a guest in the model
    None

Tools      == Range(ToolList)
Registries == Range(SkillList) \cup Range(McpList)
Names      == {NameOf[t] : t \in Tools}
                \cup UNION {OffersOf[r] : r \in Registries} \cup NativeNames

ASSUME FleetAssumption ==
    /\ MaxAsks \in Nat \ {0} /\ MaxTurns \in Nat /\ MaxBroken \in Nat
    /\ Askable \subseteq Tools /\ PerSession \subseteq Tools
    /\ Durable \subseteq Tools
    /\ None \notin Agents \cup Sessions \cup Tools \cup Registries \cup Names
    /\ None \notin [guests : {ToolList, <<>>}]
    /\ ToolList \in Seq(Tools) /\ IsInjective(ToolList)

VARIABLES
    tools,   \* tools[a]: LazyToolFleet of agent a
    regs,    \* regs[a]: LazyRegistryFleet of agent a
    rows,    \* what each storage scope holds
    call,    \* call[a]: where agent a is, and the tool call it is in
    turns,   \* turns begun
    kept,    \* history: additions acknowledged and not cleared since
    broke,   \* history: agents one of whose guests failed to instantiate
    eager    \* an interceptor is enabled: its configuration lists the tools

vars == <<tools, regs, rows, call, turns, kept, broke, eager>>

(***************************************************************************)
(* Storage.  A namespace is prefixed with the session when the guest is    *)
(* session-scoped, and with the guest's id when it is durable; without     *)
(* `persist` each instance has a private map.                              *)
(***************************************************************************)
Scopes == [agent : Agents \cup {None}, owner : Tools,
           session : Sessions \cup {None}]

\* Mutant: the session is left out of a guest's namespace.
ScopeAtForAll(a, t, s) ==
    [agent |-> IF t \in Durable THEN None ELSE a, owner |-> t, session |-> None]

ScopeAt(a, t, s) == [agent   |-> IF t \in Durable THEN None ELSE a,
                     owner   |-> t,
                     session |-> IF t \in PerSession THEN s ELSE None]

Bound(a, t) == tools[a].bound[t]

\* GuestStorage::scope: a session-scoped guest with no session is refused.
Refused(a, t) == t \in PerSession /\ Bound(a, t) = None

Scope(a, t) == ScopeAt(a, t, Bound(a, t))

\* What a guest adds to its row: which turn of whose it came from.
Items == [agent : Agents, session : Sessions, tool : Tools]
Item(a) == [agent |-> a, session |-> call[a].session, tool |-> call[a].tool]

(***************************************************************************)
(* Coming alive.  `ensure` drains the pending guests and instantiates them *)
(* in turn; the first failure returns and takes what was drained with it,  *)
(* so the next `ensure` finds nothing pending and makes an empty fleet.    *)
(***************************************************************************)
Live(f) == f.live # None

\* Mutant: the pending guests are instantiated and not taken off the list.
EnsuredKeeping(f, bad) ==
    IF Live(f) THEN f
    ELSE [f EXCEPT
            !.live  = IF bad \in Range(f.pending) THEN None
                      ELSE [guests |-> f.pending],
            !.bound = IF bad \in Range(f.pending) \/ f.session = None THEN @
                      ELSE [t \in Tools |-> f.session]]

Ensured(f, bad) ==
    IF Live(f) THEN f
    ELSE [f EXCEPT
            !.pending = <<>>,
            !.live    = IF bad \in Range(f.pending) THEN None
                        ELSE [guests |-> f.pending],
            !.bound   = IF bad \in Range(f.pending) \/ f.session = None THEN @
                        ELSE [t \in Tools |-> IF t \in Range(f.pending)
                                              THEN f.session ELSE @[t]]]

\* The registry fleet drains its skills before its MCP guests: a failed
\* skills guest leaves the MCP ones pending for the next call.
RegEnsured(r, bad) ==
    IF r.live THEN r
    ELSE IF bad \in Range(r.skills) THEN [r EXCEPT !.skills = <<>>]
    ELSE IF bad \in Range(r.mcp) THEN [r EXCEPT !.skills = <<>>, !.mcp = <<>>]
    ELSE [r EXCEPT !.live = TRUE]

\* The guest, if any, whose instantiation fails this time: `bad` fails only
\* if it is tried, and nothing after it in its list is.
MayBreak == {None} \cup Tools \cup Registries

ToolNamed(f, name) ==
    IF Live(f) /\ \E t \in Range(f.live.guests) : NameOf[t] = name
    THEN f.live.guests[CHOOSE i \in DOMAIN f.live.guests :
            /\ NameOf[f.live.guests[i]] = name
            /\ \A j \in 1 .. (i - 1) : NameOf[f.live.guests[j]] # name]
    ELSE None

RegistryOffers(r, name) ==
    r.live /\ \E g \in Range(r.skills) \cup Range(r.mcp) : name \in OffersOf[g]

(***************************************************************************)
(* The agent.                                                              *)
(***************************************************************************)
Idle == [at |-> "idle", session |-> None, tool |-> None, asks |-> 0,
         seen |-> {}, overtaken |-> FALSE,
         native |-> None]  \* the name the host's own tool has just answered

Init ==
    /\ tools = [a \in Agents |-> [pending |-> ToolList, live |-> None,
                                  session |-> None,
                                  bound |-> [t \in Tools |-> None]]]
    /\ regs = [a \in Agents |-> [skills |-> SkillList, mcp |-> McpList,
                                 live |-> FALSE]]
    /\ rows = [s \in Scopes |-> {}]
    /\ call = [a \in Agents |-> [Idle EXCEPT !.at = "unbuilt"]]
    /\ turns = 0
    /\ kept = {}
    /\ broke = {}
    /\ eager \in BOOLEAN

\* Runtime::instantiate.  With an interceptor enabled the metadata of every
\* guest is wanted at once, and a guest that fails fails the build: there is
\* then no agent, and the next build starts from fresh pending lists.
BuildAgent(a) ==
    /\ call[a].at = "unbuilt"
    /\ call' = [call EXCEPT ![a] = Idle]
    /\ tools' = [tools EXCEPT ![a] = IF eager THEN Ensured(@, None) ELSE @]
    /\ regs' = [regs EXCEPT ![a] = IF eager THEN RegEnsured(@, None) ELSE @]
    /\ UNCHANGED <<rows, turns, kept, broke, eager>>

\* Mutant: a guest keeps the first session it was bound to.
BindSessionOnce(f, s) ==
    [f EXCEPT !.session = s,
              !.bound = IF Live(f)
                        THEN [t \in Tools |-> IF @[t] = None THEN s ELSE @[t]]
                        ELSE @]

\* bind_session, as CombinedFleet has it: the lazy fleet remembers the
\* session for guests to come and tells the ones it has.
BindSession(f, s) ==
    [f EXCEPT !.session = s,
              !.bound = IF Live(f)
                        THEN [t \in Tools |-> IF t \in Range(f.live.guests)
                                              THEN s ELSE @[t]]
                        ELSE @]

\* run_turn begins by binding its session; a session is in the hands of one
\* agent at a time (the agent registry's doing, module Agents).
BeginTurn(a, s) ==
    /\ call[a].at = "idle" /\ turns < MaxTurns
    /\ \A b \in Agents : call[b].session # s
    /\ tools' = [tools EXCEPT ![a] = BindSession(@, s)]
    /\ call' = [call EXCEPT ![a] = [Idle EXCEPT !.at = "turn", !.session = s]]
    /\ turns' = turns + 1
    /\ UNCHANGED <<regs, rows, kept, broke, eager>>

EndTurn(a) ==
    /\ call[a].at = "turn"
    /\ call' = [call EXCEPT ![a] = Idle]
    /\ UNCHANGED <<tools, regs, rows, turns, kept, broke, eager>>

\* Mutant: the host's own tools come before the registries'.
AnsweredByNativeFirst(f, r, regBroke, name) ==
    IF ToolNamed(f, name) # None THEN "tool"
    ELSE IF name \in NativeNames THEN "native"
    ELSE IF regBroke THEN "error"
    ELSE IF RegistryOffers(r, name) THEN "registry" ELSE "nobody"

\* Who answers a call, tool guests first: the fleets are made live on the
\* way, and a tool fleet that cannot be is passed over without a word, while
\* a registry fleet that cannot be answers the call itself, with its error.
AnsweredBy(f, r, regBroke, name) ==
    IF ToolNamed(f, name) # None THEN "tool"
    ELSE IF regBroke THEN "error"
    ELSE IF RegistryOffers(r, name) THEN "registry"
    ELSE IF name \in NativeNames THEN "native" ELSE "nobody"

\* CombinedFleet::invoke_asking, up to the guest that takes the call.  The
\* registries' and the host's own tools keep nothing here: they just answer.
Dispatch(a, name, bad, regBad) ==
    LET f == Ensured(tools[a], bad)
        toRegistry == ToolNamed(f, name) = None
        r == IF toRegistry THEN RegEnsured(regs[a], regBad) ELSE regs[a]
        by == AnsweredBy(f, r, toRegistry /\ ~r.live, name)
    IN  /\ call[a].at = "turn"
        /\ bad # None \/ regBad # None =>
             Cardinality(broke \cup {a}) <= MaxBroken
        /\ bad # None => ~Live(tools[a]) /\ bad \in Range(tools[a].pending)
        /\ regBad # None => toRegistry /\ ~regs[a].live
             /\ regBad \in Range(regs[a].skills) \cup Range(regs[a].mcp)
        /\ tools' = [tools EXCEPT ![a] = f]
        /\ regs' = [regs EXCEPT ![a] = r]
        /\ call' = [call EXCEPT ![a] =
              [@ EXCEPT !.at   = IF by = "tool" THEN "guest" ELSE "turn",
                        !.tool = ToolNamed(f, name),
                        !.native = IF by = "native" THEN name ELSE None]]
        /\ broke' = IF bad # None \/ regBad # None
                    THEN broke \cup {a} ELSE broke
        /\ UNCHANGED <<rows, turns, kept, eager>>

Returned(a) == [call EXCEPT ![a] = [@ EXCEPT !.at = "turn", !.tool = None,
                  !.asks = 0, !.seen = {}, !.overtaken = FALSE]]

\* A step of `invoke_asking`: the guest asks before it answers.
GuestAsks(a) ==
    /\ call[a].at = "guest" /\ call[a].tool \in Askable
    /\ call' = [call EXCEPT ![a] = [@ EXCEPT !.at = "asking"]]
    /\ UNCHANGED <<tools, regs, rows, turns, kept, broke, eager>>

\* Mutant: the loop over the questions runs once more.
DriverAnswersOnceMore(a) ==
    /\ call[a].at = "asking"
    /\ call' = IF call[a].asks = MaxAsks THEN Returned(a)
               ELSE [call EXCEPT ![a] = [@ EXCEPT !.at = "guest",
                                                  !.asks = @ + 1]]
    /\ UNCHANGED <<tools, regs, rows, turns, kept, broke, eager>>

\* Mutant: the guest is asked again for as long as it asks.
DriverAnswersForEver(a) ==
    /\ call[a].at = "asking"
    /\ call' = [call EXCEPT ![a] = [@ EXCEPT !.at = "guest"]]
    /\ UNCHANGED <<tools, regs, rows, turns, kept, broke, eager>>

\* driver.ask returns, and the guest is called again with the answer; after
\* MAX_ASKS of them the call is given up instead.
DriverAnswers(a) ==
    /\ call[a].at = "asking"
    /\ call' = IF call[a].asks + 1 = MaxAsks THEN Returned(a)
               ELSE [call EXCEPT ![a] = [@ EXCEPT !.at = "guest",
                                                  !.asks = call[a].asks + 1]]
    /\ UNCHANGED <<tools, regs, rows, turns, kept, broke, eager>>

\* The guest answers without touching its storage, refuses its arguments,
\* traps, or is refused by its storage.
GuestReturns(a) ==
    /\ call[a].at \in {"guest", "read"}
    /\ call' = Returned(a)
    /\ UNCHANGED <<tools, regs, rows, turns, kept, broke, eager>>

\* host-storage `get`: the guest parses the row it finds.
GuestReads(a) ==
    /\ call[a].at = "guest" /\ ~Refused(a, call[a].tool)
    /\ call' = [call EXCEPT ![a] = [@ EXCEPT !.at = "read",
                  !.seen = rows[Scope(a, call[a].tool)], !.overtaken = FALSE]]
    /\ UNCHANGED <<tools, regs, rows, turns, kept, broke, eager>>

\* What the guest may render back: its row with an addition, without one of
\* its entries, without any, or as it was - `tool-memory` and `tool-plan`
\* write after every operation, one that only lists included.
Rendered(a) ==
    LET seen == call[a].seen
    IN  {seen \cup {Item(a)}, seen, {}} \cup {seen \ {i} : i \in seen}

\* host-storage `set`, and the guest answers: from here on the model, and
\* the user, believe what the call did.  What it took out on purpose leaves
\* `kept`, and what it runs over unseen because another agent's write came
\* between.
GuestWrites(a, row) ==
    LET t      == call[a].tool
        scope  == Scope(a, t)
        meant  == ScopeAt(a, t, call[a].session)
        added  == {<<meant, i>> : i \in row \cap {Item(a)}}
        gone   == {k \in kept : /\ k[1] = meant /\ k[2] \notin row
                                /\ k[2] \in call[a].seen \/ call[a].overtaken}
    IN  /\ call[a].at = "read" /\ ~Refused(a, t)
        /\ rows' = [rows EXCEPT ![scope] = row]
        /\ kept' = (kept \ gone) \cup added
        /\ call' = [b \in Agents |->
              IF b = a THEN Returned(a)[a]
              ELSE [call[b] EXCEPT !.overtaken =
                      \/ @
                      \/ call[b].at = "read" /\ Scope(b, call[b].tool) = scope]]
        /\ UNCHANGED <<tools, regs, turns, broke, eager>>

Next ==
    \E a \in Agents :
        \/ BuildAgent(a) \/ EndTurn(a) \/ GuestAsks(a) \/ DriverAnswers(a)
        \/ GuestReturns(a) \/ GuestReads(a)
        \/ \E row \in Rendered(a) : GuestWrites(a, row)
        \/ \E s \in Sessions : BeginTurn(a, s)
        \/ \E name \in Names, bad, regBad \in MayBreak :
              Dispatch(a, name, bad, regBad)

Spec == Init /\ [][Next]_vars

(***************************************************************************)
(* A guest call returns, trap or not, and a question is answered: a driver *)
(* that is not answered gives the default (module Prompts).                *)
(***************************************************************************)
FairSpec ==
    /\ Spec
    /\ \A a \in Agents :
         /\ WF_vars(DriverAnswers(a))
         /\ WF_vars(GuestAsks(a) \/ GuestReturns(a) \/ GuestReads(a)
                      \/ \E row \in Rendered(a) : GuestWrites(a, row))

(***************************************************************************)
(* Properties.                                                             *)
(***************************************************************************)
\* The variables stay in range.
TypeOK ==
    /\ tools \in [Agents -> [pending : {ToolList, <<>>},
                             live : {None} \cup [guests : {ToolList, <<>>}],
                             session : Sessions \cup {None},
                             bound : [Tools -> Sessions \cup {None}]]]
    /\ regs \in [Agents -> [skills : {SkillList, <<>>}, mcp : {McpList, <<>>},
                            live : BOOLEAN]]
    /\ rows \in [Scopes -> SUBSET Items]
    /\ call \in [Agents -> [at : {"unbuilt", "idle", "turn", "guest", "asking", "read"},
                            session : Sessions \cup {None}, tool : Tools \cup {None},
                            asks : 0 .. (MaxAsks - 1), seen : SUBSET Items,
                            overtaken : BOOLEAN, native : NativeNames \cup {None}]]
    /\ kept \subseteq Scopes \X Items
    /\ broke \subseteq Agents /\ eager \in BOOLEAN

\* What a guest reads, guests of the same id wrote: in turns of the very
\* session when it is session-scoped, whatever sessions its instance served
\* before, and in the same agent when it is not durable (GuestStorage::scope,
\* bind_session).
SeesItsOwn ==
    \A a \in Agents : call[a].at = "read" =>
        \A i \in call[a].seen :
            /\ i.tool = call[a].tool
            /\ call[a].tool \in PerSession => i.session = call[a].session
            /\ call[a].tool \notin Durable => i.agent = a

\* An addition a guest acknowledged stays in the row of the turn that made
\* it until a guest clears the row, or a write runs over it that another
\* agent's write overtook: nothing is lost between turns, sessions and
\* agents but to that race.  A session-scoped guest is in no such race.
LostOnlyToARace ==
    /\ \A k \in kept : k[2] \in rows[k[1]]
    /\ \A a \in Agents : call[a].tool \in PerSession => ~call[a].overtaken

\* A fleet comes alive whole: one that lacks guests has none left at all,
\* and some guest of its agent failed to instantiate (`ensure`, "all
\* together").
WholeOrEmpty ==
    \A a \in Agents \ broke :
        /\ tools[a].pending = IF Live(tools[a]) THEN <<>> ELSE ToolList
        /\ Live(tools[a]) => tools[a].live.guests = ToolList
        /\ regs[a].skills = SkillList /\ regs[a].mcp = McpList

\* "Consulted last so native tools never shadow an installed extension"
\* (wasm/src/lib.rs:987): the host's own tool answers a name an extension has
\* only in an agent one of whose guests failed to instantiate.
NativeNeverShadows ==
    \A a \in Agents \ broke : 
        call[a].native \notin {NameOf[t] : t \in Tools}
                               \cup UNION {OffersOf[r] : r \in Registries}

\* A call a guest takes comes to an end, however often the guest asks
\* (MAX_ASKS, ToolExtension::invoke_asking).
CallsEnd ==
    \A a \in Agents :
        call[a].at \in {"guest", "asking", "read"} ~> call[a].at = "turn"
=============================================================================
