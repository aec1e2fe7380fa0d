--------------------------------- MODULE Boot ---------------------------------
(***************************************************************************)
(* The life of a runtime: a configuration and a directory of components    *)
(* are booted into a list of extensions; agents are built from the list    *)
(* when sessions need them, long after the boot; an installation made by   *)
(* an agent is adopted into it.  Modelled from pkgs/host/wasm/src/lib.rs,  *)
(* config/src/lib.rs, agent/src/lib.rs and the commands of main.rs.        *)
(*                                                                         *)
(* A component is what loading and starting it finds: "good", "faulty" (it *)
(* loads and its manifest is right, but it does not start) or "refused" by *)
(* load_instance.  How an installation lands is Install's, how agents      *)
(* share their threads is Agents', what a lazy guest does is Fleet's.      *)
(***************************************************************************)
EXTENDS Integers, Sequences, SequencesExt

CONSTANTS
    Ids,            \* every `<category>.<name>`, in the order of the ids
    CategoryOf,     \* id -> category
    Configs,        \* contents of config.yaml: [sound, enabled, chain]
    Distributions,  \* contents of ext/ the operator may put there: id -> component
    Sessions,
    MaxEdits,       \* bound: changes to config.yaml and to components by hand
    MaxInstalls,    \* bound: installations by agents
    MaxRuns         \* bound: commands run

VARIABLES
    config,         \* config.yaml
    disk,           \* id -> the component in ext/
    verified,       \* `verify` succeeded, and nothing has changed since
    command,        \* the command that runs, or "none"
    chain,          \* Runtime.agent: the `providers:` it was booted with
    extensions,     \* Runtime.extensions: [id, component], "missing" for one not there
    agents,         \* session -> the agent of its thread
    installed,      \* session -> what its agent's turns have installed, in order
    edits, installs, runs,
    booted,         \* history: how many of the extensions are the boot's
    vouched         \* history: this runtime was booted from what was verified

files == <<config, disk, verified>>
counts == <<edits, installs, runs>>
runtime == <<command, chain, extensions, agents, installed, booted, vouched>>
vars == <<files, counts, runtime>>

AllIds == ToSet(Ids)
Components == {"none", "good", "faulty", "refused"}

NoAgents == [s \in Sessions |-> [state |-> "none"]]
NothingInstalled == [s \in Sessions |-> <<>>]

TypeOK ==
    /\ config \in Configs /\ disk \in [AllIds -> Components] /\ verified \in BOOLEAN
    /\ command \in {"none", "serve", "rpc"} /\ vouched \in BOOLEAN
    /\ \A i \in DOMAIN extensions : extensions[i].id \in AllIds
    /\ \A s \in Sessions : agents[s].state \in {"none", "failed", "built"}
    /\ installed \in [Sessions -> Seq(AllIds)] /\ booted \in 0..Len(extensions)
    /\ command = "none" => extensions = <<>> /\ agents = NoAgents
    /\ edits \in 0..MaxEdits /\ installs \in 0..MaxInstalls /\ runs \in 0..MaxRuns


Init ==
    /\ config \in Configs /\ disk \in Distributions /\ verified = FALSE
    /\ command = "none" /\ chain = <<>> /\ extensions = <<>> /\ agents = NoAgents
    /\ installed = NothingInstalled /\ booted = 0 /\ vouched = FALSE
    /\ edits = 0 /\ installs = 0 /\ runs = 0

---------------------------------------------------------------------------
(* Runtime::boot.                                                          *)

Rank(e) ==
    LET tiers == <<"registry", "provider", "manager", "tool", "agent", "api", "chat">>
        its   == {r \in DOMAIN tiers : tiers[r] = CategoryOf[e]}
    IN IF its = {} THEN 8 ELSE CHOOSE r \in its : TRUE

\* Dependencies first, and by id within a rank.
BootOrder(enabled) ==
    LET OfRank(r) == SelectSeq(Ids, LAMBDA e : e \in enabled /\ Rank(e) = r)
    IN FlattenSeq([r \in 1..8 |-> OfRank(r)])

\* load_instance: missing is no error, a refusal is.
Loaded(e) == [id |-> e, component |-> IF disk[e] = "none" THEN "missing" ELSE disk[e]]

Boots == config.sound /\ \A e \in config.enabled : disk[e] # "refused"

BootedList ==
    LET order == BootOrder(config.enabled)
    IN [i \in DOMAIN order |-> Loaded(order[i])]

IsLazy(category) == category \in {"tool", "registry", "agent"}

Compiled(list) == SelectSeq(list, LAMBDA x : x.component # "missing")
Of(category, list) == SelectSeq(Compiled(list), LAMBDA x : CategoryOf[x.id] = category)
IdsOf(list) == [i \in DOMAIN list |-> list[i].id]
Starts(list) == \A i \in DOMAIN list : list[i].component # "faulty"

\* start_selected: without the lazy ones, or all.
StartAll(list, skipLazy) ==
    Starts(SelectSeq(Compiled(list), LAMBDA x : ~skipLazy \/ ~IsLazy(CategoryOf[x.id])))

---------------------------------------------------------------------------
(* Runtime::instantiate.                                                   *)

\* Mutant: what the configured chain omits is left out.
ChainListedOnly(entries, ids) ==
    FoldLeft(LAMBDA order, p : IF p \in ToSet(ids) \ ToSet(order) THEN Append(order, p) ELSE order,
             <<>>, entries)

\* order_chain, and reorder: the chain's, once each; then those it omits.
OrderChain(entries, ids) ==
    LET listed == FoldLeft(LAMBDA order, p :
                               IF p \in ToSet(ids) \ ToSet(order) THEN Append(order, p) ELSE order,
                           <<>>, entries)
    IN listed \o SelectSeq(ids, LAMBDA p : p \notin ToSet(listed))

\* Providers start first.  With any interceptor the tools and registries do next, for
\* their descriptions; without, they wait for their first call.
CanBuild(list) ==
    /\ Starts(Of("provider", list)) /\ Starts(Of("interceptor", list))
    /\ Of("interceptor", list) # <<>> => Starts(Of("tool", list)) /\ Starts(Of("registry", list))

\* open_classifier, when none is named: the first of the list that is a provider.
ClassifierOf(list) ==
    IF Of("provider", list) = <<>> THEN "none" ELSE Head(Of("provider", list)).id

Build(list, providers) ==
    IF ~CanBuild(list) THEN [state |-> "failed"]
    ELSE [state        |-> "built",
          providers    |-> OrderChain(providers, IdsOf(Of("provider", list))),
          interceptors |-> IdsOf(Of("interceptor", list)),
          tools        |-> ToSet(IdsOf(Of("tool", list))) \cup ToSet(IdsOf(Of("registry", list))),
          classifier   |-> ClassifierOf(list)]

---------------------------------------------------------------------------
(* The commands.                                                           *)

MayRun == command = "none" /\ runs < MaxRuns /\ runs' = runs + 1

\* Mutant: what starts lazily is not verified.
VerifyEagerOnes ==
    /\ MayRun
    /\ verified' = (/\ Boots /\ \A e \in config.enabled : disk[e] # "none"
                    /\ StartAll(BootedList, TRUE))
    /\ UNCHANGED <<config, disk, runtime, edits, installs>>

\* Boot, nothing missing, everything started, and gone again.
Verify ==
    /\ MayRun
    /\ verified' = (/\ Boots /\ \A e \in config.enabled : disk[e] # "none"
                    /\ StartAll(BootedList, FALSE))
    /\ UNCHANGED <<config, disk, runtime, edits, installs>>

Booted ==
    /\ extensions' = BootedList /\ chain' = config.chain
    /\ booted' = Len(BootedList) /\ vouched' = verified

\* serve boots, and builds nothing before the first request.
Serve ==
    /\ MayRun
    /\ IF Boots
         THEN command' = "serve" /\ Booted
         ELSE UNCHANGED <<command, chain, extensions, booted, vouched>>
    /\ UNCHANGED <<files, agents, installed, edits, installs>>

\* rpc, acp, mcp, ask and telegram build their one agent before anything else.
Rpc(s) ==
    /\ MayRun
    /\ IF Boots /\ CanBuild(BootedList)
         THEN /\ command' = "rpc" /\ Booted
              /\ agents' = [agents EXCEPT ![s] = Build(BootedList, config.chain)]
         ELSE UNCHANGED <<command, chain, extensions, booted, vouched, agents>>
    /\ UNCHANGED <<files, installed, edits, installs>>

Stop ==
    /\ command # "none"
    /\ command' = "none" /\ chain' = <<>> /\ extensions' = <<>>
    /\ booted' = 0 /\ vouched' = FALSE
    /\ agents' = NoAgents /\ installed' = NothingInstalled
    /\ UNCHANGED <<files, counts>>

---------------------------------------------------------------------------
(* A server's sessions.                                                    *)

HasAgent(s) == agents[s].state = "built"

\* A request finds no agent for its session, or one that is retired or could not be
\* built: a thread builds one from the list as it is now.
BuildAgent(s) ==
    /\ command = "serve" /\ ~HasAgent(s)
    /\ agents' = [agents EXCEPT ![s] = Build(extensions, chain)]
    /\ UNCHANGED <<files, counts, command, chain, extensions, installed, booted, vouched>>

\* A turn installs: the component was inspected, it was not started.
InstallTool(s, e, component) ==
    /\ HasAgent(s) /\ installs < MaxInstalls /\ component \in {"good", "faulty"}
    /\ disk' = [disk EXCEPT ![e] = component] /\ verified' = FALSE
    /\ installed' = [installed EXCEPT ![s] = Append(@, e)]
    /\ installs' = installs + 1
    /\ UNCHANGED <<config, command, chain, extensions, agents, booted, vouched, edits, runs>>

\* Mutant: the list is kept in boot order.
AdoptedInOrder(list, e) ==
    IF (\E i \in DOMAIN list : list[i].id = e) \/ disk[e] \in {"none", "refused"}
      THEN list
      ELSE LET order == BootOrder({list[i].id : i \in DOMAIN list} \cup {e})
               was(x) == SelectSeq(list, LAMBDA y : y.id = x)
           IN [i \in DOMAIN order |->
                 IF was(order[i]) = <<>> THEN Loaded(order[i]) ELSE was(order[i])[1]]

\* adopt_installed: what is in the list already is left as it is, missing or not;
\* what is gone again or refused is left out.
Adopted(list, e) ==
    IF (\E i \in DOMAIN list : list[i].id = e) \/ disk[e] \in {"none", "refused"}
      THEN list
      ELSE Append(list, Loaded(e))

\* after_turn, of a server: each is adopted, and all agents are retired.  Over a pipe
\* nobody takes what was installed.
AfterTurn(s) ==
    /\ command = "serve" /\ installed[s] # <<>>
    /\ extensions' = FoldLeft(Adopted, extensions, installed[s])
    /\ installed' = [installed EXCEPT ![s] = <<>>]
    /\ agents' = NoAgents
    /\ UNCHANGED <<files, counts, command, chain, booted, vouched>>

---------------------------------------------------------------------------
(* The operator, who may edit while a command runs.                        *)

EditConfig(c) ==
    /\ edits < MaxEdits /\ edits' = edits + 1 /\ c # config
    /\ config' = c /\ verified' = FALSE
    /\ UNCHANGED <<disk, runtime, installs, runs>>

PutComponents(put) ==
    /\ edits < MaxEdits /\ edits' = edits + 1 /\ put # disk
    /\ disk' = put /\ verified' = FALSE
    /\ UNCHANGED <<config, runtime, installs, runs>>

Next ==
    \/ Verify \/ Serve \/ Stop
    \/ \E s \in Sessions :
        \/ Rpc(s) \/ BuildAgent(s) \/ AfterTurn(s)
        \/ \E e \in AllIds, x \in Components : InstallTool(s, e, x)
    \/ \E c \in Configs : EditConfig(c)
    \/ \E put \in Distributions : PutComponents(put)

Spec == Init /\ [][Next]_vars

---------------------------------------------------------------------------

AgentIds(agent) == ToSet(agent.providers) \cup ToSet(agent.interceptors) \cup agent.tools

\* What `verify` passed can be served: of a runtime booted from it every agent is
\* built, with everything that is enabled - until an agent has installed a component
\* that does not start, and then it is that one that stops them.
VerifiedIsServed ==
    \A s \in Sessions : vouched =>
        /\ HasAgent(s) => {extensions[i].id : i \in 1..booted} \subseteq AgentIds(agents[s])
        /\ agents[s].state = "failed" =>
             \E i \in booted + 1..Len(extensions) : extensions[i].component = "faulty"

FirstIn(seq, x) == CHOOSE i \in DOMAIN seq : seq[i] = x /\ \A j \in 1..i-1 : seq[j] # x

\* Whether p is to be tried before q: as the chain lists them, then as booted.
Precedes(p, q) ==
    IF p \in ToSet(chain)
      THEN q \in ToSet(chain) => FirstIn(chain, p) < FirstIn(chain, q)
      ELSE /\ q \notin ToSet(chain)
           /\ FirstIn(IdsOf(extensions), p) < FirstIn(IdsOf(extensions), q)

\* An agent's fallback chain has every provider that is there, once, in the
\* configured order, however often `providers:` names one, and if it names one that
\* is not enabled, or not all of them.
ChainAsConfigured ==
    \A s \in Sessions : HasAgent(s) =>
        LET order == agents[s].providers IN
        /\ ToSet(order) = ToSet(IdsOf(Of("provider", extensions)))
        /\ \A i, j \in DOMAIN order : i < j => order[i] # order[j] /\ Precedes(order[i], order[j])

\* While a command runs, the interceptors a call passes keep their order: one that is
\* adopted comes after those the operator enabled.
GateKeepsItsOrder ==
    [][command' = command /\ command # "none" =>
         IsPrefix(IdsOf(Of("interceptor", extensions)), IdsOf(Of("interceptor", extensions')))]_vars

\* Violated: "Providers and interceptors are never lazy: they must fail at boot, not
\* mid-turn" (wasm/src/lib.rs:69); serve starts none of them before a request does.
FailsAtBoot ==
    \A s \in Sessions : agents[s].state = "failed" => Len(extensions) > booted

\* Violated: without a `classifier:` it is "the head of the chain" (wasm/src/lib.rs:931);
\* the code takes the first provider of the boot's order.
ClassifierHeadsTheChain ==
    \A s \in Sessions : HasAgent(s) /\ agents[s].providers # <<>> =>
        agents[s].classifier = Head(agents[s].providers)

\* Violated: a component that landed is served after its turn; not one the operator
\* had enabled before it was there, which adoption takes for loaded.
LandedIsAdopted ==
    command = "serve" /\ NothingInstalled = installed =>
        \A i \in DOMAIN extensions : extensions[i].component = "missing" =>
            disk[extensions[i].id] \notin {"good"}
=============================================================================
