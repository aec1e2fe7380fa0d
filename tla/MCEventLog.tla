------------------------------ MODULE MCEventLog ------------------------------
(* A small instance of EventLog: two sessions, a transcript of one of them.  *)
(* And of the way to it: config.yaml under its writer, and gateways that     *)
(* start and look for the store that has the log.  What is in the store is   *)
(* for Launch a set of sessions, so a behaviour is one of one of the three.  *)
EXTENDS EventLog

CONSTANTS
    s1, s2,
    ByHand, BySetup, Environment, Programs, Writers, MaxEdits,                      \* of Config
    Starters, OldSessions, Broken, GuestsOf, Components, Limit, MaxStarts           \* of Launch

\* A document is whole, and a store is where one may be left.
ASSUME LaunchAssumption ==
    /\ [yaml |-> FALSE, missing |-> FALSE] \notin ByHand \cup BySetup
    /\ MaxEdits \in Nat /\ MaxStarts \in Nat
    /\ \A old \in OldSessions : DOMAIN old \subseteq {"config", "state", "data", "beside", "absolute"}

MCKinds == {"user-message", "done", "ask"}

MCPayloads == {"new", "old1", "old2"}

Row(k, p) == [kind |-> k, payload |-> p]

\* s1 has a transcript of one turn.
MCOldTranscripts ==
    [s \in {s1, s2} |-> IF s = s1
        THEN <<Row("user-message", "old1"), Row("done", "old1")>>
        ELSE <<>>]

\* A store without the table; a table from before the digest column, in s2, or in both.
MCOldTables ==
    { [s \in {s1, s2} |-> <<>>],
      [s \in {s1, s2} |-> IF s = s2 THEN <<Row("ask", "old1"), Row("user-message", "old1"), Row("done", "old2")>>
                          ELSE <<>>],
      [s \in {s1, s2} |-> IF s = s2 THEN <<Row("user-message", "old1"), Row("done", "old1")>>
                          ELSE <<Row("user-message", "new"), Row("done", "new")>>] }

\* Documents: a shipped one, which needs a key; one without a store of its own that asks
\* for tokens; one with two stores enabled, of which the audit sees only that it has
\* providers; and a file that an editor has truncated.
Entry(name, enabled, variables) ==
    [name |-> name, map |-> TRUE, enabled |-> enabled, type |-> "absent", variables |-> variables]
Category(name, entries) == [name |-> name, map |-> TRUE, entries |-> entries]
Providers ==
    Category("provider", <<Entry("anthropic", "absent", <<"ANTHROPIC_API_KEY">>),
                           Entry("openai", "yes", <<"OPENAI_API_KEY">>)>>)
Stores == Category("store", <<Entry("a", "yes", <<>>), Entry("b", "yes", <<>>)>>)
Doc(categories, storage, principals, tokens) ==
    [yaml |-> TRUE, missing |-> FALSE, root |-> TRUE, keys |-> 2, extensions |-> "map",
     categories |-> categories, observability |-> "absent", storage |-> storage,
     principals |-> principals, tokens |-> tokens, registry |-> "absent", servers |-> {"github"}]
Shipped == Doc(<<Providers>>, "relative", "absent", {})
Guarded == Doc(<<>>, "none", "map", {"text", "JAN_KLOD_TOKEN"})
MCByHand == {Shipped, Guarded, Doc(<<Providers, Stores>>, "relative", "odd", {}), [yaml |-> FALSE, saved |-> "half"]}
MCBySetup == {Shipped, Doc(<<Providers>>, "absolute", "absent", {})}

MCEnvironment == {{}, {"OPENAI_API_KEY"}, {"OPENAI_API_KEY", "JAN_KLOD_TOKEN"}}
MCGuestsOf == [coding |-> {<<"tool", "fs">>}]
MCComponents == {<<"tool", "fs", "extra">>}

\* What earlier installs and earlier starts have left: in the data directory and in the
\* state directory; beside the binary too; only there.
MCOldSessions ==
    {[x \in {"data", "state"} |-> IF x = "data" THEN {0} ELSE {1}],
     [x \in {"data", "beside", "config"} |-> IF x = "data" THEN {0, 1} ELSE {1}],
     [x \in {"beside"} |-> {0}]}

VARIABLES
    part,       \* "log", "config" or "launch"
    file, tmp, digest, writer, check, env, edits, written, overlapped,
    store, journal, proc, installed, movable, starts, known, disturbed

L == INSTANCE Launch

starters == <<store, journal, proc, installed, movable, starts, known, disturbed>>
launching == <<file, tmp, digest, writer, check, env, edits, written, overlapped, starters>>

\* Those that do not move begin in one of their initial states.
EitherInit ==
    /\ part \in {"log", "config", "launch"} /\ Init /\ L!LaunchInit
    /\ part # "log" => hasColumn /\ \A s \in Sessions : DOMAIN events[s] = {}
    /\ part # "launch" =>
         /\ file = Shipped /\ env = {} /\ ~installed /\ ~movable /\ store["beside"].there
         /\ store["data"].there

E(step) == part = "log" /\ step /\ UNCHANGED <<part, launching>>
C(step) == part = "config" /\ step /\ UNCHANGED <<part, vars, starters>>
G(step) == part = "launch" /\ step /\ UNCHANGED <<part, vars>>

EitherNext ==
    \/ E(OpenCurrent) \/ E(OpenOld) \/ E(BackfillRow) \/ E(BackfillDone)
    \/ E(ConvertRow) \/ E(ConvertDone) \/ E(ConvertFails) \/ E(Crash)
    \/ \E s \in Sessions : E(ConvertSession(s)) \/ E(PurgeSessionEvents(s))
    \/ \E s \in Sessions, kind \in Kinds, payload \in NewPayloads :
         E(AppendEvent(s, [kind |-> kind, payload |-> payload]))
    \/ \E from, into \in Sessions, at \in 0..MaxRows : E(ForkEvents(from, at, into))
    \/ \E w \in Writers :
        \/ \E doc \in BySetup : C(L!OpenTmp(w, doc))
        \/ C(L!FillTmp(w)) \/ C(L!Rename(w)) \/ C(L!RenameFails(w)) \/ C(L!OpenDigest(w))
        \/ C(L!FillDigest(w)) \/ C(L!Fails(w))
    \/ C(L!HandEdit(Guarded)) \/ C(L!CheckDigest) \/ C(L!CheckFile)
    \/ \E doc \in ByHand : G(L!EditDuring(doc))
    \/ \E p \in Starters :
        \/ \E command \in {"serve", "chain"} : G(L!Start(p, command))
        \/ G(L!StoreDir(p)) \/ G(L!LookBehind(p)) \/ G(L!LookAhead(p)) \/ G(L!Move(p)) \/ G(L!MoveFails(p))
        \/ G(L!Boot(p)) \/ G(L!BootFails(p)) \/ G(L!Serve(p)) \/ G(L!VerifyChain(p))
        \/ G(L!BeginWrite(p)) \/ G(L!EndWrite(p)) \/ G(L!Ends(p))
    \/ G(starts = MaxStarts /\ UNCHANGED launching)

EitherSpec == EitherInit /\ [][EitherNext]_<<part, vars, launching>>

\* The properties of the way to the log, by the names they have there.
LaunchTypes == L!LaunchTypes
ConfigIsWhole == L!ConfigIsWhole
EditsAreNoticed == L!EditsAreNoticed
EarlierSessionsSeen == L!EarlierSessionsSeen
AuditForetells == L!AuditForetells
===============================================================================
