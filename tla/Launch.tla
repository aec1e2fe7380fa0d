-------------------------------- MODULE Launch --------------------------------
(***************************************************************************)
(* A start of the gateway: the configuration it reads several times over,  *)
(* the directory it finds or moves the session store to, the store it      *)
(* opens, and what its commands do with that; while config.yaml is edited  *)
(* or replaced and other gateways start, serve and are killed.             *)
(* Modelled from pkgs/host/host/src/main.rs; Config is the file.           *)
(*                                                                         *)
(* A store is an SQLite database with a rollback journal, found by the     *)
(* name under which it was opened.                                         *)
(***************************************************************************)
EXTENDS Config

CONSTANTS
    Starters,      \* gateways
    OldSessions,   \* the sessions of stores there may be to begin with, by place
    Broken,        \* sessions whose chain does not verify
    GuestsOf, Components, \* for the audit: each distribution's guests; what the directory has
    Limit,         \* how many sessions verify --chain looks at
    MaxStarts      \* starts, bounded

VARIABLES
    store,         \* the database file of each place
    journal,       \* whether there is a rollback journal of that name
    proc,          \* a gateway: how far it has come, the store it has
    installed,     \* the configuration is the installed one
    movable,       \* whether the state directory is on the file system of the others
    starts,
    known,         \* the sessions of the store in use, as its users know it
    disturbed      \* starts overlapped, or with an edit, or a store was moved in use

launchvars == <<store, journal, proc, installed, movable, starts, known, disturbed>>
vars == <<configvars, launchvars>>

\* The configuration's own directory; the state directory; the two where earlier
\* installs left a store; an absolute path.
Places == {"config", "state", "data", "beside", "absolute"}
Legacies == <<"data", "beside">>
Commands == {"serve", "chain"}

NoStore == [there |-> FALSE, sessions |-> {}, torn |-> FALSE]
Down == [pc |-> "down", command |-> "serve", dir |-> "none", at |-> "none", opened |-> "none",
         seen |-> {}, knew |-> {}, principals |-> "none", verdict |-> "none"]

\* Who is on its way to a store, and who has one open.
Starting(p) == proc[p].pc \in {"traced", "looking", "found", "moving", "placed"}
Serving(p) == proc[p].pc \in {"booted", "serving", "writing"}

LaunchInit ==
    /\ ConfigInit
    /\ \E old \in OldSessions :
         /\ store = [x \in Places |-> IF x \in DOMAIN old
                       THEN [there |-> TRUE, sessions |-> old[x], torn |-> FALSE] ELSE NoStore]
         /\ installed \in BOOLEAN /\ movable \in BOOLEAN
         /\ known = LET places == IF installed THEN <<"state">> \o Legacies ELSE <<"config">>
                        first  == SelectInSeq(places, LAMBDA x : x \in DOMAIN old)
                    IN IF first = 0 THEN {} ELSE old[places[first]]
    /\ journal = [x \in Places |-> FALSE]
    /\ proc = [p \in Starters |-> Down]
    /\ starts = 0 /\ disturbed = FALSE

Goes(p, pc) == proc' = [proc EXCEPT ![p].pc = pc]
Found(p, dir) == proc' = [proc EXCEPT ![p].pc = "placed", ![p].dir = dir]
Exits(p) == proc' = [proc EXCEPT ![p] = Down]
OnlyProc == UNCHANGED <<configvars, store, journal, installed, movable, starts, known, disturbed>>

---------------------------------------------------------------------------

\* init_tracing reads the configuration first, for the format of the log.
Start(p, command) ==
    /\ proc[p].pc = "down" /\ starts < MaxStarts /\ starts' = starts + 1
    /\ proc' = [proc EXCEPT ![p] = IF Loads(file) THEN [Down EXCEPT !.pc = "traced", !.command = command]
                                   ELSE Down]
    /\ disturbed' = (disturbed \/ (Loads(file) /\ \E q \in Starters : Starting(q)))
    /\ UNCHANGED <<configvars, store, journal, installed, movable, known>>

\* store_dir: beside the configuration, unless that is the installed one.  A file that
\* does not load, or has no relative path, leaves nothing to look for.
StoreDir(p) ==
    /\ proc[p].pc = "traced"
    /\ IF ~installed THEN Found(p, "config")
       ELSE IF Loads(file) /\ file.storage = "relative" THEN Goes(p, "looking")
       ELSE Found(p, "state")
    /\ OnlyProc

\* The first place of an earlier install that has a store, 0 if there is none.
FirstLeft == SelectInSeq(Legacies, LAMBDA x : store[x].there)

LookBehind(p) ==
    /\ proc[p].pc = "looking"
    /\ IF FirstLeft = 0 THEN Found(p, "state")
       ELSE proc' = [proc EXCEPT ![p].pc = "found", ![p].dir = Legacies[FirstLeft]]
    /\ OnlyProc

\* Mutant: what is found is moved, whatever is there.
StaysNever(p) == FALSE

\* A store that is there already stays.
StaysPut(p) == store["state"].there

LookAhead(p) ==
    /\ proc[p].pc = "found"
    /\ IF StaysPut(p) THEN Found(p, "state") ELSE Goes(p, "moving")
    /\ OnlyProc

\* The rename replaces what has come there since; its journal stays behind.  Who has the
\* store open keeps it.
Renamed(from) ==
    /\ store' = [store EXCEPT !["state"] = store[from], ![from] = NoStore]
    /\ disturbed' = (disturbed \/ journal[from] \/ \E q \in Starters : proc[q].at \in {from, "state"})
At(q, from) ==
    IF proc[q].at = from THEN "state" ELSE IF proc[q].at = "state" THEN "gone" ELSE proc[q].at

Move(p) ==
    LET from == proc[p].dir IN
    /\ proc[p].pc = "moving" /\ movable /\ store[from].there
    /\ Renamed(from)
    /\ proc' = [q \in Starters |-> IF q = p THEN [proc[p] EXCEPT !.pc = "placed", !.dir = "state"]
                                   ELSE [proc[q] EXCEPT !.at = At(q, from)]]
    /\ UNCHANGED <<configvars, journal, installed, movable, starts, known>>

\* "keeping the session store at": also when another start has just moved it.
MoveFails(p) ==
    /\ proc[p].pc = "moving" /\ (~movable \/ ~store[proc[p].dir].there)
    /\ Goes(p, "placed") /\ OnlyProc

\* Where the path of the configuration, as it is now, leads.
Resolved(p) ==
    CASE file.storage = "relative" -> proc[p].dir
      [] file.storage = "absolute" -> "absolute"
      [] OTHER -> "memory"

\* What is read of a database: a journal beside it is rolled back first; without it, a
\* transaction that was cut short has left nothing that can be read.
Readable(place) ==
    IF store[place].torn /\ ~journal[place] THEN {} ELSE store[place].sessions

InUse(place) == \E q \in Starters : proc[q].pc = "writing" /\ proc[q].at = place

\* The boot reads the configuration again, and opens or creates the store.
Boot(p) ==
    /\ proc[p].pc = "placed" /\ Loads(file)
    /\ LET place == Resolved(p) IN
       IF place = "memory"
       THEN /\ proc' = [proc EXCEPT ![p].pc = "booted", ![p].at = "memory", ![p].opened = "memory",
                                    ![p].seen = {}, ![p].knew = {}]
            /\ UNCHANGED <<store, journal>>
       ELSE /\ ~InUse(place)
            /\ store' = [store EXCEPT ![place] = [there |-> TRUE, sessions |-> Readable(place), torn |-> FALSE]]
            /\ journal' = [journal EXCEPT ![place] = FALSE]
            /\ proc' = [proc EXCEPT ![p].pc = "booted", ![p].at = place, ![p].opened = place,
                                    ![p].seen = Readable(place),
                                    ![p].knew = IF place = "absolute" THEN {} ELSE known]
    /\ UNCHANGED <<configvars, installed, movable, starts, known, disturbed>>

BootFails(p) ==
    /\ proc[p].pc = "placed" /\ ~Loads(file)
    /\ Exits(p) /\ OnlyProc

---------------------------------------------------------------------------
(* What the commands do with it.                                           *)

\* load_principals: a mapping's tokens, each a text or one variable; with no such mapping,
\* JAN_KLOD_TOKEN; else nobody is asked for anything.
Principals(doc) ==
    CASE doc.principals = "map" ->
           IF \E v \in doc.tokens : v = "odd" \/ (v # "text" /\ v \notin env) THEN "refused" ELSE "configured"
      [] OTHER -> IF "JAN_KLOD_TOKEN" \in env THEN "operator" ELSE "everybody"

Serve(p) ==
    /\ proc[p].pc = "booted" /\ proc[p].command = "serve"
    /\ IF Loads(file) /\ Principals(file) # "refused"
       THEN proc' = [proc EXCEPT ![p].pc = "serving", ![p].principals = Principals(file)]
       ELSE Exits(p)
    /\ OnlyProc

\* get_recent_sessions: sessions are numbered by the time of their last event.
Recent(sessions) == {s \in sessions : Cardinality({t \in sessions : t > s}) < Limit}

\* verify --chain: once more the directory, by the configuration as it is now, with a move
\* if there is one to make, and the store in it; a path that is not relative needs no look.
ChainDir ==
    IF ~installed THEN "config"
    ELSE IF file.storage = "relative" /\ FirstLeft # 0 /\ ~store["state"].there THEN Legacies[FirstLeft]
    ELSE "state"

Verdict(sessions) ==
    CASE sessions = {} -> "no sessions"
      [] Recent(sessions) \cap Broken # {} -> "broken"
      [] OTHER -> "intact"

VerifyChain(p) ==
    LET place == CASE file.storage = "relative" -> ChainDir
                   [] file.storage = "absolute" -> "absolute"
                   [] OTHER -> "memory"
        sessions == IF place = "memory" THEN {} ELSE Readable(place) IN
    /\ proc[p].pc = "booted" /\ proc[p].command = "chain" /\ Loads(file) /\ ~InUse(place)
    /\ IF place \in ToSet(Legacies) /\ movable THEN Renamed(place)
       ELSE /\ store' = IF place = "memory" THEN store
                        ELSE [store EXCEPT ![place] = [there |-> TRUE, sessions |-> sessions, torn |-> FALSE]]
            /\ UNCHANGED disturbed
    /\ proc' = [q \in Starters |->
         IF q = p THEN [proc[p] EXCEPT !.pc = "verified", !.seen = sessions, !.verdict = Verdict(sessions),
                                       !.knew = IF file.storage = "relative" THEN known ELSE {}]
         ELSE IF place \in ToSet(Legacies) /\ movable THEN [proc[q] EXCEPT !.at = At(q, place)] ELSE proc[q]]
    /\ journal' = IF place \in Places /\ ~(place \in ToSet(Legacies) /\ movable)
                  THEN [journal EXCEPT ![place] = FALSE] ELSE journal
    /\ UNCHANGED <<configvars, installed, movable, starts, known>>

\* A row is logged: the journal is written first, under the name the store was opened by.
BeginWrite(p) ==
    /\ proc[p].pc = "serving" /\ proc[p].at \in Places /\ ~store[proc[p].at].torn
    /\ p \notin store[proc[p].at].sessions
    /\ store' = [store EXCEPT ![proc[p].at].torn = TRUE]
    /\ journal' = [journal EXCEPT ![proc[p].opened] = TRUE]
    /\ Goes(p, "writing")
    /\ UNCHANGED <<configvars, installed, movable, starts, known, disturbed>>

EndWrite(p) ==
    /\ proc[p].pc = "writing"
    /\ store' = IF proc[p].at \notin Places THEN store
                ELSE [store EXCEPT ![proc[p].at].torn = FALSE, ![proc[p].at].sessions = @ \cup {p}]
    /\ journal' = [journal EXCEPT ![proc[p].opened] = FALSE]
    /\ known' = IF proc[p].at = "absolute" THEN known ELSE known \cup {p}
    /\ Goes(p, "serving")
    /\ UNCHANGED <<configvars, installed, movable, starts, disturbed>>

\* A command ends, or is killed wherever it stands.
Ends(p) ==
    /\ proc[p].pc # "down"
    /\ Exits(p) /\ OnlyProc

---------------------------------------------------------------------------

\* The file changes under those that are starting.
Disturbing ==
    /\ disturbed' = (disturbed \/ (file' # file /\ \E p \in Starters : Starting(p) \/ proc[p].pc = "booted"))
    /\ UNCHANGED <<store, journal, proc, installed, movable, starts, known>>

EditDuring(doc) == HandEdit(doc) /\ Disturbing
WriteDuring(w) == WriterStep(w) /\ Disturbing
CheckDuring == (CheckDigest \/ CheckFile) /\ Disturbing

LaunchNext ==
    \/ \E doc \in ByHand : EditDuring(doc)
    \/ \E w \in Writers : WriteDuring(w)
    \/ CheckDuring
    \/ \E p \in Starters :
        \/ \E command \in Commands : Start(p, command)
        \/ StoreDir(p) \/ LookBehind(p) \/ LookAhead(p) \/ Move(p) \/ MoveFails(p)
        \/ Boot(p) \/ BootFails(p) \/ Serve(p) \/ VerifyChain(p)
        \/ BeginWrite(p) \/ EndWrite(p) \/ Ends(p)

LaunchSpec == LaunchInit /\ [][LaunchNext]_vars

LaunchTypes ==
    /\ ConfigTypes
    /\ \A x \in Places : store[x].there \in BOOLEAN /\ store[x].torn \in BOOLEAN /\ journal[x] \in BOOLEAN
    /\ \A p \in Starters :
         /\ proc[p].pc \in {"down", "traced", "looking", "found", "moving", "placed", "booted",
                            "serving", "writing", "verified"}
         /\ proc[p].at \in Places \cup {"none", "memory", "gone"}
    /\ starts \in 0..MaxStarts

\* store_dir and the boot after it: whoever was killed and wherever stores were left, a
\* gateway serves every session of the store in use, if no two starts overlapped, the
\* configuration was not edited during one, and no store was moved that was open or whose
\* last transaction had been cut short.
EarlierSessionsSeen ==
    ~disturbed => \A p \in Starters : proc[p].pc # "down" => proc[p].knew \subseteq proc[p].seen

\* The same without the condition.
NoSessionIsStranded ==
    \A p \in Starters : proc[p].pc # "down" => proc[p].knew \subseteq proc[p].seen

\* The audit of setup: a provider of the shipped name that keeps a load from succeeding for
\* want of its key is one the audit warns about.
AuditForetells ==
    LET fault == Loaded(file)
        audit == Audited(file, "none", GuestsOf, Components) IN
    (fault.error = "MissingEnv" /\ fault.at \in DOMAIN KeyOf /\ fault.variable = KeyOf[fault.at])
      => audit.ok /\ fault.at \in audit.keys
================================================================================
