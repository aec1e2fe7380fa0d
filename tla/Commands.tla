------------------------------- MODULE Commands -------------------------------
(* How a command comes to run: what the operator's `execution:` grants, what *)
(* the build of an agent makes of it on its host, what tools ask for, and    *)
(* the wrapper that confines itself before it becomes the command            *)
(* (sandbox*.rs, host_process.rs, lib.rs and main.rs; tool-shell, tool-git   *)
(* and tool-proc).  The gateway's binary is replaced and directories come    *)
(* and go meanwhile.  What a process does to its pipes is HostProcess's.     *)
EXTENDS Naturals, Sequences, FiniteSets, SequencesExt

CONSTANTS
    Agents,
    Blocks,      \* `execution:` blocks; a flag may be "yes", "no", "odd" or "absent"
    Hosts,       \* the system, its Landlock ABI, whether there is a sandbox-exec, the gateway's cwd
    Inherited,   \* the gateway's variables
    BaseEnv,     \* BASE_ENV
    Dirs,        \* directories of the workspace that come and go
    Asked,       \* what a model may have the shell run: a program and its arguments
    GitCalls,    \* what it may ask of git
    MaxRuns, MaxChanges      \* bounds of the model

VARIABLES
    block, host, \* what the gateway was started with, and on
    exe,         \* its binary: the "same", "replaced" or "gone"
    dirs,        \* those of Dirs that are there
    runner,      \* the ProcessRunner of each agent
    started,     \* STARTED of its tool-proc: names and handles
    proc,        \* the processes started, in order
    changes

around == <<block, host>>
vars == <<around, exe, dirs, runner, started, proc, changes>>

-----------------------------------------------------------------------------
(* What was asked for, and what there is to do it with. *)

Mode == IF block.mode = "approval-only" THEN "approval-only" ELSE "os"
Writable == IF block.writable = {"absent"} THEN {"."} ELSE block.writable
Network == block.network = "yes"

\* SandboxPolicy::from_config: a mode it does not know, and an entry that is no string or
\* leads out of the workspace, are errors.
Readable == block.mode # "other" /\ Writable \subseteq {"."} \cup Dirs

\* An explicit workspace is taken if it opens, the gateway's directory if it is no home.
HasWorkspace == block.workspace = "set" \/ (block.workspace = "absent" /\ host.cwd = "project")

\* host_backend: Landlock re-executes this very binary, which a replaced one is not.
Backend ==
    CASE host.os = "mac" -> IF host.applier THEN "seatbelt" ELSE "none"
      [] host.os = "linux" -> IF host.abi >= 1 /\ exe = "same" THEN "landlock" ELSE "none"
      [] OTHER -> "none"

\* SandboxPolicy::resolve and refusal.
Effective == IF Mode = "os" /\ Backend # "none" THEN "os" ELSE "approval-only"
Refusal == block.require = "yes" /\ Effective # "os"

Unbuilt == [built |-> FALSE, enabled |-> FALSE, backend |-> "none", found |-> "none"]

\* open_process_runner, at the build of every agent.
Build(a) ==
    /\ ~runner[a].built
    /\ runner' = [runner EXCEPT ![a] =
         [built |-> TRUE, found |-> Backend,
          enabled |-> block.enabled = "yes" /\ HasWorkspace /\ Readable /\ ~Refusal,
          backend |-> IF Effective = "os" THEN Backend ELSE "none"]]
    /\ UNCHANGED <<around, exe, dirs, started, proc, changes>>

-----------------------------------------------------------------------------
(* The wrapper's arguments, as they are written and as they are read. *)

Wrapped(command) ==
    FlattenSeq([i \in 1..Cardinality(Writable) |-> <<"--writable", SetToSeq(Writable)[i]>>])
    \o (IF Network THEN <<"--network">> ELSE <<>>) \o <<"--">> \o command

Unread == [at |-> "flag", writable |-> {}, network |-> FALSE, command |-> <<>>]
Read(plan, arg) ==
    CASE plan.at = "command" -> [plan EXCEPT !.command = Append(@, arg)]
      [] plan.at = "path"    -> [plan EXCEPT !.at = "flag", !.writable = @ \cup {arg}]
      [] plan.at = "bad"     -> plan
      [] plan.at = "flag" /\ arg = "--writable" -> [plan EXCEPT !.at = "path"]
      [] plan.at = "flag" /\ arg = "--network"  -> [plan EXCEPT !.network = TRUE]
      [] plan.at = "flag" /\ arg = "--"         -> [plan EXCEPT !.at = "command"]
      [] OTHER -> [plan EXCEPT !.at = "bad"]

\* parse_confine_args.
Parsed(argv) == FoldLeft(Read, Unread, argv)
Runs(plan) == plan.at = "command" /\ plan.command # <<>> /\ Head(plan.command) # ""

-----------------------------------------------------------------------------
(* Processes. *)

\* What a process may do: write under these, use the network, and whether the kernel
\* enforces every right there is.
Reach(writes, network, whole) == [writes |-> writes, network |-> network, whole |-> whole]
Free == Reach({"everywhere"}, TRUE, FALSE)
There == Writable \subseteq {"."} \cup dirs

\* ProcessRunner::environment: the base's and the granted names that are set.
Environment == ((BaseEnv \cup block.passthrough) \cap Inherited) \cup {"TMPDIR", "NO_COLOR"}

\* ProcessRunner::prepared: Seatbelt writes a profile of what is there, or refuses;
\* Landlock leaves that to the wrapper, which must be there itself.
Prepared(a) ==
    /\ runner[a].enabled
    /\ runner[a].backend = "seatbelt" => There
    /\ runner[a].backend = "landlock" => exe # "gone"

Spawned(a, tool, name, command) ==
    [agent |-> a, tool |-> tool, name |-> name, asked |-> command, env |-> Environment,
     found |-> runner[a].found,
     state |-> IF runner[a].backend = "landlock" THEN "wrapped" ELSE "running",
     runs  |-> IF runner[a].backend = "landlock" THEN Wrapped(command) ELSE command,
     reach |-> IF runner[a].backend = "seatbelt" THEN Reach(Writable, Network, TRUE) ELSE Free]

Alive(p) == p \in DOMAIN proc /\ proc[p].state # "over"
Busy(a) == \E p \in DOMAIN proc : Alive(p) /\ proc[p].agent = a /\ proc[p].name = "exec"

Spawn(a, tool, name, command) ==
    /\ Len(proc) < MaxRuns /\ Prepared(a)
    /\ proc' = Append(proc, Spawned(a, tool, name, command))

\* ProcessRunner::exec holds its agent's thread until the command ends.
Exec(a, tool, command) ==
    /\ ~Busy(a) /\ Spawn(a, tool, "exec", command)
    /\ UNCHANGED <<around, exe, dirs, runner, started, changes>>

Shell(a, command) == Exec(a, "shell", command)

\* tool-git: an argument is "plain", an "option", leads "outside", is "odd" or is not there.
Valid(arg) == arg \in {"plain", "outside"}
Refused(call) ==
    \/ call.op \notin {"status", "branch", "diff", "log", "show"}
    \/ call.op \in {"diff", "log"} /\ call.path # "none" /\ (~Valid(call.path) \/ call.path = "outside")
    \/ call.op = "show" /\ ~Valid(call.rev)
Argv(call) ==
    <<"git", "hardened", call.op>>
    \o (IF call.op \in {"diff", "log"} /\ call.path # "none" THEN <<"--", call.path>>
        ELSE IF call.op = "show" THEN <<call.rev>> ELSE <<>>)
Git(a, call) == ~Refused(call) /\ Exec(a, "git", Argv(call))

\* tool-proc.  A name is one of `long-lived:`, the first of them that has it.
Named(list, name) == SelectSeq(list, LAMBDA x : x.name = name)
Forget(list, name) == SelectSeq(list, LAMBDA x : x.name # name)
IsRunning(a, name) == Named(started[a], name) # <<>> /\ Alive(Head(Named(started[a], name)).handle)

Start(a, name) ==
    /\ ~Busy(a) /\ ~IsRunning(a, name)
    /\ Named(block.longLived, name) # <<>>
    /\ Spawn(a, "proc", name, Head(Named(block.longLived, name)).command)
    /\ started' = [started EXCEPT ![a] = Append(Forget(@, name), [name |-> name, handle |-> Len(proc')])]
    /\ UNCHANGED <<around, exe, dirs, runner, changes>>

Over(these) == [p \in DOMAIN proc |-> IF p \in these THEN [proc[p] EXCEPT !.state = "over"] ELSE proc[p]]

Stop(a, name) ==
    /\ ~Busy(a) /\ Named(started[a], name) # <<>>
    /\ proc' = Over({Head(Named(started[a], name)).handle})
    /\ started' = [started EXCEPT ![a] = Forget(@, name)]
    /\ UNCHANGED <<around, exe, dirs, runner, changes>>

\* The agent's guests are dropped, and with them their children.
EndAgent(a) ==
    /\ runner[a].built /\ ~Busy(a)
    /\ proc' = Over({p \in DOMAIN proc : proc[p].agent = a})
    /\ runner' = [runner EXCEPT ![a] = Unbuilt] /\ started' = [started EXCEPT ![a] = <<>>]
    /\ UNCHANGED <<around, exe, dirs, changes>>

\* The kernel's part: denying the network takes ABI 4, every right there is ABI 5; a
\* directory must be there to be granted.
\* Mutant: as much as the kernel can.
AppliesInPart(plan) == plan.writable \subseteq {"."} \cup dirs /\ (plan.network \/ host.abi >= 4)
Applies(plan) ==
    plan.writable \subseteq {"."} \cup dirs /\ (plan.network \/ host.abi >= 4) /\ host.abi >= 5

\* The wrapper restricts itself and becomes the command, or exits with 126.
Confine(p) ==
    /\ p \in DOMAIN proc /\ proc[p].state = "wrapped"
    /\ LET plan == Parsed(proc[p].runs) IN
       proc' = [proc EXCEPT ![p] =
         IF Runs(plan) /\ Applies(plan)
         THEN [@ EXCEPT !.state = "running", !.runs = plan.command,
                        !.reach = Reach(plan.writable, plan.network, host.abi >= 5)]
         ELSE [@ EXCEPT !.state = "over"]]
    /\ UNCHANGED <<around, exe, dirs, runner, started, changes>>

\* A process exits, or a command's time is up.
Ends(p) ==
    /\ Alive(p) /\ proc' = Over({p})
    /\ UNCHANGED <<around, exe, dirs, runner, started, changes>>

-----------------------------------------------------------------------------
(* The host changes under the gateway. *)

BinaryChanges ==
    /\ changes < MaxChanges /\ changes' = changes + 1
    /\ exe' \in {"replaced", "gone"} \ {exe}
    /\ UNCHANGED <<around, dirs, runner, started, proc>>

DirChanges(d) ==
    /\ changes < MaxChanges /\ changes' = changes + 1
    /\ dirs' = IF d \in dirs THEN dirs \ {d} ELSE dirs \cup {d}
    /\ UNCHANGED <<around, exe, runner, started, proc>>

Init ==
    /\ block \in Blocks /\ host \in Hosts /\ exe = "same" /\ dirs = Dirs
    /\ runner = [a \in Agents |-> Unbuilt] /\ started = [a \in Agents |-> <<>>]
    /\ proc = <<>> /\ changes = 0

Names == {block.longLived[i].name : i \in DOMAIN block.longLived}

Next ==
    \/ \E a \in Agents :
        \/ Build(a) \/ EndAgent(a)
        \/ \E command \in Asked : Shell(a, command)
        \/ \E call \in GitCalls : Git(a, call)
        \/ \E name \in Names : Start(a, name) \/ Stop(a, name)
    \/ \E p \in 1..MaxRuns : Confine(p) \/ Ends(p)
    \/ BinaryChanges \/ \E d \in Dirs : DirChanges(d)

Spec == Init /\ [][Next]_vars

-----------------------------------------------------------------------------
\* CommandTypes: the types, and that a tool-proc holds handles of processes it started.
CommandTypes ==
    /\ exe \in {"same", "replaced", "gone"} /\ dirs \subseteq Dirs /\ changes \in 0..MaxChanges
    /\ \A a \in Agents : \A i \in DOMAIN started[a] : started[a][i].handle \in DOMAIN proc
    /\ \A p \in DOMAIN proc : proc[p].state \in {"wrapped", "running", "over"}

\* RunsAsAsked: a command that runs was granted by the operator and is what was asked for, with
\* the operator's variables and no others.  Where its agent was built with something to
\* confine it and `mode` wants that, it writes where it may, reaches the network if it may,
\* and every right is enforced; under `require` no command runs otherwise
\* (wasm lib.rs:827, host_process.rs:182, sandbox_landlock.rs:98, main.rs:918).
RunsAsAsked ==
    \A p \in DOMAIN proc : proc[p].state = "running" =>
        /\ block.enabled = "yes" /\ Readable /\ proc[p].runs = proc[p].asked
        /\ proc[p].tool = "proc" => proc[p].asked = Head(Named(block.longLived, proc[p].name)).command
        /\ proc[p].env \subseteq BaseEnv \cup block.passthrough \cup {"NO_COLOR"}
        /\ block.require = "yes" \/ (Mode = "os" /\ proc[p].found # "none") =>
              proc[p].reach = Reach(Writable, Network, TRUE)

\* OneOfEachName: a tool-proc that is alive has at most one process of a name, and it is the
\* one it can still read and stop; an agent that has ended has none.
OneOfEachName ==
    \A p \in DOMAIN proc : Alive(p) /\ proc[p].tool = "proc" =>
        /\ runner[proc[p].agent].built
        /\ Named(started[proc[p].agent], proc[p].name) = <<[name |-> proc[p].name, handle |-> p]>>

\* GitOnlyReads: what the git tool runs is one of its five subcommands, and nothing of what
\* the model wrote is an option to git (tool-git lib.rs:96).
GitOnlyReads ==
    \A p \in DOMAIN proc : proc[p].tool = "git" =>
        LET asked == proc[p].asked IN
        /\ asked[2] = "hardened" /\ asked[3] \in {"status", "branch", "diff", "log", "show"}
        /\ \A i \in 4..Len(asked) : asked[i] # "option"
           /\ (asked[i] = "outside" => asked[3] = "show")

\* Violated: commands are confined by "one decision" that is reported at boot
\* (docs/concepts/security-model.md:29): an agent that is built after the gateway's binary
\* was replaced confines nothing, beside those built before.
OneDecision ==
    \A a, b \in Agents : runner[a].built /\ runner[b].built => runner[a] = runner[b]

\* Violated: a flag that cannot be read "tightens" (sandbox.rs:288): `require` as well
\* defaults to false, which lets a command run unconfined.
UnreadableTightens ==
    \A p \in DOMAIN proc : proc[p].state = "running" /\ block.require = "odd" => proc[p].reach # Free

\* Violated: TMPDIR is in the workspace so that a confined command may write to it
\* (host_process.rs:163), but an operator who narrows `writable` leaves it out.
ScratchIsWritable ==
    \A p \in DOMAIN proc : proc[p].state = "running" => proc[p].reach.writes \cap {".", "everywhere"} # {}
=============================================================================
