----------------------------- MODULE MCHostProcess -----------------------------
(* What tools do outside the gateway: the commands and children of           *)
(* host-process; the workspace's files, a tree that is searched; and what a   *)
(* command is when it runs.  A behaviour is one of the three.                 *)
EXTENDS HostProcess, TLC

VARIABLES
    part,                                \* "process", "search" or "commands"
    tree, search, searches, changes,
    block, host, exe, dirs, runner, started, proc, replaced

searchvars == <<tree, search, searches, changes>>
commandvars == <<block, host, exe, dirs, runner, started, proc, replaced>>

-----------------------------------------------------------------------------
\* Trees with a build directory, a file of credentials, one that is no text, a directory
\* that does not list, more entries than are visited and a file too deep to be found.
Dir == [is |-> "dir"]
Closed == [is |-> "closed"]
Lines(n) == [is |-> "file", lines |-> n]
NoText == [is |-> "binary"]
Shallow == (<<"a">> :> Lines(1)) @@ (<<"key">> :> Lines(1)) @@ (<<"out">> :> Dir)
      @@ (<<"out", "a">> :> Lines(1)) @@ (<<"src">> :> Dir) @@ (<<"src", "a">> :> Lines(2))
      @@ (<<"src", "lib">> :> NoText) @@ (<<"src", "src">> :> Dir) @@ (<<"src", "src", "a">> :> Lines(1))
Barred == (<<"a">> :> NoText) @@ (<<"lib">> :> Dir) @@ (<<"lib", "a">> :> Lines(0))
      @@ (<<"src">> :> Dir) @@ (<<"src", "a">> :> Lines(3)) @@ (<<"src", "key">> :> Lines(0))
      @@ (<<"src", "src">> :> Closed) @@ (<<"src", "src", "a">> :> Lines(1))
Deep == (<<"key">> :> Lines(0)) @@ (<<"lib">> :> Dir) @@ (<<"lib", "key">> :> Lines(1))
      @@ (<<"src">> :> Dir) @@ (<<"src", "a">> :> Lines(1)) @@ (<<"src", "src">> :> Dir)
      @@ (<<"src", "src", "lib">> :> Dir) @@ (<<"src", "src", "lib", "a">> :> Lines(1))
Trees == {Shallow, Barred, Deep}
Globs == {<<"a">>, <<"*">>, <<"key">>, <<"src", "*">>, <<"out", "a">>, <<"src", "**">>,
          <<"**", "src", "**", "a">>}
F == INSTANCE Search WITH
    Names <- <<"a", "key", "lib", "out", "src">>, Trees <- Trees, Patterns <- Globs,
    Pruned <- {"out"}, Credentials <- {"key"},
    MaxVisits <- 7, MaxDepth <- 3, MaxResults <- 2, MaxMatches <- 3, OutputCap <- 2,
    MaxSearches <- 1, MaxChanges <- 1

-----------------------------------------------------------------------------
\* Blocks that grant and deny what a block can, among them a flag that is no Boolean, a mode
\* that is unknown, a directory outside the workspace and a workspace that does not open; a
\* name that occurs twice.
Granted(enabled, workspace, mode, writable, network, require, passthrough) ==
    [enabled |-> enabled, workspace |-> workspace, mode |-> mode, writable |-> writable,
     network |-> network, require |-> require, passthrough |-> passthrough,
     longLived |-> <<[name |-> "dev", command |-> <<"serve">>], [name |-> "dev", command |-> <<"watch">>]>>]
Default == Granted("yes", "absent", "absent", {"absent"}, "absent", "absent", {})
Configured == {Default,
    Granted("yes", "set", "os", {"out"}, "no", "yes", {"KEY"}),
    Granted("yes", "set", "os", {"out", "."}, "yes", "odd", {"TMPDIR"}),
    Granted("yes", "set", "approval-only", {"."}, "odd", "absent", {}),
    Granted("yes", "set", "approval-only", {"."}, "odd", "yes", {}),
    Granted("yes", "set", "other", {"."}, "no", "no", {}),
    Granted("yes", "set", "os", {"outside"}, "no", "no", {}),
    Granted("odd", "set", "os", {"."}, "no", "no", {}),
    Granted("yes", "gone", "os", {"."}, "no", "no", {})}
Linux(abi, cwd) == [os |-> "linux", abi |-> abi, applier |-> FALSE, cwd |-> cwd]
Mac(applier) == [os |-> "mac", abi |-> 0, applier |-> applier, cwd |-> "project"]
Machines == {Linux(0, "project"), Linux(4, "project"), Linux(6, "project"), Linux(6, "home"),
             Mac(TRUE), Mac(FALSE)}
Asks(op, path, rev) == [op |-> op, path |-> path, rev |-> rev]
ToGit == {Asks("diff", "option", "none"), Asks("push", "none", "none"),
          Asks("log", "plain", "none"), Asks("log", "outside", "none"), Asks("show", "none", "option")}
ToTheShell == {<<"--network", "x">>, <<"">>}
C == INSTANCE Commands WITH
    Agents <- {"a"}, Blocks <- Configured, Hosts <- Machines,
    Inherited <- {"PATH", "KEY", "TMPDIR", "SECRET"}, BaseEnv <- {"PATH", "TMPDIR"},
    Dirs <- {"out"}, Asked <- ToTheShell, GitCalls <- ToGit,
    MaxRuns <- 2, MaxChanges <- 1, changes <- replaced

-----------------------------------------------------------------------------
Still == block = Default /\ host = Linux(0, "project")
EitherInit ==
    /\ Init /\ F!Init /\ C!Init
    /\ \/ part = "process" /\ tree = Deep /\ Still
       \/ part = "search" /\ Still
       \/ part = "commands" /\ tree = Deep

P(step) == part = "process" /\ step /\ UNCHANGED <<part, searchvars, commandvars>>
S(step) == part = "search" /\ step /\ UNCHANGED <<part, vars, commandvars>>
X(step) == part = "commands" /\ step /\ UNCHANGED <<part, vars, searchvars>>

EitherNext ==
    \/ \E p \in Procs : P(Child(p))
    \/ \E h \in Handles : P(ReadsStdout(h)) \/ P(ReadsStderr(h))
    \/ P(InCall) \/ P(Guest)
    \/ \E pattern \in Globs, root \in {<<>>} \cup F!Paths :
        S(F!Begin("find", root, pattern)) \/ S(F!Begin("grep", root, pattern))
    \/ \E path \in F!Paths : S(F!BeginAtFile(path)) \/ S(F!Grep(path))
    \/ S(F!Walk) \/ S(F!Return) \/ S(F!Answered)
    \/ \E t \in Trees : S(F!Changes(t))
    \/ X(C!Build("a")) \/ X(C!EndAgent("a")) \/ X(C!Start("a", "dev")) \/ X(C!Stop("a", "dev"))
    \/ \E command \in ToTheShell : X(C!Shell("a", command))
    \/ \E asked \in ToGit : X(C!Git("a", asked))
    \/ \E i \in 1..2 : X(C!Confine(i)) \/ X(C!Ends(i))
    \/ X(C!BinaryChanges) \/ X(C!DirChanges("out"))

EitherSpec ==
    /\ EitherInit /\ [][EitherNext]_<<part, vars, searchvars, commandvars>>
    /\ WF_vars(part = "process" /\ InCall)
    /\ \A h \in Handles :
        /\ WF_vars(part = "process" /\ ReadsStdout(h))
        /\ WF_vars(part = "process" /\ ReadsStderr(h))

\* The properties of a search and of what runs, by the names their modules give them.
SearchTypes == F!SearchTypes
PartialIsSaid == F!PartialIsSaid
DepthIsSaid == F!DepthIsSaid
CommandTypes == C!CommandTypes
RunsAsAsked == C!RunsAsAsked
OneOfEachName == C!OneOfEachName
GitOnlyReads == C!GitOnlyReads
=============================================================================
