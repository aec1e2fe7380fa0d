------------------------------ MODULE HostProcess ------------------------------
(***************************************************************************)
(* The child processes of one tool instance: exec, which runs a command to *)
(* its end under a time limit and reads its output afterwards, and the     *)
(* long-lived children, which reader threads drain.  Modelled from         *)
(* pkgs/host/wasm/src/host_process.rs and its callers in tool_host.rs.     *)
(*                                                                         *)
(* One thread makes every call of an instance, so one call runs at a time. *)
(* Output is counted in chunks: a stream is a pipe of at most Pipe chunks  *)
(* between what was written and what was got, and since chunks are neither *)
(* lost nor reordered in a pipe, two counters describe it.  Child 0 is the *)
(* child of the running exec, child h that of handle h.                    *)
(***************************************************************************)
EXTENDS Integers

CONSTANTS
    MaxSpawns,   \* bound: long-lived children of one instance
    Pipe,        \* chunks a pipe holds
    Cap,         \* output_cap, in chunks
    MaxOut,      \* bound: chunks written to a standard output
    MaxErr,      \* bound: chunks written to a standard error
    MaxIn,       \* bound: chunks of one exec's standard input
    Forks        \* whether a child may leave a process of its own holding its pipes

ASSUME HostProcessAssumption ==
    /\ MaxSpawns \in Nat /\ MaxOut \in Nat /\ MaxErr \in Nat /\ MaxIn \in Nat
    /\ Pipe \in Nat \ {0} /\ Cap \in Nat \ {0} /\ Forks \in BOOLEAN

VARIABLES
    alive,    \* the children that run
    held,     \* the children whose pipes another process holds open
    stdin,    \* chunks in a child's standard input
    wrote,    \* chunks written to each stream
    got,      \* chunks the host took from each stream's pipe
    lo,       \* chunks of a long-lived child's stdout read by the guest or dropped
    tail,     \* the children whose stderr thread has sent what it kept
    live,     \* Children.live
    next,     \* Children.next
    said,     \* handle -> stderr chunks in the report of its death, Silent before
    call,     \* the call the instance is in
    last      \* the result of the last exec

vars == <<alive, held, stdin, wrote, got, lo, tail, live, next, said, call, last>>
pipes == <<wrote, got, lo, tail>>
children == <<live, next, said>>

Handles == 1..MaxSpawns
Procs == 0..MaxSpawns
Streams == {"out", "err"}
Silent == -1
Idle == [op |-> "idle", child |-> 0, left |-> 0]
NoExit == [result |-> "none", out |-> 0, err |-> 0, cut |-> {}]
ExecOps == {"feed", "wait", "out", "err"}

Smaller(m, n) == IF m < n THEN m ELSE n

\* Whether some process may still write to, or read from, a child's pipes.
Open(p) == p \in alive \cup held
Drained(p, s) == got[p][s] = wrote[p][s] /\ ~Open(p)

Init ==
    /\ alive = {} /\ held = {}
    /\ stdin = [p \in Procs |-> 0]
    /\ wrote = [p \in Procs |-> [s \in Streams |-> 0]]
    /\ got = [p \in Procs |-> [s \in Streams |-> 0]]
    /\ lo = [h \in Handles |-> 0]
    /\ tail = {} /\ live = {} /\ next = 0
    /\ said = [h \in Handles |-> Silent]
    /\ call = Idle /\ last = NoExit

-----------------------------------------------------------------------------
(* What a child does, and what it leaves behind: any program. *)

Writes(p, s) ==
    /\ Open(p)
    /\ wrote[p][s] < IF s = "out" THEN MaxOut ELSE MaxErr
    /\ wrote[p][s] - got[p][s] < Pipe
    /\ wrote' = [wrote EXCEPT ![p][s] = @ + 1]
    /\ UNCHANGED <<alive, held, stdin, got, lo, tail, live, next, said, call, last>>

Reads(p) ==
    /\ p \in alive /\ stdin[p] > 0
    /\ stdin' = [stdin EXCEPT ![p] = @ - 1]
    /\ UNCHANGED <<alive, held, wrote, got, lo, tail, live, next, said, call, last>>

LeavesAHolder(p) ==
    /\ Forks /\ p \in alive /\ p \notin held
    /\ held' = held \cup {p}
    /\ UNCHANGED <<alive, stdin, wrote, got, lo, tail, live, next, said, call, last>>

Exits(p) ==
    /\ \/ p \in alive /\ alive' = alive \ {p} /\ UNCHANGED held
       \/ p \in held \ alive /\ held' = held \ {p} /\ UNCHANGED alive
    /\ UNCHANGED <<stdin, wrote, got, lo, tail, live, next, said, call, last>>

-----------------------------------------------------------------------------
(* exec. *)

Returns(exit) == call' = Idle /\ last' = exit

\* Denied without a workspace or outside it; a backend may refuse to confine.
ExecRefused ==
    /\ call = Idle
    /\ \E why \in {"denied", "spawn-failed"} : Returns([NoExit EXCEPT !.result = why])
    /\ UNCHANGED <<alive, held, stdin, pipes, children>>

Exec(n) ==
    /\ call = Idle
    /\ call' = [op |-> "feed", child |-> 0, left |-> n]
    /\ alive' = alive \cup {0} /\ held' = held \ {0}
    /\ stdin' = [stdin EXCEPT ![0] = 0]
    /\ wrote' = [wrote EXCEPT ![0] = [s \in Streams |-> 0]]
    /\ got' = [got EXCEPT ![0] = [s \in Streams |-> 0]]
    /\ last' = NoExit
    /\ UNCHANGED <<lo, tail, children>>

\* write_all blocks while the pipe is full and somebody may read it; an error
\* is ignored, and the pipe is closed by dropping the handle.
Feed ==
    /\ call.op = "feed"
    /\ \/ /\ call.left > 0 /\ Open(0) /\ stdin[0] < Pipe
          /\ stdin' = [stdin EXCEPT ![0] = @ + 1]
          /\ call' = [call EXCEPT !.left = @ - 1]
       \/ /\ call.left = 0 \/ ~Open(0)
          /\ call' = [call EXCEPT !.op = "wait", !.left = 0]
          /\ UNCHANGED stdin
    /\ UNCHANGED <<alive, held, pipes, children, last>>

SeesExit ==
    /\ call.op = "wait" /\ 0 \notin alive
    /\ call' = [call EXCEPT !.op = "out"]
    /\ UNCHANGED <<alive, held, stdin, pipes, children, last>>

\* The deadline is looked at in the loop that waits for the exit, nowhere else.
Deadline ==
    /\ call.op = "wait" /\ 0 \in alive
    /\ alive' = alive \ {0}
    /\ Returns([NoExit EXCEPT !.result = "timeout"])
    /\ UNCHANGED <<held, stdin, pipes, children>>

\* Mutant: a stream is taken as read as soon as its pipe is empty.
FullyReadWhenEmpty(s) == got[0][s] > Cap \/ got[0][s] = wrote[0][s]

\* read_capped reads one chunk more than it keeps, to know that it cut.
FullyRead(s) == got[0][s] > Cap \/ Drained(0, s)

ReadExec(s) ==
    /\ call.op = s /\ ~FullyRead(s) /\ got[0][s] < wrote[0][s]
    /\ got' = [got EXCEPT ![0][s] = @ + 1]
    /\ UNCHANGED <<alive, held, stdin, wrote, lo, tail, children, call, last>>

Kept(p, s) == Smaller(got[p][s], Cap)

ReadDone(s) ==
    /\ call.op = s /\ FullyRead(s)
    /\ IF s = "out"
       THEN call' = [call EXCEPT !.op = "err"] /\ UNCHANGED last
       ELSE Returns([result |-> "exit", out |-> Kept(0, "out"), err |-> Kept(0, "err"),
                     cut |-> {t \in Streams : got[0][t] > Cap}])
    /\ UNCHANGED <<alive, held, stdin, pipes, children>>

-----------------------------------------------------------------------------
(* Long-lived children. *)

\* The name must be granted and the command must start, else no handle is used.
Spawn ==
    /\ call = Idle /\ next < MaxSpawns
    /\ next' = next + 1
    /\ live' = live \cup {next'} /\ alive' = alive \cup {next'}
    /\ UNCHANGED <<held, stdin, pipes, said, call, last>>

\* Mutant: the thread stops reading while the buffer is full.
ReadsStdoutWhileRoom(h) ==
    /\ got[h]["out"] < wrote[h]["out"] /\ got[h]["out"] - lo[h] < Cap
    /\ got' = [got EXCEPT ![h]["out"] = @ + 1]
    /\ UNCHANGED <<alive, held, stdin, wrote, lo, tail, children, call, last>>

\* Mutant: the buffer is not bounded.
ReadsStdoutKeepingAll(h) ==
    /\ got[h]["out"] < wrote[h]["out"]
    /\ got' = [got EXCEPT ![h]["out"] = @ + 1]
    /\ UNCHANGED <<alive, held, stdin, wrote, lo, tail, children, call, last>>

\* What the two reader threads of a child do until they see the end.
ReadsStdout(h) ==
    /\ got[h]["out"] < wrote[h]["out"]
    /\ got' = [got EXCEPT ![h]["out"] = @ + 1]
    /\ lo' = [lo EXCEPT ![h] = IF got'[h]["out"] - @ > Cap THEN got'[h]["out"] - Cap ELSE @]
    /\ UNCHANGED <<alive, held, stdin, wrote, tail, children, call, last>>

ReadsStderr(h) ==
    /\ \/ /\ got[h]["err"] < wrote[h]["err"]
          /\ got' = [got EXCEPT ![h]["err"] = @ + 1] /\ UNCHANGED tail
       \/ /\ h <= next /\ h \notin tail /\ Drained(h, "err")
          /\ tail' = tail \cup {h} /\ UNCHANGED got
    /\ UNCHANGED <<alive, held, stdin, wrote, lo, children, call, last>>

\* A call on a handle this instance does not hold is denied at once.
Call(op, h) ==
    /\ call = Idle /\ h \in live
    /\ call' = [op |-> op, child |-> h, left |-> 0]
    /\ UNCHANGED <<alive, held, stdin, pipes, children, last>>

WriteStdin ==
    /\ call.op = "write"
    /\ \/ /\ Open(call.child) /\ stdin[call.child] < Pipe
          /\ stdin' = [stdin EXCEPT ![call.child] = @ + 1]
       \/ ~Open(call.child) /\ UNCHANGED stdin
    /\ call' = Idle
    /\ UNCHANGED <<alive, held, pipes, children, last>>

\* Mutant: the wait for output has no end.
ReadStdoutPatiently ==
    /\ call.op = "read" /\ got[call.child]["out"] > lo[call.child]
    /\ lo' = [lo EXCEPT ![call.child] = @ + 1]
    /\ call' = Idle
    /\ UNCHANGED <<alive, held, stdin, wrote, got, tail, children, last>>

\* At least one chunk if there is one, else empty when the wait is over.
ReadStdout ==
    /\ call.op = "read"
    /\ LET unread == got[call.child]["out"] - lo[call.child]
       IN \/ \E k \in 1..unread : lo' = [lo EXCEPT ![call.child] = @ + k]
          \/ unread = 0 /\ UNCHANGED lo
    /\ call' = Idle
    /\ UNCHANGED <<alive, held, stdin, wrote, got, tail, children, last>>

\* Mutant: the report takes what the stderr thread has read by now.
IsRunningAtOnce ==
    /\ call.op = "look"
    /\ LET h == call.child
       IN IF h \in alive \/ said[h] # Silent THEN UNCHANGED said
          ELSE said' = [said EXCEPT ![h] = Kept(h, "err")]
    /\ call' = Idle
    /\ UNCHANGED <<alive, held, stdin, pipes, live, next, last>>

\* The first look that sees the exit reports it with the last of stderr, for
\* which it waits STDERR_DRAIN.  Timing assumption: a thread that can read is
\* done within that time, so the wait ends in vain only if the pipe is held.
IsRunning ==
    /\ call.op = "look"
    /\ LET h == call.child
       IN \/ (h \in alive \/ said[h] # Silent) /\ UNCHANGED said
          \/ /\ h \notin alive /\ said[h] = Silent /\ h \in tail
             /\ said' = [said EXCEPT ![h] = Kept(h, "err")]
          \/ /\ h \notin alive /\ said[h] = Silent /\ h \notin tail /\ h \in held
             /\ said' = [said EXCEPT ![h] = 0]
    /\ call' = Idle
    /\ UNCHANGED <<alive, held, stdin, pipes, live, next, last>>

\* Mutant: the handle is forgotten and its child left alone.
KillForgetting(h) ==
    /\ call = Idle /\ h \in live
    /\ live' = live \ {h}
    /\ UNCHANGED <<alive, held, stdin, pipes, next, said, call, last>>

\* Removing the child from the map drops it, which kills and reaps it.
Kill(h) ==
    /\ call = Idle /\ h \in live
    /\ live' = live \ {h} /\ alive' = alive \ {h}
    /\ UNCHANGED <<held, stdin, pipes, next, said, call, last>>

\* However the instance goes, its children go with it.
DropInstance ==
    /\ call = Idle
    /\ call' = [Idle EXCEPT !.op = "dropped"]
    /\ live' = {} /\ alive' = alive \ live
    /\ UNCHANGED <<held, stdin, pipes, next, said, last>>

-----------------------------------------------------------------------------
Child(p) == Reads(p) \/ LeavesAHolder(p) \/ Exits(p) \/ \E s \in Streams : Writes(p, s)

InCall ==
    \/ Feed \/ SeesExit \/ Deadline
    \/ \E s \in Streams : ReadExec(s) \/ ReadDone(s)
    \/ WriteStdin \/ ReadStdout \/ IsRunning

Guest ==
    \/ ExecRefused \/ Spawn \/ DropInstance
    \/ \E n \in 0..MaxIn : Exec(n)
    \/ \E h \in Handles : Kill(h) \/ \E op \in {"write", "read", "look"} : Call(op, h)

Next ==
    \/ \E p \in Procs : Child(p)
    \/ \E h \in Handles : ReadsStdout(h) \/ ReadsStderr(h)
    \/ InCall \/ Guest

Spec == Init /\ [][Next]_vars

\* The host's threads run and time passes; no child need do anything.
FairSpec ==
    /\ Spec /\ WF_vars(InCall)
    /\ \A h \in Handles : WF_vars(ReadsStdout(h)) /\ WF_vars(ReadsStderr(h))

-----------------------------------------------------------------------------
TypeOK ==
    /\ alive \subseteq Procs /\ held \subseteq Procs /\ tail \subseteq Handles
    /\ stdin \in [Procs -> 0..Pipe]
    /\ next \in Procs /\ live \subseteq 1..next
    /\ said \in [Handles -> Silent..Cap]
    /\ \A p \in Procs, s \in Streams : wrote[p][s] - got[p][s] \in 0..Pipe
    \* an unread buffer is bounded by the output cap
    /\ \A h \in Handles : got[h]["out"] - lo[h] \in 0..Cap
    /\ call \in [op : ExecOps \cup {"idle", "dropped", "write", "read", "look"},
                 child : Procs, left : 0..MaxIn]
    /\ last.result \in {"none", "denied", "spawn-failed", "timeout", "exit"}

\* What exec returns of a stream is all that was written to it before the last
\* writer was gone, cut at the cap and marked as cut only if it was: output is
\* read after the exit, and nothing of it is lost by that.
ExitIsWhole ==
    last.result = "exit" =>
        /\ last.out = Smaller(wrote[0]["out"], Cap)
        /\ last.err = Smaller(wrote[0]["err"], Cap)
        /\ last.cut = {s \in Streams : wrote[0][s] > Cap}

\* The report of a death holds the last of what the child wrote to stderr,
\* unless a process it left behind still holds that pipe: a child writes, then
\* exits, so a look at a buffer when the exit is seen could find it empty.
LastWords ==
    [][\A h \in Handles :
          said[h] = Silent /\ said'[h] # Silent /\ h \notin held
              => said'[h] = Smaller(wrote[h]["err"], Cap)]_vars

\* A handle that was given out and taken back has no process behind it, and
\* when the instance is gone none of its children runs.
StaleIsDead == \A h \in Handles : h \notin live => h \notin alive

\* A long-lived child that nobody reads is not stopped by a full pipe.
NeverStalled ==
    \A h \in Handles, s \in Streams :
        wrote[h][s] - got[h][s] = Pipe ~> wrote[h][s] - got[h][s] < Pipe

\* Whether an exec is stuck behind a child that does not read its input, or
\* behind a process the child left that holds its output.
InputUnread == call.op = "feed" /\ stdin[0] = Pipe
Wedged == InputUnread \/ 0 \in held

\* Every call returns, whatever the child does, except an exec that is wedged
\* and a write to a child that does not read.
CallsReturn ==
    /\ call.op \in ExecOps ~> call.op \notin ExecOps \/ Wedged
    /\ call.op \in {"read", "look"} ~> call.op \notin {"read", "look"}

\* What wit/host-process.wit says of exec: each run has a timeout.
ExecEnds == call.op \in ExecOps ~> call.op \notin ExecOps

================================================================================
