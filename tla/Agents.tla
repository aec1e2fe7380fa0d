-------------------------------- MODULE Agents --------------------------------
(***************************************************************************)
(* The registry of live agents: one thread and one agent per session, a    *)
(* queue of jobs in front of each, and a generation number that retires    *)
(* the agents built before an extension was adopted.  Modelled from        *)
(* pkgs/host/host/src/{sessions,session_thread}.rs and their callers in    *)
(* serve.rs.                                                               *)
(*                                                                         *)
(* What interleaves: the threads of the requests, the threads of the       *)
(* sessions, and the owner of the registry, which may drop it.  A step is  *)
(* what one of them does between two points where another can come in: the *)
(* generation is read before the map is locked, the queue that was handed  *)
(* out is used after it is unlocked, the hook runs after a job and before  *)
(* its answer.  A session's thread is named after the request that         *)
(* spawned it.                                                             *)
(***************************************************************************)
EXTENDS Integers, Sequences, FiniteSets, SequencesExt

CONSTANTS
    Keys,        \* session ids, and the key of the housekeeping agent
    Requests,    \* requests to run a job on an agent
    KeyOf,       \* request -> the key it names
    Streaming,   \* requests whose caller follows the job's own output (Jobs::send)
    Installers,  \* requests whose turn installs an extension
    Owner,       \* the registry's owner: the surface with every request it serves
    Stop,        \* Task::Stop
    None

ASSUME AgentsAssumption ==
    /\ KeyOf \in [Requests -> Keys]
    /\ Streaming \subseteq Requests /\ Installers \subseteq Requests
    /\ Owner \notin Requests /\ Stop \notin Requests /\ None \notin Requests

VARIABLES
    request,     \* request -> new, loaded, holding, queued, answered or refused
    loaded,      \* request -> the generation it read
    handle,      \* request -> the thread whose queue it was given
    generation,  \* Agents.generation
    adopted,     \* what the runtime has adopted, named after the installer
    live,        \* Agents.live: key -> thread
    thread,      \* thread -> where it is
    builtAt,     \* thread -> Live.built_at
    queue,       \* thread -> the tasks in its queue
    job,         \* thread -> the job at hand
    seen,        \* thread -> what the runtime had adopted when its agent was built
    holders,     \* who holds a strong reference to the registry
    joining,     \* the threads a drop of the registry still waits for
    owner,       \* serving, dropping or gone
    told,        \* history: installers whose caller has seen the end of their turn
    known,       \* history: request -> `told` when it came in
    late         \* history: requests that reached a queue after it was told to stop

vars == <<request, loaded, handle, generation, adopted, live, thread, builtAt, queue, job, seen,
          holders, joining, owner, told, known, late>>

registry == <<generation, adopted, live, holders, joining, owner>>
requests == <<request, loaded, handle, told, known, late>>

Threads == Requests

\* The thread's closure returned: at a Stop, without an agent, or by a panic outside a job.
Gone(t) == thread[t] \in {"ended", "failed", "panicked"}

Retired(t) == Gone(t) \/ Contains(queue[t], Stop)

Init ==
    /\ request = [r \in Requests |-> "new"]
    /\ loaded = [r \in Requests |-> 0]
    /\ handle = [r \in Requests |-> None]
    /\ generation = 0
    /\ adopted = {}
    /\ live = [k \in Keys |-> None]
    /\ thread = [t \in Threads |-> "none"]
    /\ builtAt = [t \in Threads |-> 0]
    /\ queue = [t \in Threads |-> <<>>]
    /\ job = [t \in Threads |-> None]
    /\ seen = [t \in Threads |-> {}]
    /\ holders = {Owner}
    /\ joining = {}
    /\ owner = "serving"
    /\ told = {} /\ known = [r \in Requests |-> {}] /\ late = {}

-----------------------------------------------------------------------------
(* A request. *)

\* Agents::queue reads the generation ...
Load(r) ==
    /\ owner = "serving" /\ request[r] = "new"
    /\ request' = [request EXCEPT ![r] = "loaded"]
    /\ loaded' = [loaded EXCEPT ![r] = generation]
    /\ known' = [known EXCEPT ![r] = told]
    /\ UNCHANGED <<handle, told, late, registry, thread, builtAt, queue, job, seen>>

Current(r) == live[KeyOf[r]] # None /\ builtAt[live[KeyOf[r]]] = loaded[r]

\* ... and under the lock hands out the queue of the agent built at that generation, ...
Reuse(r) ==
    /\ request[r] = "loaded" /\ Current(r)
    /\ handle' = [handle EXCEPT ![r] = live[KeyOf[r]]]
    /\ request' = [request EXCEPT ![r] = "holding"]
    /\ UNCHANGED <<loaded, told, known, late, registry, thread, builtAt, queue, job, seen>>

\* Mutant: a Stop overtakes what is queued.
StopSentFirst(ts) ==
    [t \in Threads |-> IF t \in ts /\ ~Gone(t) THEN <<Stop>> \o queue[t] ELSE queue[t]]

\* Jobs::stop to each of these threads: a task behind what is queued, nothing to a closed queue.
StopSent(ts) ==
    [t \in Threads |-> IF t \in ts /\ ~Gone(t) THEN Append(queue[t], Stop) ELSE queue[t]]

\* Mutant: the stale agent is replaced in the map and not told.
SpawnBeside(r) ==
    /\ request[r] = "loaded" /\ ~Current(r)
    /\ live' = [live EXCEPT ![KeyOf[r]] = r]
    /\ builtAt' = [builtAt EXCEPT ![r] = loaded[r]]
    /\ thread' = [thread EXCEPT ![r] = "building"]
    /\ handle' = [handle EXCEPT ![r] = r]
    /\ request' = [request EXCEPT ![r] = "holding"]
    /\ UNCHANGED <<loaded, told, known, late, generation, adopted, holders, joining, owner, queue,
                   job, seen>>

\* ... or else stops whatever agent is there and spawns another.
Spawn(r) ==
    /\ request[r] = "loaded" /\ ~Current(r)
    /\ queue' = StopSent({live[KeyOf[r]]})
    /\ live' = [live EXCEPT ![KeyOf[r]] = r]
    /\ builtAt' = [builtAt EXCEPT ![r] = loaded[r]]
    /\ thread' = [thread EXCEPT ![r] = "building"]
    /\ handle' = [handle EXCEPT ![r] = r]
    /\ request' = [request EXCEPT ![r] = "holding"]
    /\ UNCHANGED <<loaded, told, known, late, generation, adopted, holders, joining, owner, job, seen>>

\* Jobs::run or Jobs::send, with the lock released long since.
Send(r) ==
    LET t == handle[r]
    IN  /\ request[r] = "holding"
        /\ late' = IF Retired(t) THEN late \cup {r} ELSE late
        /\ IF Gone(t)
           THEN request' = [request EXCEPT ![r] = "refused"] /\ queue' = queue
           ELSE /\ request' = [request EXCEPT ![r] = "queued"]
                /\ queue' = [queue EXCEPT ![t] = Append(@, r)]
    /\ UNCHANGED <<loaded, handle, told, known, registry, thread, builtAt, job, seen>>

-----------------------------------------------------------------------------
(* A session's thread. *)

\* The closure returns.  Its queue is dropped, and every job in it with its caller's channel.
End(t, how) ==
    /\ thread' = [thread EXCEPT ![t] = how]
    /\ queue' = [queue EXCEPT ![t] = <<>>]
    /\ job' = [job EXCEPT ![t] = None]
    /\ request' = [r \in Requests |->
                    IF request[r] = "queued" /\ (Contains(queue[t], r) \/ job[t] = r)
                    THEN "refused" ELSE request[r]]

\* Runtime::build_agent, under the read lock of the runtime.
Build(t) ==
    /\ thread[t] = "building"
    /\ thread' = [thread EXCEPT ![t] = "idle"]
    /\ seen' = [seen EXCEPT ![t] = adopted]
    /\ UNCHANGED <<requests, registry, builtAt, queue, job>>

\* The map keeps the entry of a thread whose agent could not be built.
BuildFails(t) ==
    /\ thread[t] = "building"
    /\ End(t, "failed")
    /\ UNCHANGED <<loaded, handle, told, known, late, registry, builtAt, seen>>

\* serve_each takes the next task.
Take(t) ==
    /\ thread[t] = "idle" /\ queue[t] # <<>> /\ Head(queue[t]) # Stop
    /\ job' = [job EXCEPT ![t] = Head(queue[t])]
    /\ queue' = [queue EXCEPT ![t] = Tail(@)]
    /\ thread' = [thread EXCEPT ![t] = "running"]
    /\ UNCHANGED <<requests, registry, builtAt, seen>>

\* Mutant: the loop returns and its queue stays open.
TakeStopOnly(t) ==
    /\ thread[t] = "idle" /\ queue[t] # <<>> /\ Head(queue[t]) = Stop
    /\ thread' = [thread EXCEPT ![t] = "ended"]
    /\ UNCHANGED <<requests, registry, builtAt, queue, job, seen>>

TakeStop(t) ==
    /\ thread[t] = "idle" /\ queue[t] # <<>> /\ Head(queue[t]) = Stop
    /\ End(t, "ended")
    /\ UNCHANGED <<loaded, handle, told, known, late, registry, builtAt, seen>>

\* Mutant: the answer goes out before the hook has run.
FinishAnswered(t) ==
    /\ thread[t] = "running"
    /\ IF holders = {}
       THEN thread' = [thread EXCEPT ![t] = "delivering"] /\ holders' = holders
       ELSE thread' = [thread EXCEPT ![t] = "hook"] /\ holders' = holders \cup {t}
    /\ request' = [request EXCEPT ![job[t]] = "answered"]
    /\ told' = told \cup ({job[t]} \cap Installers)
    /\ UNCHANGED <<loaded, handle, known, late, generation, adopted, live, joining, owner, builtAt,
                   queue, job, seen>>

\* The job returned, or panicked inside its catch_unwind.  A streaming caller has seen its end;
\* the hook runs while the registry is still there.
Finish(t) ==
    /\ thread[t] = "running"
    /\ IF holders = {}
       THEN thread' = [thread EXCEPT ![t] = "delivering"] /\ holders' = holders
       ELSE thread' = [thread EXCEPT ![t] = "hook"] /\ holders' = holders \cup {t}
    /\ IF job[t] \in Streaming
       THEN /\ request' = [request EXCEPT ![job[t]] = "answered"]
            /\ told' = told \cup ({job[t]} \cap Installers)
       ELSE UNCHANGED <<request, told>>
    /\ UNCHANGED <<loaded, handle, known, late, generation, adopted, live, joining, owner, builtAt,
                   queue, job, seen>>

\* after_turn: the runtime adopts what was installed, or finds it unfit ...
Adopt(t) ==
    /\ thread[t] = "hook" /\ job[t] \in Installers
    /\ adopted' \in {adopted, adopted \cup {job[t]}}
    /\ thread' = [thread EXCEPT ![t] = "adopted"]
    /\ UNCHANGED <<requests, generation, live, holders, joining, owner, builtAt, queue, job, seen>>

\* ... and retires every agent.
Bump(t) ==
    /\ thread[t] = "adopted"
    /\ generation' = generation + 1
    /\ thread' = [thread EXCEPT ![t] = "leaving"]
    /\ UNCHANGED <<requests, adopted, live, holders, joining, owner, builtAt, queue, job, seen>>

\* Mutant: a key without an agent counts as one.
LiveThreadsOrNone == {live[k] : k \in Keys}

LiveThreads == {live[k] : k \in Keys} \ {None}

\* Mutant: the threads are waited for and not told to stop.
DropUnsaid ==
    /\ live' = [k \in Keys |-> None]
    /\ queue' = queue
    /\ joining' = LiveThreads

\* Drop for Agents: the map is emptied, every thread in it told to stop and waited for.
DropRegistry ==
    /\ live' = [k \in Keys |-> None]
    /\ queue' = StopSent(LiveThreads)
    /\ joining' = LiveThreads

\* The hook returned; the last to let go of the registry drops it, a session's thread too.
Leave(t) ==
    /\ thread[t] = "leaving" \/ (thread[t] = "hook" /\ job[t] \notin Installers)
    /\ holders' = holders \ {t}
    /\ IF holders' = {}
       THEN thread' = [thread EXCEPT ![t] = "dropping"] /\ DropRegistry
       ELSE thread' = [thread EXCEPT ![t] = "delivering"] /\ UNCHANGED <<live, queue, joining>>
    /\ UNCHANGED <<requests, generation, adopted, owner, builtAt, job, seen>>

\* One join of a drop run by `t`; a thread that joins itself panics.
JoinIn(t) ==
    /\ thread[t] = "dropping" /\ joining # {}
    /\ \/ /\ \E u \in joining : Gone(u) /\ joining' = joining \ {u}
          /\ UNCHANGED <<thread, queue, job, request>>
       \/ /\ t \in joining
          /\ joining' = {}
          /\ End(t, "panicked")
    /\ UNCHANGED <<loaded, handle, told, known, late, generation, adopted, live, holders, owner,
                   builtAt, seen>>

JoinedIn(t) ==
    /\ thread[t] = "dropping" /\ joining = {}
    /\ thread' = [thread EXCEPT ![t] = "delivering"]
    /\ UNCHANGED <<requests, registry, builtAt, queue, job, seen>>

\* The job's answer goes out, after the hook.
Deliver(t) ==
    /\ thread[t] = "delivering"
    /\ IF job[t] \in Streaming
       THEN UNCHANGED <<request, told>>
       ELSE /\ request' = [request EXCEPT ![job[t]] = "answered"]
            /\ told' = told \cup ({job[t]} \cap Installers)
    /\ thread' = [thread EXCEPT ![t] = "idle"]
    /\ job' = [job EXCEPT ![t] = None]
    /\ UNCHANGED <<loaded, handle, known, late, registry, builtAt, queue, seen>>

-----------------------------------------------------------------------------
(* The owner of the registry. *)

\* Mutant: the owner stops the agents without asking who else holds the registry.
LetGoDropping ==
    /\ owner = "serving" /\ \A r \in Requests : request[r] # "loaded"
    /\ holders' = holders \ {Owner}
    /\ owner' = "dropping" /\ DropRegistry
    /\ UNCHANGED <<requests, generation, adopted, thread, builtAt, job, seen>>

\* It lets go, with no request inside Agents::queue.
LetGo ==
    /\ owner = "serving" /\ \A r \in Requests : request[r] # "loaded"
    /\ holders' = holders \ {Owner}
    /\ IF holders' = {}
       THEN owner' = "dropping" /\ DropRegistry
       ELSE owner' = "gone" /\ UNCHANGED <<live, queue, joining>>
    /\ UNCHANGED <<requests, generation, adopted, thread, builtAt, job, seen>>

Join ==
    /\ owner = "dropping"
    /\ \/ \E u \in joining : Gone(u) /\ joining' = joining \ {u} /\ owner' = owner
       \/ joining = {} /\ joining' = {} /\ owner' = "gone"
    /\ UNCHANGED <<requests, generation, adopted, live, holders, thread, builtAt, queue, job, seen>>

-----------------------------------------------------------------------------

Request(r) == Load(r) \/ Reuse(r) \/ Spawn(r) \/ Send(r)

Thread(t) ==
    \/ Build(t) \/ BuildFails(t)
    \/ Take(t) \/ TakeStop(t)
    \/ Finish(t) \/ Adopt(t) \/ Bump(t) \/ Leave(t) \/ JoinIn(t) \/ JoinedIn(t)
    \/ Deliver(t)

\* Nothing more to do: every request has its fate, and no thread outlives the registry.
Rest ==
    /\ \A r \in Requests : request[r] \in {"new", "answered", "refused"}
    /\ \A t \in Threads : thread[t] = "none" \/ Gone(t)
    /\ owner = "gone"
    /\ UNCHANGED vars

Next ==
    \/ \E r \in Requests : Request(r) \/ Thread(r)
    \/ LetGo \/ Join
    \/ Rest

Spec == Init /\ [][Next]_vars

\* Every thread runs on; that a request comes in, or the owner lets go, is nobody's duty.
FairSpec ==
    /\ Spec
    /\ \A r \in Requests : /\ WF_vars(Reuse(r) \/ Spawn(r) \/ Send(r))
                           /\ WF_vars(Thread(r))
    /\ WF_vars(Join)

-----------------------------------------------------------------------------
(* Properties. *)

\* Type correctness.
TypeOK ==
    /\ request \in [Requests -> {"new", "loaded", "holding", "queued", "answered", "refused"}]
    /\ loaded \in [Requests -> Nat] /\ generation \in Nat /\ builtAt \in [Threads -> Nat]
    /\ handle \in [Requests -> Threads \cup {None}]
    /\ adopted \subseteq Installers
    /\ live \in [Keys -> Threads \cup {None}]
    /\ thread \in [Threads -> {"none", "building", "idle", "running", "hook", "adopted", "leaving",
                               "dropping", "delivering", "ended", "failed", "panicked"}]
    /\ queue \in [Threads -> Seq(Requests \cup {Stop})]
    /\ job \in [Threads -> Requests \cup {None}]
    /\ seen \in [Threads -> SUBSET Installers]
    /\ holders \subseteq Threads \cup {Owner} /\ joining \subseteq Threads
    /\ owner \in {"serving", "dropping", "gone"}
    /\ told \subseteq Installers /\ known \in [Requests -> SUBSET Installers] /\ late \subseteq Requests

\* A caller that waited for the answer of an installing turn finds the extension in whatever
\* agent serves its next request, in any session: the hook runs before the answer.
FreshAgents ==
    \A t \in Threads : job[t] # None =>
        (known[job[t]] \ Streaming) \cap adopted \subseteq seen[t]

\* What was queued before an agent was retired is still served: a job is lost only if it came
\* behind the Stop, if the agent was never built, or if its thread joined itself.
OnlyLateWorkIsLost ==
    \A r \in Requests : request[r] = "refused" =>
        r \in late \/ thread[handle[r]] \in {"failed", "panicked"}

\* No agent is orphaned: a thread the map no longer names has been told to stop, or its registry's
\* drop would not reach it.
NoOrphans ==
    \A t \in Threads : thread[t] # "none" => Retired(t) \/ \E k \in Keys : live[k] = t

\* The registry is dropped once, and not while somebody inside it still needs it.
DroppedByTheLast == (joining # {} => holders = {}) /\ (holders = {} => LiveThreads = {})

\* Every job that was queued gets its answer or is refused; nobody waits for ever.
EveryoneAnswered == \A r \in Requests : request[r] = "queued" ~> request[r] \in {"answered", "refused"}

\* A drop of the registry by its owner ends.
DropEnds == owner = "dropping" ~> owner = "gone"

-----------------------------------------------------------------------------
(* What the repository says and the code does not do. *)

\* "mid-adoption requests are served, not refused" (the comment on Agents.generation).
MidAdoptionServed ==
    \A r \in Requests :
        owner = "serving" /\ request[r] = "refused" => thread[handle[r]] = "failed"

\* Two turns of one session never run at once: "a second turn in the *same* session finished
\* while the first was parked ... which one agent cannot do" (tests/it/gate.rs).
OneTurnAtATime ==
    \A t, u \in Threads :
        thread[t] = "running" /\ thread[u] = "running" /\ KeyOf[t] = KeyOf[u] => t = u

\* "retires every agent, so each session sees it at its next turn" (the comment on after_turn).
SeenAtNextTurn ==
    \A t \in Threads : job[t] # None => known[job[t]] \cap adopted \subseteq seen[t]
===============================================================================
