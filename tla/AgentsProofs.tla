----------------------------- MODULE AgentsProofs -----------------------------
(***************************************************************************)
(* What holds of the registry of agents for any sessions, requests and     *)
(* installers, however requests, threads and the registry's drop           *)
(* interleave: no early work is lost, an awaited install is seen, the      *)
(* registry is dropped by the last to hold it, and it reaches every agent. *)
(***************************************************************************)
EXTENDS Agents, TLAPS

Busy == {"running", "hook", "adopted", "leaving", "dropping", "delivering"}

\* A thread whose agent was built.
Built(t) == thread[t] \notin {"none", "building", "failed"}

Distinct(q) == \A m, n \in 1..Len(q) : q[m] = q[n] /\ q[m] # Stop => m = n

\* What is queued behind a Stop.
Behind(q) == {q[n] : n \in {n \in 1..Len(q) : \E m \in 1..(n - 1) : q[m] = Stop}} \ {Stop}

\* A request is in the queue it was given, once and not yet taken; an installer's turn that is
\* queued is not adopted.
QueueInv ==
    \A t \in Threads :
        /\ Distinct(queue[t]) /\ Behind(queue[t]) \subseteq late
        /\ \A r \in ToSet(queue[t]) \ {Stop} :
             request[r] = "queued" /\ handle[r] = t /\ job[t] # r

\* A thread has a job while it is busy, a request it was sent, which is answered at the end, or
\* before the hook if it is streamed.
JobInv ==
    \A t \in Threads :
        /\ job[t] # None <=> thread[t] \in Busy
        /\ job[t] # None =>
             /\ handle[job[t]] = t
             /\ request[job[t]] \in {"queued", "answered"}
             /\ request[job[t]] = "answered" => thread[t] # "running" /\ job[t] \in Streaming

\* A request's thread is one that was spawned for the generation it read; what came in before
\* it holds none has none.
HandleInv ==
    /\ \A r \in Requests : request[r] \notin {"new", "loaded"} =>
         /\ handle[r] \in Threads /\ thread[handle[r]] # "none"
         /\ builtAt[handle[r]] = loaded[r]
    /\ \A r \in Requests : thread[r] # "none" => request[r] \notin {"new", "loaded"}
    /\ \A k \in Keys : live[k] # None => thread[live[k]] # "none"

\* No number is ahead of the registry's.
NumberInv ==
    \A r \in Requests : loaded[r] <= generation /\ builtAt[r] <= generation

\* Only an installer whose turn has come as far as the hook is adopted; its job may still be lost,
\* with a thread that joins itself.
AdoptInv ==
    \A i \in adopted :
        /\ request[i] \in {"queued", "answered", "refused"}
        /\ \A t \in Threads :
             /\ i \notin ToSet(queue[t])
             /\ job[t] = i => thread[t] \in {"adopted", "leaving", "dropping", "delivering"}

\* Who was told of an installation learned it when its job was done, unless it is streamed.
ToldInv ==
    /\ \A r \in Requests : known[r] \subseteq told
    /\ \A i \in told \ Streaming : request[i] = "answered"

\* What was adopted before the last bump of the generation.
Settled == {i \in adopted : \A t \in Threads : job[t] = i => thread[t] # "adopted"}

\* An agent of this generation saw what was settled, one of any generation what a request that
\* read that generation knew.
SeenInv ==
    /\ \A t \in Threads : Built(t) /\ builtAt[t] = generation => Settled \subseteq seen[t]
    /\ \A r \in Requests, t \in Threads :
         Built(t) /\ builtAt[t] = loaded[r] /\ request[r] # "new" =>
            (known[r] \ Streaming) \cap adopted \subseteq seen[t]

\* The registry lives while its owner serves, and requests reach it only then.
OwnerInv ==
    /\ owner = "serving" <=> Owner \in holders
    /\ \A r \in Requests : request[r] = "loaded" => owner = "serving"

IInv ==
    /\ TypeOK /\ QueueInv /\ JobInv /\ HandleInv /\ NumberInv /\ AdoptInv /\ ToldInv /\ SeenInv
    /\ OwnerInv /\ OnlyLateWorkIsLost /\ NoOrphans /\ DroppedByTheLast

-----------------------------------------------------------------------------
(* Queues. *)

Tasks == Requests \cup {Stop}

\* A task behind the others.
LEMMA Appending ==
    ASSUME NEW q \in Seq(Tasks), NEW e \in Tasks
    PROVE  /\ Append(q, e) \in Seq(Tasks) /\ ToSet(Append(q, e)) = ToSet(q) \cup {e}
           /\ Distinct(q) /\ (e = Stop \/ e \notin ToSet(q)) => Distinct(Append(q, e))
           /\ Behind(Append(q, e)) \subseteq Behind(q) \cup (IF Stop \in ToSet(q) THEN {e} ELSE {})
           /\ e = Stop => Behind(Append(q, e)) = Behind(q)
<1> DEFINE p == Append(q, e)
<1>1. /\ p \in Seq(Tasks) /\ Len(p) = Len(q) + 1 /\ p[Len(q) + 1] = e
      /\ \A n \in 1..Len(q) : p[n] = q[n]
    OBVIOUS
<1>2. Len(q) \in Nat
    OBVIOUS
<1> HIDE DEF p
<1>3. DOMAIN p = 1..(Len(q) + 1) /\ DOMAIN q = 1..Len(q)
    BY <1>1, <1>2
<1>4. 1..(Len(q) + 1) = (1..Len(q)) \cup {Len(q) + 1}
    BY <1>2
<1>5. ToSet(p) = ToSet(q) \cup {e}
    BY <1>1, <1>3, <1>4 DEF ToSet
<1>6. ASSUME Distinct(q), e = Stop \/ e \notin ToSet(q) PROVE Distinct(p)
    BY <1>1, <1>2, <1>3, <1>4, <1>6 DEF Distinct, ToSet
<1>7. ASSUME NEW x \in Behind(p), x \notin Behind(q)
      PROVE  x = e /\ e # Stop /\ Stop \in ToSet(q)
    <2>1. PICK n \in 1..Len(p) : p[n] = x /\ \E m \in 1..(n - 1) : p[m] = Stop
        BY <1>7 DEF Behind
    <2>2. PICK m \in 1..(n - 1) : p[m] = Stop
        BY <2>1
    <2>3. m \in 1..Len(q) /\ q[m] = Stop
        BY <2>2, <1>1, <1>2
    <2>4. n \notin 1..Len(q)
        <3>1. SUFFICES ASSUME n \in 1..Len(q) PROVE FALSE
            OBVIOUS
        <3>2. q[n] = x /\ x # Stop
            BY <2>1, <1>1, <3>1, <1>7 DEF Behind
        <3> QED BY <1>7, <2>2, <2>3, <3>1, <3>2 DEF Behind
    <2> QED BY <2>1, <2>3, <2>4, <1>1, <1>3, <1>4, <1>7 DEF Behind, ToSet
<1>8. ASSUME NEW x \in Behind(q) PROVE x \in Behind(p)
    <2>1. PICK n \in 1..Len(q) : q[n] = x /\ \E m \in 1..(n - 1) : q[m] = Stop
        BY DEF Behind
    <2>2. PICK m \in 1..(n - 1) : q[m] = Stop
        BY <2>1
    <2>3. m \in 1..Len(q) /\ n \in 1..Len(p) /\ p[n] = x /\ p[m] = Stop /\ x # Stop
        BY <2>1, <2>2, <1>1, <1>2 DEF Behind
    <2> QED BY <2>2, <2>3 DEF Behind
<1> QED BY <1>1, <1>5, <1>6, <1>7, <1>8 DEF p

\* The first task is taken.
LEMMA Taking ==
    ASSUME NEW q \in Seq(Tasks), q # <<>>
    PROVE  /\ Tail(q) \in Seq(Tasks) /\ Head(q) \in Tasks
           /\ ToSet(q) = ToSet(Tail(q)) \cup {Head(q)}
           /\ Distinct(q) => /\ Distinct(Tail(q))
                             /\ Head(q) # Stop => Head(q) \notin ToSet(Tail(q))
           /\ Behind(Tail(q)) \subseteq Behind(q)
           /\ Head(q) = Stop => ToSet(q) \ {Stop} \subseteq Behind(q)
<1> DEFINE p == Tail(q)
<1>1. /\ p \in Seq(Tasks) /\ Len(q) = Len(p) + 1 /\ Len(p) \in Nat /\ Head(q) = q[1]
      /\ \A n \in 1..Len(p) : p[n] = q[n + 1]
    OBVIOUS
<1> HIDE DEF p
<1>2. DOMAIN p = 1..Len(p) /\ DOMAIN q = 1..Len(q) /\ 1 \in 1..Len(q) /\ q[1] \in Tasks
    BY <1>1
<1>3. \A n \in 1..Len(p) : n + 1 \in 1..Len(q) /\ n + 1 # 1
    BY <1>1
<1>4. \A n \in 1..Len(q) : n = 1 \/ (n - 1 \in 1..Len(p) /\ q[n] = p[n - 1])
    BY <1>1
<1>5. ToSet(q) = ToSet(p) \cup {Head(q)}
    BY <1>1, <1>2, <1>3, <1>4 DEF ToSet
<1>6. ASSUME Distinct(q) PROVE Distinct(p) /\ (Head(q) # Stop => Head(q) \notin ToSet(p))
    <2>1. Distinct(p)
        BY <1>1, <1>3, <1>6 DEF Distinct
    <2>2. ASSUME Head(q) # Stop, NEW n \in 1..Len(p), p[n] = Head(q) PROVE FALSE
        BY <1>1, <1>2, <1>3, <1>6, <2>2 DEF Distinct
    <2> QED BY <2>1, <2>2, <1>2 DEF ToSet
<1>7. ASSUME NEW x \in Behind(p) PROVE x \in Behind(q)
    <2>1. PICK n \in 1..Len(p) : p[n] = x /\ \E m \in 1..(n - 1) : p[m] = Stop
        BY DEF Behind
    <2>2. PICK m \in 1..(n - 1) : p[m] = Stop
        BY <2>1
    <2>3. m \in 1..Len(p) /\ m + 1 \in 1..((n + 1) - 1)
        BY <2>2, <1>1
    <2>4. n + 1 \in 1..Len(q) /\ q[n + 1] = x /\ q[m + 1] = Stop /\ x # Stop
        BY <2>1, <2>2, <2>3, <1>1, <1>3 DEF Behind
    <2> QED BY <2>3, <2>4 DEF Behind
<1>8. ASSUME Head(q) = Stop, NEW x \in ToSet(q), x # Stop PROVE x \in Behind(q)
    <2>1. PICK n \in 1..Len(q) : q[n] = x
        BY <1>2 DEF ToSet
    <2>2. 1 \in 1..(n - 1)
        BY <2>1, <1>1, <1>8
    <2> QED BY <2>1, <2>2, <1>1, <1>8 DEF Behind
<1> QED BY <1>1, <1>2, <1>5, <1>6, <1>7, <1>8 DEF p

LEMMA Emptied == ToSet(<<>>) = {} /\ Distinct(<<>>) /\ Behind(<<>>) = {}
BY DEF ToSet, Distinct, Behind

LEMMA Containing == ASSUME NEW q \in Seq(Tasks), NEW e PROVE Contains(q, e) <=> e \in ToSet(q)
<1>1. DOMAIN q = 1..Len(q)
    OBVIOUS
<1> QED BY <1>1 DEF Contains, ToSet

\* Jobs::stop adds nothing but a Stop, behind all else.
LEMMA StopSending ==
    ASSUME TypeOK, NEW ts, NEW t \in Threads
    PROVE  LET q == StopSent(ts)[t]
           IN  /\ q \in Seq(Tasks) /\ ToSet(queue[t]) \subseteq ToSet(q)
               /\ ToSet(q) \ {Stop} = ToSet(queue[t]) \ {Stop}
               /\ Distinct(queue[t]) => Distinct(q)
               /\ Behind(q) = Behind(queue[t])
               /\ t \in ts /\ ~Gone(t) => Stop \in ToSet(q)
<1> DEFINE q == StopSent(ts)[t]
<1>1. queue[t] \in Seq(Tasks) /\ Stop \in Tasks
    BY DEF TypeOK, Tasks, Threads
<1>2. CASE t \in ts /\ ~Gone(t)
    <2>1. q = Append(queue[t], Stop)
        BY <1>2 DEF StopSent
    <2>2. q \in Seq(Tasks) /\ ToSet(q) = ToSet(queue[t]) \cup {Stop}
        BY <1>1, <2>1, Appending
    <2>3. (Distinct(queue[t]) => Distinct(q)) /\ Behind(q) = Behind(queue[t])
        BY <1>1, <2>1, Appending
    <2> QED BY <2>2, <2>3
<1>3. CASE ~(t \in ts /\ ~Gone(t))
    <2>1. q = queue[t]
        BY <1>3 DEF StopSent
    <2> QED BY <1>1, <1>3, <2>1
<1> QED BY <1>2, <1>3

-----------------------------------------------------------------------------
(* Types. *)

LEMMA Updated ==
    ASSUME NEW S, NEW Q, NEW f \in [S -> Q], NEW x \in S, NEW v \in Q
    PROVE  [f EXCEPT ![x] = v] \in [S -> Q]
OBVIOUS

LEMMA EndTyped ==
    ASSUME TypeOK, NEW t \in Threads, NEW how \in {"ended", "failed", "panicked"}, End(t, how)
    PROVE  /\ request' \in [Requests -> {"new", "loaded", "holding", "queued", "answered", "refused"}]
           /\ thread' \in [Threads -> {"none", "building", "idle", "running", "hook", "adopted",
                            "leaving", "dropping", "delivering", "ended", "failed", "panicked"}]
           /\ queue' \in [Threads -> Seq(Requests \cup {Stop})]
           /\ job' \in [Threads -> Requests \cup {None}]
<1>1. <<>> \in Seq(Requests \cup {Stop})
    OBVIOUS
<1> QED BY <1>1 DEF TypeOK, End, Threads

LEMMA DropTyped ==
    ASSUME TypeOK, DropRegistry
    PROVE  /\ live' \in [Keys -> Threads \cup {None}] /\ joining' \subseteq Threads
           /\ queue' \in [Threads -> Seq(Requests \cup {Stop})]
<1>1. \A t \in Threads : StopSent(LiveThreads)[t] \in Seq(Tasks)
    BY StopSending
<1>2. StopSent(LiveThreads) \in [Threads -> Seq(Tasks)]
    BY <1>1 DEF StopSent
<1>3. LiveThreads \subseteq Threads
    BY DEF LiveThreads, TypeOK
<1>4. live' \in [Keys -> Threads \cup {None}]
    BY DEF DropRegistry
<1>5. queue' = StopSent(LiveThreads) /\ joining' = LiveThreads
    BY DEF DropRegistry
<1> QED BY <1>2, <1>3, <1>4, <1>5 DEF Tasks

LEMMA TypeInit == Init => TypeOK
<1>1. <<>> \in Seq(Requests \cup {Stop})
    OBVIOUS
<1> QED BY <1>1, AgentsAssumption DEF Init, TypeOK, Threads

LEMMA TypeStep == ASSUME TypeOK, [Next]_vars PROVE TypeOK'
<1> USE DEF TypeOK, Threads
<1>1. ASSUME NEW r \in Requests, Load(r) PROVE TypeOK'
    BY <1>1 DEF Load, registry
<1>2. ASSUME NEW r \in Requests, Reuse(r) PROVE TypeOK'
    <2>1. live[KeyOf[r]] \in Threads \cup {None}
        BY AgentsAssumption
    <2> QED BY <1>2, <2>1 DEF Reuse, registry
<1>3. ASSUME NEW r \in Requests, Spawn(r) PROVE TypeOK'
    <2>1. queue' \in [Threads -> Seq(Tasks)]
        <3>1. \A t \in Threads : StopSent({live[KeyOf[r]]})[t] \in Seq(Tasks)
            BY StopSending
        <3> QED BY <3>1, <1>3 DEF Spawn, StopSent
    <2> QED BY <1>3, <2>1 DEF Spawn, Tasks
<1>4. ASSUME NEW r \in Requests, Send(r) PROVE TypeOK'
    <2>1. \A t \in Threads : Append(queue[t], r) \in Seq(Requests \cup {Stop})
        OBVIOUS
    <2>2. queue' = queue \/ queue' = [queue EXCEPT ![handle[r]] = Append(@, r)]
        BY <1>4 DEF Send
    <2>3. queue' \in [Threads -> Seq(Requests \cup {Stop})]
        <3>1. CASE handle[r] \in Threads
            BY <2>1, <2>2, <3>1, Updated
        <3>2. CASE handle[r] \notin Threads
            BY <2>2, <3>2
        <3> QED BY <3>1, <3>2
    <2> QED BY <1>4, <2>3 DEF Send, registry
<1>5. ASSUME NEW t \in Threads, Build(t) PROVE TypeOK'
    BY <1>5 DEF Build, registry, requests
<1>6. ASSUME NEW t \in Threads, BuildFails(t) PROVE TypeOK'
    BY <1>6, EndTyped DEF BuildFails, registry
<1>7. ASSUME NEW t \in Threads, Take(t) PROVE TypeOK'
    <2>1. Tail(queue[t]) \in Seq(Tasks) /\ Head(queue[t]) \in Requests
        BY <1>7, Taking DEF Take, Tasks
    <2> QED BY <1>7, <2>1 DEF Take, registry, requests, Tasks
<1>8. ASSUME NEW t \in Threads, TakeStop(t) PROVE TypeOK'
    BY <1>8, EndTyped DEF TakeStop, registry
<1>9. ASSUME NEW t \in Threads, Finish(t) PROVE TypeOK'
    BY <1>9 DEF Finish
<1>10. ASSUME NEW t \in Threads, Adopt(t) PROVE TypeOK'
    BY <1>10 DEF Adopt, requests
<1>11. ASSUME NEW t \in Threads, Bump(t) PROVE TypeOK'
    BY <1>11 DEF Bump, requests
<1>12. ASSUME NEW t \in Threads, Leave(t) PROVE TypeOK'
    BY <1>12, DropTyped DEF Leave, requests
<1>13. ASSUME NEW t \in Threads, JoinIn(t) PROVE TypeOK'
    <2>1. CASE t \in joining /\ joining' = {} /\ End(t, "panicked")
        BY <1>13, <2>1, EndTyped DEF JoinIn
    <2>2. CASE \E u \in joining : Gone(u) /\ joining' = joining \ {u}
        <3>1. joining' \subseteq Threads
            BY <2>2
        <3>2. CASE UNCHANGED <<thread, queue, job, request>>
            BY <1>13, <3>1, <3>2 DEF JoinIn
        <3> QED BY <1>13, <2>1, <3>2 DEF JoinIn
    <2> QED BY <1>13, <2>1, <2>2 DEF JoinIn
<1>14. ASSUME NEW t \in Threads, JoinedIn(t) PROVE TypeOK'
    BY <1>14 DEF JoinedIn, registry, requests
<1>15. ASSUME NEW t \in Threads, Deliver(t) PROVE TypeOK'
    BY <1>15 DEF Deliver, registry
<1>16. ASSUME LetGo PROVE TypeOK'
    BY <1>16, DropTyped DEF LetGo, requests
<1>17. ASSUME Join PROVE TypeOK'
    BY <1>17 DEF Join, requests
<1>18. CASE UNCHANGED vars
    BY <1>18 DEF vars
<1> QED BY <1>1, <1>2, <1>3, <1>4, <1>5, <1>6, <1>7, <1>8, <1>9, <1>10, <1>11, <1>12, <1>13,
           <1>14, <1>15, <1>16, <1>17, <1>18 DEF Next, Request, Thread, Rest

\* Each variable keeps its type; what is queued are requests and Stops.
THEOREM TypeCorrect == Spec => []TypeOK
BY TypeInit, TypeStep, PTL DEF Spec

-----------------------------------------------------------------------------
(* Who holds which thread. *)

LEMMA Held == ASSUME NEW q \in Seq(Tasks) PROVE ToSet(q) \subseteq Tasks
BY DEF ToSet

\* A step that changes no handle, no number and no entry of the map but to empty it.
LEMMA HandleFrame ==
    ASSUME TypeOK, HandleInv,
           UNCHANGED <<handle, builtAt, loaded>>,
           live' = live \/ live' = [k \in Keys |-> None],
           \A t \in Threads : thread'[t] = "none" <=> thread[t] = "none",
           \A r \in Requests : request'[r] \in {"new", "loaded"} <=> request[r] \in {"new", "loaded"}
    PROVE  HandleInv'
<1>1. \A r \in Requests : request'[r] \notin {"new", "loaded"} =>
        handle'[r] \in Threads /\ thread'[handle'[r]] # "none" /\ builtAt'[handle'[r]] = loaded'[r]
    BY DEF HandleInv
<1>2. \A r \in Requests : thread'[r] # "none" => request'[r] \notin {"new", "loaded"}
    BY DEF HandleInv, Threads
<1>3. \A k \in Keys : live'[k] # None => thread'[live'[k]] # "none"
    BY DEF HandleInv, TypeOK
<1> QED BY <1>1, <1>2, <1>3 DEF HandleInv

\* What its closure's return does to the requests.
LEMMA EndRequests ==
    ASSUME TypeOK, NEW t \in Threads, NEW how, End(t, how), NEW r \in Requests
    PROVE  request'[r] = IF request[r] = "queued" /\ (r \in ToSet(queue[t]) \/ job[t] = r)
                         THEN "refused" ELSE request[r]
<1> DEFINE lost(q) == request[q] = "queued" /\ (Contains(queue[t], q) \/ job[t] = q)
<1>1. request' = [q \in Requests |-> IF lost(q) THEN "refused" ELSE request[q]]
    BY DEF End
<1>2. Contains(queue[t], r) <=> r \in ToSet(queue[t])
    BY Containing DEF TypeOK, Tasks
<1>3. lost(r) <=> request[r] = "queued" /\ (r \in ToSet(queue[t]) \/ job[t] = r)
    BY <1>2, Zenon
<1> HIDE DEF lost
<1>4. request'[r] = IF lost(r) THEN "refused" ELSE request[r]
    BY <1>1
<1> QED BY <1>3, <1>4

LEMMA EndThread ==
    ASSUME TypeOK, NEW t \in Threads, thread[t] # "none",
           NEW how \in {"ended", "failed", "panicked"}, End(t, how)
    PROVE  /\ \A u \in Threads : thread'[u] = "none" <=> thread[u] = "none"
           /\ \A r \in Requests : request'[r] \in {"new", "loaded"} <=> request[r] \in {"new", "loaded"}
<1>1. \A u \in Threads : thread'[u] = IF u = t THEN how ELSE thread[u]
    BY DEF End, TypeOK
<1>2. ASSUME NEW r \in Requests
      PROVE  request'[r] = request[r] \/ (request'[r] = "refused" /\ request[r] = "queued")
    <2>1. CASE request[r] = "queued" /\ (r \in ToSet(queue[t]) \/ job[t] = r)
        BY <2>1, EndRequests
    <2>2. CASE ~(request[r] = "queued" /\ (r \in ToSet(queue[t]) \/ job[t] = r))
        BY <2>2, EndRequests
    <2> QED BY <2>1, <2>2
<1> QED BY <1>1, <1>2

LEMMA HandleStep ==
    ASSUME TypeOK, TypeOK', HandleInv, JobInv, [Next]_vars
    PROVE  HandleInv'
<1>1. ASSUME NEW r \in Requests, Load(r) PROVE HandleInv'
    <2>1. /\ request' = [request EXCEPT ![r] = "loaded"] /\ request[r] = "new"
          /\ \A q \in Requests : q # r => loaded'[q] = loaded[q]
          /\ UNCHANGED <<handle, thread, builtAt, live>>
        BY <1>1 DEF Load, registry, TypeOK
    <2>2. \A q \in Requests : q # r => request'[q] = request[q]
        BY <2>1 DEF TypeOK
    <2>3. request'[r] = "loaded"
        BY <2>1 DEF TypeOK
    <2> QED BY <2>1, <2>2, <2>3 DEF HandleInv
<1>2. ASSUME NEW r \in Requests, Reuse(r) PROVE HandleInv'
    <2>1. /\ \A q \in Requests : q # r => request'[q] = request[q] /\ handle'[q] = handle[q]
          /\ request[r] = "loaded" /\ request'[r] = "holding" /\ handle'[r] = live[KeyOf[r]]
          /\ UNCHANGED <<loaded, thread, builtAt, live>>
        BY <1>2 DEF Reuse, registry, TypeOK
    <2>2. KeyOf[r] \in Keys
        BY AgentsAssumption
    <2>3. live[KeyOf[r]] \in Threads /\ builtAt[live[KeyOf[r]]] = loaded[r]
        BY <1>2, <2>2 DEF Reuse, Current, TypeOK
    <2>4. thread[live[KeyOf[r]]] # "none"
        BY <2>2, <2>3, AgentsAssumption DEF HandleInv, Threads
    <2> QED BY <2>1, <2>3, <2>4 DEF HandleInv
<1>3. ASSUME NEW r \in Requests, Spawn(r) PROVE HandleInv'
    <2>1. /\ \A q \in Requests : q # r => /\ request'[q] = request[q] /\ handle'[q] = handle[q]
                                         /\ thread'[q] = thread[q] /\ builtAt'[q] = builtAt[q]
          /\ request[r] = "loaded" /\ request'[r] = "holding" /\ handle'[r] = r
          /\ thread'[r] = "building" /\ builtAt'[r] = loaded[r] /\ loaded' = loaded
        BY <1>3 DEF Spawn, TypeOK, Threads
    <2>2. thread[r] = "none"
        BY <2>1 DEF HandleInv
    <2>3. \A q \in Requests : request[q] \notin {"new", "loaded"} => handle[q] # r
        BY <2>2 DEF HandleInv
    <2>4. \A q \in Requests : request'[q] \notin {"new", "loaded"} =>
            handle'[q] \in Threads /\ thread'[handle'[q]] # "none" /\ builtAt'[handle'[q]] = loaded'[q]
        BY <2>1, <2>3 DEF HandleInv, Threads
    <2>5. \A q \in Requests : thread'[q] # "none" => request'[q] \notin {"new", "loaded"}
        BY <2>1 DEF HandleInv
    <2>6. \A k \in Keys : live'[k] = live[k] \/ live'[k] = r
        BY <1>3 DEF Spawn, TypeOK
    <2>7. \A k \in Keys : live'[k] # None => thread'[live'[k]] # "none"
        <3>1. ASSUME NEW k \in Keys, live[k] # None PROVE live[k] \in Requests /\ thread[live[k]] # "none"
            BY <3>1 DEF HandleInv, TypeOK, Threads
        <3>2. ASSUME NEW q \in Requests, thread[q] # "none" PROVE thread'[q] # "none"
            BY <2>1, <3>2
        <3>3. ASSUME NEW k \in Keys, live'[k] = live[k], live'[k] # None PROVE thread'[live'[k]] # "none"
            BY <3>1, <3>2, <3>3
        <3> QED BY <2>1, <2>6, <3>3
    <2> QED BY <2>4, <2>5, <2>7 DEF HandleInv
<1>4. ASSUME NEW r \in Requests, Send(r) PROVE HandleInv'
    <2>1. /\ request[r] = "holding"
          /\ \/ request' = [request EXCEPT ![r] = "refused"]
             \/ request' = [request EXCEPT ![r] = "queued"]
          /\ UNCHANGED <<handle, loaded, thread, builtAt, live>>
        BY <1>4 DEF Send, registry
    <2>2. \A q \in Requests : request'[q] \in {"new", "loaded"} <=> request[q] \in {"new", "loaded"}
        BY <2>1 DEF TypeOK
    <2> QED BY <2>1, <2>2, HandleFrame
<1>5. ASSUME NEW t \in Threads, Thread(t) PROVE HandleInv'
    <2>1. UNCHANGED <<handle, builtAt, loaded>>
        BY <1>5 DEF Thread, Build, BuildFails, Take, TakeStop, Finish, Adopt, Bump, Leave, JoinIn,
                    JoinedIn, Deliver, requests, registry
    <2>2. live' = live \/ live' = [k \in Keys |-> None]
        BY <1>5 DEF Thread, Build, BuildFails, Take, TakeStop, Finish, Adopt, Bump, Leave, JoinIn,
                    JoinedIn, Deliver, requests, registry, DropRegistry
    <2>3. /\ \A u \in Threads : thread'[u] = "none" <=> thread[u] = "none"
          /\ \A r \in Requests : request'[r] \in {"new", "loaded"} <=> request[r] \in {"new", "loaded"}
        <3>1. CASE BuildFails(t) \/ TakeStop(t)
            BY <3>1, EndThread DEF BuildFails, TakeStop
        <3>2. CASE JoinIn(t)
            <4>1. CASE End(t, "panicked")
                BY <3>2, <4>1, EndThread DEF JoinIn
            <4> QED BY <3>2, <4>1 DEF JoinIn
        <3>3. CASE Finish(t) \/ Deliver(t)
            <4>1. job[t] \in Requests /\ request[job[t]] \in {"queued", "answered"}
                BY <3>3 DEF Finish, Deliver, JobInv, Busy, TypeOK
            <4>2. request' = request \/ request' = [request EXCEPT ![job[t]] = "answered"]
                BY <3>3 DEF Finish, Deliver
            <4>3. \A u \in Threads : thread'[u] = "none" <=> thread[u] = "none"
                BY <3>3 DEF Finish, Deliver, TypeOK
            <4> QED BY <4>1, <4>2, <4>3 DEF TypeOK
        <3>4. CASE Build(t) \/ Take(t) \/ Adopt(t) \/ Bump(t) \/ Leave(t) \/ JoinedIn(t)
            <4>1. request' = request
                BY <3>4 DEF Build, Take, Adopt, Bump, Leave, JoinedIn, requests
            <4>2. /\ thread[t] # "none"
                  /\ \E to \in {"idle", "running", "adopted", "leaving", "dropping", "delivering"} :
                        thread' = [thread EXCEPT ![t] = to]
                BY <3>4 DEF Build, Take, Adopt, Bump, Leave, JoinedIn
            <4> QED BY <4>1, <4>2 DEF TypeOK
        <3> QED BY <1>5, <3>1, <3>2, <3>3, <3>4 DEF Thread
    <2> QED BY <2>1, <2>2, <2>3, HandleFrame
<1>6. ASSUME LetGo \/ Join PROVE HandleInv'
    <2>1. UNCHANGED <<handle, builtAt, loaded, thread, request>>
        BY <1>6 DEF LetGo, Join, requests
    <2>2. live' = live \/ live' = [k \in Keys |-> None]
        BY <1>6 DEF LetGo, Join, DropRegistry
    <2> QED BY <2>1, <2>2, HandleFrame
<1>7. CASE UNCHANGED vars
    BY <1>7, HandleFrame DEF vars
<1> QED BY <1>1, <1>2, <1>3, <1>4, <1>5, <1>6, <1>7 DEF Next, Request, Rest, Threads

-----------------------------------------------------------------------------
(* Jobs. *)

\* What is in a queue or at hand is in no other place.
LEMMA Once ==
    ASSUME TypeOK, QueueInv, JobInv, NEW t \in Threads
    PROVE  /\ \A u \in Threads : u # t => (ToSet(queue[u]) \cap ToSet(queue[t])) \subseteq {Stop}
           /\ \A u \in Threads : job[t] # None => job[t] \notin ToSet(queue[u])
           /\ \A u \in Threads : job[t] # None /\ job[u] = job[t] => u = t
           /\ job[t] # None => job[t] \in Requests /\ request[job[t]] \in {"queued", "answered"}
<1>1. \A u \in Threads : u # t => (ToSet(queue[u]) \cap ToSet(queue[t])) \subseteq {Stop}
    BY DEF QueueInv
<1>2. ASSUME job[t] # None
      PROVE  job[t] \in Requests /\ request[job[t]] \in {"queued", "answered"} /\ handle[job[t]] = t
    BY <1>2 DEF JobInv, TypeOK
<1>3. ASSUME NEW u \in Threads, job[t] # None, job[t] \in ToSet(queue[u]) PROVE FALSE
    BY <1>2, <1>3, AgentsAssumption DEF QueueInv
<1>4. ASSUME NEW u \in Threads, job[t] # None, job[u] = job[t] PROVE u = t
    BY <1>2, <1>4 DEF JobInv
<1> QED BY <1>1, <1>2, <1>3, <1>4

LEMMA JobStep ==
    ASSUME TypeOK, TypeOK', QueueInv, JobInv, HandleInv, [Next]_vars
    PROVE  JobInv'
<1> DEFINE At(t) == /\ job[t] # None <=> thread[t] \in Busy
                    /\ job[t] # None =>
                         /\ handle[job[t]] = t
                         /\ request[job[t]] \in {"queued", "answered"}
                         /\ request[job[t]] = "answered" => thread[t] # "running" /\ job[t] \in Streaming
<1>0. (\A t \in Threads : At(t)) /\ ((\A t \in Threads : At(t)') => JobInv')
    BY DEF JobInv
<1>1. ASSUME NEW r \in Requests, Load(r) \/ Reuse(r) \/ Send(r), NEW t \in Threads PROVE At(t)'
    <2>1. /\ request[r] \in {"new", "loaded", "holding"}
          /\ \A q \in Requests : q # r => request'[q] = request[q] /\ handle'[q] = handle[q]
          /\ UNCHANGED <<job, thread>>
        BY <1>1 DEF Load, Reuse, Send, TypeOK, registry
    <2>2. job[t] # None => job[t] \in Requests /\ job[t] # r
        BY <2>1, Once
    <2> QED BY <1>0, <2>1, <2>2
<1>2. ASSUME NEW r \in Requests, Spawn(r), NEW t \in Threads PROVE At(t)'
    <2>1. /\ request[r] = "loaded" /\ thread'[r] = "building" /\ job' = job
          /\ \A q \in Requests : q # r => /\ request'[q] = request[q] /\ handle'[q] = handle[q]
                                         /\ thread'[q] = thread[q]
        BY <1>2 DEF Spawn, TypeOK, Threads
    <2>2. thread[r] = "none"
        BY <2>1 DEF HandleInv
    <2>3. job[t] # None => job[t] \in Requests /\ job[t] # r
        BY <2>1, Once
    <2> QED BY <1>0, <2>1, <2>2, <2>3 DEF Busy, Threads
<1>3. ASSUME NEW t \in Threads, NEW how \in {"ended", "failed", "panicked"}, End(t, how),
             handle' = handle, NEW u \in Threads
      PROVE  At(u)'
    <2>1. /\ job'[t] = None /\ thread'[t] = how
          /\ u # t => job'[u] = job[u] /\ thread'[u] = thread[u]
        BY <1>3 DEF End, TypeOK
    <2>2. ASSUME u # t, job[u] # None PROVE job[u] \in Requests /\ request'[job[u]] = request[job[u]]
        <3>1. job[u] \in Requests /\ job[u] \notin ToSet(queue[t]) /\ job[t] # job[u]
            BY <2>2, Once
        <3> QED BY <1>3, <3>1, EndRequests
    <2>3. CASE u = t
        BY <2>1, <2>3 DEF Busy
    <2>4. CASE u # t
        BY <1>0, <1>3, <2>1, <2>2, <2>4
    <2> QED BY <2>3, <2>4
<1>4. ASSUME NEW t \in Threads, Take(t), NEW u \in Threads PROVE At(u)'
    <2>1. /\ job'[t] = Head(queue[t]) /\ thread'[t] = "running" /\ UNCHANGED <<request, handle>>
          /\ u # t => job'[u] = job[u] /\ thread'[u] = thread[u]
        BY <1>4 DEF Take, TypeOK, requests
    <2>2. Head(queue[t]) \in ToSet(queue[t]) \ {Stop} /\ Head(queue[t]) \in Requests
        <3>1. queue[t] \in Seq(Tasks) /\ queue[t] # <<>> /\ Head(queue[t]) # Stop
            BY <1>4 DEF Take, TypeOK, Tasks
        <3>2. Head(queue[t]) \in Tasks /\ ToSet(queue[t]) = ToSet(Tail(queue[t])) \cup {Head(queue[t])}
            BY <3>1, Taking
        <3> QED BY <3>1, <3>2 DEF Tasks
    <2>3. CASE u = t
        <3>1. request[Head(queue[t])] = "queued" /\ handle[Head(queue[t])] = t
            BY <2>2 DEF QueueInv
        <3> QED BY <2>1, <2>2, <2>3, <3>1, AgentsAssumption DEF Busy
    <2>4. CASE u # t
        BY <1>0, <2>1, <2>4
    <2> QED BY <2>3, <2>4
<1>5. ASSUME NEW t \in Threads, Finish(t) \/ Deliver(t), NEW u \in Threads PROVE At(u)'
    <2>1. /\ job[t] # None /\ job[t] \in Requests
          /\ \A v \in Threads : job[v] = job[t] => v = t
        <3>1. thread[t] \in Busy
            BY <1>5 DEF Finish, Deliver, Busy
        <3> QED BY <3>1, <1>0, Once
    <2>2. /\ handle' = handle
          /\ \A q \in Requests : q # job[t] => request'[q] = request[q]
          /\ u # t => job'[u] = job[u] /\ thread'[u] = thread[u]
        BY <1>5, <2>1 DEF Finish, Deliver, TypeOK
    <2>3. CASE u # t
        <3>1. job[u] # None => job[u] \in Requests /\ job[u] # job[t]
            BY <2>1, <2>3, Once
        <3> QED BY <1>0, <2>2, <2>3, <3>1
    <2>4. CASE u = t /\ Finish(t)
        <3>1. thread'[t] \in {"hook", "delivering"} /\ job' = job /\ request[job[t]] = "queued"
            BY <2>1, <2>4, <1>0 DEF Finish, TypeOK
        <3>2. /\ job[t] \in Streaming => request'[job[t]] = "answered"
              /\ job[t] \notin Streaming => request' = request
            BY <2>1, <2>4 DEF Finish, TypeOK
        <3> QED BY <1>0, <2>1, <2>2, <2>4, <3>1, <3>2 DEF Busy
    <2>5. CASE u = t /\ Deliver(t)
        <3>1. thread'[t] = "idle" /\ job'[t] = None
            BY <2>5 DEF Deliver, TypeOK
        <3> QED BY <2>5, <3>1 DEF Busy
    <2> QED BY <1>5, <2>3, <2>4, <2>5
<1>6. ASSUME NEW t \in Threads,
             Build(t) \/ Adopt(t) \/ Bump(t) \/ Leave(t) \/ JoinedIn(t), NEW u \in Threads
      PROVE  At(u)'
    <2>1. UNCHANGED <<request, handle, job>>
        BY <1>6 DEF Build, Adopt, Bump, Leave, JoinedIn, requests
    <2>2. /\ u # t => thread'[u] = thread[u]
          /\ \/ thread[t] = "building" /\ thread'[t] = "idle"
             \/ thread[t] \in Busy /\ thread'[t] \in Busy \ {"running"}
        BY <1>6 DEF Build, Adopt, Bump, Leave, JoinedIn, Busy, TypeOK
    <2> QED BY <1>0, <2>1, <2>2 DEF Busy
<1>7. ASSUME UNCHANGED <<request, handle, job, thread>>, NEW u \in Threads PROVE At(u)'
    BY <1>0, <1>7
<1>8. ASSUME NEW t \in Threads, BuildFails(t) \/ TakeStop(t) \/ JoinIn(t), NEW u \in Threads PROVE At(u)'
    <2>1. handle' = handle
        BY <1>8 DEF BuildFails, TakeStop, JoinIn
    <2> QED BY <1>3, <1>7, <1>8, <2>1 DEF BuildFails, TakeStop, JoinIn
<1>9. ASSUME LetGo \/ Join \/ Rest \/ UNCHANGED vars PROVE UNCHANGED <<request, handle, job, thread>>
    BY <1>9 DEF LetGo, Join, Rest, vars, requests
<1> HIDE DEF At
<1>10. ASSUME NEW u \in Threads PROVE At(u)'
    BY <1>1, <1>2, <1>4, <1>5, <1>6, <1>7, <1>8, <1>9 DEF Next, Request, Thread, Threads
<1> QED BY <1>0, <1>10

\* A step that puts nothing in a queue but a Stop, and takes nobody's place in one.
LEMMA QueueFrame ==
    ASSUME TypeOK, QueueInv, late \subseteq late',
           \A t \in Threads :
                /\ Distinct(queue[t]) => Distinct(queue'[t])
                /\ Behind(queue'[t]) \subseteq Behind(queue[t])
                /\ ToSet(queue'[t]) \ {Stop} \subseteq ToSet(queue[t]) \ {Stop}
                /\ \A r \in ToSet(queue'[t]) \ {Stop} :
                     request'[r] = "queued" /\ handle'[r] = handle[r] /\ job'[t] # r
    PROVE  QueueInv'
<1> SUFFICES ASSUME NEW t \in Threads
             PROVE  /\ Distinct(queue'[t]) /\ Behind(queue'[t]) \subseteq late'
                    /\ \A r \in ToSet(queue'[t]) \ {Stop} :
                         request'[r] = "queued" /\ handle'[r] = t /\ job'[t] # r
    BY DEF QueueInv
<1>1. /\ Distinct(queue[t]) /\ Behind(queue[t]) \subseteq late
      /\ \A r \in ToSet(queue[t]) \ {Stop} : handle[r] = t
    BY DEF QueueInv
<1> QED BY <1>1

LEMMA QueueStep ==
    ASSUME TypeOK, TypeOK', QueueInv, JobInv, HandleInv, [Next]_vars
    PROVE  QueueInv'
<1>0. ASSUME NEW t \in Threads, NEW r \in ToSet(queue[t]) \ {Stop}
      PROVE  r \in Requests /\ request[r] = "queued" /\ handle[r] = t /\ job[t] # r
    BY Held DEF TypeOK, Tasks, QueueInv
<1>1. ASSUME NEW r \in Requests, Load(r) \/ Reuse(r) PROVE QueueInv'
    <2>1. /\ request[r] \in {"new", "loaded"} /\ UNCHANGED <<queue, job, late>>
          /\ \A q \in Requests : q # r => request'[q] = request[q] /\ handle'[q] = handle[q]
        BY <1>1 DEF Load, Reuse, TypeOK, registry
    <2> QED BY <1>0, <2>1, QueueFrame
<1>2. ASSUME NEW r \in Requests, Spawn(r) PROVE QueueInv'
    <2>1. /\ request[r] = "loaded" /\ queue' = StopSent({live[KeyOf[r]]}) /\ UNCHANGED <<job, late>>
          /\ \A q \in Requests : q # r => request'[q] = request[q] /\ handle'[q] = handle[q]
        BY <1>2 DEF Spawn, TypeOK
    <2>2. ASSUME NEW t \in Threads
          PROVE  /\ Distinct(queue[t]) => Distinct(queue'[t])
                 /\ Behind(queue'[t]) \subseteq Behind(queue[t])
                 /\ ToSet(queue'[t]) \ {Stop} = ToSet(queue[t]) \ {Stop}
        BY <2>1, StopSending
    <2>3. ASSUME NEW t \in Threads, NEW q \in ToSet(queue'[t]) \ {Stop}
          PROVE  request'[q] = "queued" /\ handle'[q] = handle[q] /\ job'[t] # q
        <3>1. q \in ToSet(queue[t]) \ {Stop}
            BY <2>2, <2>3
        <3> QED BY <1>0, <2>1, <3>1
    <2>4. \A t \in Threads : ToSet(queue'[t]) \ {Stop} \subseteq ToSet(queue[t]) \ {Stop}
        BY <2>2
    <2> QED BY <2>1, <2>2, <2>3, <2>4, QueueFrame
<1>3. ASSUME NEW r \in Requests, Send(r) PROVE QueueInv'
    <2>1. request[r] = "holding" /\ handle[r] \in Threads
        BY <1>3 DEF Send, HandleInv
    <2>2. PICK t \in Threads : handle[r] = t
        BY <2>1
    <2>3. \A q \in Requests : q # r => request'[q] = request[q]
        BY <1>3 DEF Send, TypeOK
    <2>4. \A u \in Threads : r \notin ToSet(queue[u]) \ {Stop}
        BY <1>0, <2>1
    <2>5. UNCHANGED <<handle, job>> /\ late \subseteq late'
        BY <1>3 DEF Send
    <2>6. CASE Gone(t)
        <3>1. queue' = queue
            BY <1>3, <2>2, <2>6 DEF Send
        <3> QED BY <1>0, <2>3, <2>4, <2>5, <3>1, QueueFrame
    <2>7. CASE ~Gone(t)
        <3>1. request'[r] = "queued" /\ queue'[t] = Append(queue[t], r)
            BY <1>3, <2>2, <2>7 DEF Send, TypeOK
        <3>2. \A u \in Threads : u # t => queue'[u] = queue[u]
            BY <1>3, <2>2, <2>7 DEF Send, TypeOK
        <3>3. r \in Tasks /\ r # Stop /\ queue[t] \in Seq(Tasks)
            BY AgentsAssumption DEF Tasks, TypeOK
        <3>4. /\ ToSet(queue'[t]) = ToSet(queue[t]) \cup {r}
              /\ Distinct(queue[t]) => Distinct(queue'[t])
              /\ Behind(queue'[t]) \subseteq Behind(queue[t]) \cup (IF Stop \in ToSet(queue[t]) THEN {r} ELSE {})
            BY <2>4, <3>1, <3>3, Appending
        <3>5. Stop \in ToSet(queue[t]) => r \in late'
            BY <1>3, <2>2, <3>3, Containing DEF Send, Retired
        <3>6. Distinct(queue'[t]) /\ Behind(queue'[t]) \subseteq late'
            BY <2>5, <3>4, <3>5 DEF QueueInv
        <3>7. job[t] # r
            BY <2>1, Once, AgentsAssumption
        <3>8. ASSUME NEW q \in ToSet(queue'[t]) \ {Stop}
              PROVE  request'[q] = "queued" /\ handle'[q] = t /\ job'[t] # q
            BY <1>0, <2>2, <2>3, <2>5, <3>1, <3>4, <3>7
        <3>9. ASSUME NEW u \in Threads, u # t
              PROVE  /\ Distinct(queue'[u]) /\ Behind(queue'[u]) \subseteq late'
                     /\ \A q \in ToSet(queue'[u]) \ {Stop} :
                          request'[q] = "queued" /\ handle'[q] = u /\ job'[u] # q
            <4>1. Distinct(queue'[u]) /\ Behind(queue'[u]) \subseteq late'
                BY <2>5, <3>2, <3>9 DEF QueueInv
            <4> QED BY <1>0, <2>3, <2>4, <2>5, <3>2, <3>9, <4>1
        <3> QED BY <3>6, <3>8, <3>9 DEF QueueInv
    <2> QED BY <2>6, <2>7
<1>4. ASSUME NEW t \in Threads, NEW how \in {"ended", "failed", "panicked"}, End(t, how),
             UNCHANGED <<handle, late>>
      PROVE  QueueInv'
    <2>1. /\ queue'[t] = <<>> /\ job'[t] = None
          /\ \A u \in Threads : u # t => queue'[u] = queue[u] /\ job'[u] = job[u]
        BY <1>4 DEF End, TypeOK
    <2>2. ASSUME NEW u \in Threads, u # t, NEW r \in ToSet(queue[u]) \ {Stop}
          PROVE  request'[r] = "queued" /\ handle'[r] = handle[r] /\ job'[u] # r
        <3>1. r \notin ToSet(queue[t]) /\ job[t] # r /\ r \in Requests
            BY <1>0, <2>2, Once, AgentsAssumption
        <3> QED BY <1>0, <1>4, <2>1, <2>2, <3>1, EndRequests
    <2>3. ASSUME NEW u \in Threads
          PROVE  /\ Distinct(queue[u]) => Distinct(queue'[u])
                 /\ Behind(queue'[u]) \subseteq Behind(queue[u])
                 /\ ToSet(queue'[u]) \ {Stop} \subseteq ToSet(queue[u]) \ {Stop}
                 /\ \A r \in ToSet(queue'[u]) \ {Stop} :
                      request'[r] = "queued" /\ handle'[r] = handle[r] /\ job'[u] # r
        <3>1. CASE u = t
            BY <2>1, <3>1, Emptied
        <3>2. CASE u # t
            BY <2>1, <2>2, <3>2
        <3> QED BY <3>1, <3>2
    <2> QED BY <1>4, <2>3, QueueFrame
<1>5. ASSUME NEW t \in Threads, Take(t) PROVE QueueInv'
    <2>1. /\ queue'[t] = Tail(queue[t]) /\ job'[t] = Head(queue[t]) /\ UNCHANGED <<request, handle, late>>
          /\ \A u \in Threads : u # t => queue'[u] = queue[u] /\ job'[u] = job[u]
          /\ queue[t] # <<>> /\ Head(queue[t]) # Stop
        BY <1>5 DEF Take, TypeOK, requests
    <2>2. queue[t] \in Seq(Tasks) /\ Distinct(queue[t])
        BY DEF TypeOK, Tasks, QueueInv
    <2>3. /\ ToSet(queue'[t]) \subseteq ToSet(queue[t]) /\ Distinct(queue'[t])
          /\ Behind(queue'[t]) \subseteq Behind(queue[t]) /\ job'[t] \notin ToSet(queue'[t])
        BY <2>1, <2>2, Taking
    <2>4. ASSUME NEW u \in Threads
          PROVE  /\ Distinct(queue[u]) => Distinct(queue'[u])
                 /\ Behind(queue'[u]) \subseteq Behind(queue[u])
                 /\ ToSet(queue'[u]) \ {Stop} \subseteq ToSet(queue[u]) \ {Stop}
                 /\ \A r \in ToSet(queue'[u]) \ {Stop} :
                      request'[r] = "queued" /\ handle'[r] = handle[r] /\ job'[u] # r
        <3>1. CASE u = t
            BY <1>0, <2>1, <2>3, <3>1
        <3>2. CASE u # t
            BY <1>0, <2>1, <3>2
        <3> QED BY <3>1, <3>2
    <2> QED BY <2>1, <2>4, QueueFrame
<1>6. ASSUME NEW t \in Threads, Finish(t) \/ Deliver(t) PROVE QueueInv'
    <2>1. job[t] # None /\ job[t] \in Requests
        <3>1. thread[t] \in Busy
            BY <1>6 DEF Finish, Deliver, Busy
        <3> QED BY <3>1, Once DEF JobInv
    <2>2. /\ UNCHANGED <<handle, late, queue>>
          /\ \A q \in Requests : q # job[t] => request'[q] = request[q]
          /\ \A u \in Threads : job'[u] = job[u] \/ job'[u] = None
        BY <1>6, <2>1 DEF Finish, Deliver, TypeOK
    <2>3. ASSUME NEW u \in Threads, NEW r \in ToSet(queue'[u]) \ {Stop}
          PROVE  request'[r] = "queued" /\ handle'[r] = handle[r] /\ job'[u] # r
        <3>1. r # job[t] /\ r # None
            BY <1>0, <2>1, <2>2, <2>3, Once, AgentsAssumption
        <3> QED BY <1>0, <2>2, <2>3, <3>1
    <2> QED BY <2>2, <2>3, QueueFrame
<1>7. ASSUME UNCHANGED <<request, handle, job, late>>, queue' = queue \/ queue' = StopSent(LiveThreads)
      PROVE  QueueInv'
    <2>1. ASSUME NEW t \in Threads
          PROVE  /\ Distinct(queue[t]) => Distinct(queue'[t])
                 /\ Behind(queue'[t]) \subseteq Behind(queue[t])
                 /\ ToSet(queue'[t]) \ {Stop} = ToSet(queue[t]) \ {Stop}
        BY <1>7, StopSending
    <2> QED BY <1>0, <1>7, <2>1, QueueFrame
<1>8. ASSUME NEW t \in Threads,
             Build(t) \/ Adopt(t) \/ Bump(t) \/ Leave(t) \/ JoinedIn(t)
      PROVE  QueueInv'
    <2>1. UNCHANGED <<request, handle, job, late>>
        BY <1>8 DEF Build, Adopt, Bump, Leave, JoinedIn, requests
    <2>2. queue' = queue \/ queue' = StopSent(LiveThreads)
        BY <1>8 DEF Build, Adopt, Bump, Leave, JoinedIn, registry, DropRegistry
    <2> QED BY <1>7, <2>1, <2>2
<1>9. ASSUME NEW t \in Threads, BuildFails(t) \/ TakeStop(t) \/ JoinIn(t) PROVE QueueInv'
    <2>1. UNCHANGED <<handle, late>>
        BY <1>9 DEF BuildFails, TakeStop, JoinIn
    <2> QED BY <1>4, <1>7, <1>9, <2>1 DEF BuildFails, TakeStop, JoinIn
<1>10. ASSUME LetGo \/ Join \/ UNCHANGED vars PROVE QueueInv'
    <2>1. UNCHANGED <<request, handle, job, late>>
        BY <1>10 DEF LetGo, Join, requests, vars
    <2>2. queue' = queue \/ queue' = StopSent(LiveThreads)
        BY <1>10 DEF LetGo, Join, vars, DropRegistry
    <2> QED BY <1>7, <2>1, <2>2
<1> QED BY <1>1, <1>2, <1>3, <1>5, <1>6, <1>8, <1>9, <1>10 DEF Next, Request, Thread, Threads, Rest

-----------------------------------------------------------------------------
(* What is adopted, and who has seen it. *)

\* What a step does to the requests that were sent, and what it tells their callers.
LEMMA Answering ==
    ASSUME TypeOK, QueueInv, JobInv, HandleInv, [Next]_vars, NEW r \in Requests
    PROVE  /\ request[r] \in {"queued", "answered", "refused"} =>
                request'[r] \in {"queued", "answered", "refused"}
           /\ request[r] = "answered" => request'[r] = "answered"
           /\ r \in told' => r \in told \/ request'[r] = "answered"
           /\ told \subseteq told'
<1> DEFINE P == /\ request[r] \in {"queued", "answered", "refused"} =>
                       request'[r] \in {"queued", "answered", "refused"}
                /\ request[r] = "answered" => request'[r] = "answered"
                /\ r \in told' => r \in told \/ request'[r] = "answered"
                /\ told \subseteq told'
<1>1. ASSUME NEW q \in Requests, Request(q) PROVE P
    BY <1>1 DEF Request, Load, Reuse, Spawn, Send, TypeOK
<1>2. ASSUME NEW t \in Threads, NEW how, End(t, how), told' = told PROVE P
    <2>1. request'[r] = request[r] \/ (request[r] = "queued" /\ request'[r] = "refused")
        <3>1. CASE request[r] = "queued" /\ (r \in ToSet(queue[t]) \/ job[t] = r)
            BY <1>2, <3>1, EndRequests
        <3>2. CASE ~(request[r] = "queued" /\ (r \in ToSet(queue[t]) \/ job[t] = r))
            BY <1>2, <3>2, EndRequests
        <3> QED BY <3>1, <3>2
    <2> QED BY <1>2, <2>1
<1>3. ASSUME NEW t \in Threads, Finish(t) \/ Deliver(t) PROVE P
    <2>1. job[t] \in Requests
        BY <1>3 DEF Finish, Deliver, JobInv, Busy, TypeOK
    <2>2. \/ UNCHANGED <<request, told>>
          \/ /\ request' = [request EXCEPT ![job[t]] = "answered"]
             /\ told' = told \cup ({job[t]} \cap Installers)
        BY <1>3 DEF Finish, Deliver
    <2>3. CASE UNCHANGED <<request, told>>
        BY <2>3
    <2>4. CASE request' = [request EXCEPT ![job[t]] = "answered"] /\ told' = told \cup ({job[t]} \cap Installers)
        <3>1. request'[job[t]] = "answered" /\ (r # job[t] => request'[r] = request[r])
            BY <2>1, <2>4 DEF TypeOK
        <3>2. \A i \in told' : i \in told \/ i = job[t]
            BY <2>4
        <3> QED BY <2>4, <3>1, <3>2
    <2> QED BY <2>2, <2>3, <2>4
<1>4. ASSUME UNCHANGED <<request, told>> PROVE P
    BY <1>4
<1>5. ASSUME NEW t \in Threads, Thread(t) PROVE P
    <2>1. CASE Build(t) \/ Take(t) \/ Adopt(t) \/ Bump(t) \/ Leave(t) \/ JoinedIn(t)
        <3>1. UNCHANGED <<request, told>>
            BY <2>1 DEF Build, Take, Adopt, Bump, Leave, JoinedIn, requests
        <3> QED BY <3>1, <1>4
    <2>2. CASE BuildFails(t) \/ TakeStop(t) \/ JoinIn(t)
        <3>1. told' = told
            BY <2>2 DEF BuildFails, TakeStop, JoinIn
        <3>2. (\E how : End(t, how)) \/ request' = request
            BY <2>2 DEF BuildFails, TakeStop, JoinIn
        <3> QED BY <1>2, <1>4, <3>1, <3>2
    <2> QED BY <1>3, <1>5, <2>1, <2>2 DEF Thread
<1>6. ASSUME LetGo \/ Join \/ Rest \/ UNCHANGED vars PROVE UNCHANGED <<request, told>>
    BY <1>6 DEF LetGo, Join, Rest, requests, vars
<1> QED BY <1>1, <1>4, <1>5, <1>6 DEF Next, Threads

\* What a step does to the numbers.
LEMMA Counting ==
    ASSUME TypeOK, JobInv, [Next]_vars
    PROVE  /\ generation' = generation \/ generation' = generation + 1
           /\ generation' # generation =>
                UNCHANGED <<adopted, builtAt, seen, request, loaded, known, job>>
           /\ \A r \in Requests :
                \/ loaded'[r] = loaded[r] /\ known'[r] = known[r] /\ (request[r] = "new" => request'[r] = "new")
                \/ /\ request[r] = "new" /\ loaded'[r] = generation /\ known'[r] = told
                   /\ UNCHANGED <<adopted, generation, builtAt, thread, seen, job>>
           /\ \A t \in Threads : builtAt'[t] # builtAt[t] =>
                    builtAt'[t] = loaded[t] /\ thread'[t] = "building"
<1> DEFINE P == /\ generation' = generation \/ generation' = generation + 1
                /\ generation' # generation =>
                     UNCHANGED <<adopted, builtAt, seen, request, loaded, known, job>>
                /\ \A r \in Requests :
                     \/ loaded'[r] = loaded[r] /\ known'[r] = known[r] /\ (request[r] = "new" => request'[r] = "new")
                     \/ /\ request[r] = "new" /\ loaded'[r] = generation /\ known'[r] = told
                        /\ UNCHANGED <<adopted, generation, builtAt, thread, seen, job>>
                /\ \A t \in Threads : builtAt'[t] # builtAt[t] =>
                    builtAt'[t] = loaded[t] /\ thread'[t] = "building"
<1>1. ASSUME NEW r \in Requests, Load(r) PROVE P
    BY <1>1 DEF Load, registry, TypeOK
<1>2. ASSUME NEW r \in Requests, Reuse(r) \/ Spawn(r) \/ Send(r) PROVE P
    <2>1. UNCHANGED <<generation, loaded, known>>
        BY <1>2 DEF Reuse, Spawn, Send, registry
    <2>2. \A q \in Requests : request[q] = "new" => request'[q] = "new"
        BY <1>2 DEF Reuse, Spawn, Send, TypeOK
    <2>3. \A t \in Threads : builtAt'[t] # builtAt[t] =>
                    builtAt'[t] = loaded[t] /\ thread'[t] = "building"
        <3>1. CASE Reuse(r) \/ Send(r)
            BY <3>1 DEF Reuse, Send, registry
        <3>2. CASE Spawn(r)
            BY <3>2 DEF Spawn, TypeOK, Threads
        <3> QED BY <1>2, <3>1, <3>2
    <2> QED BY <2>1, <2>2, <2>3
<1>3. ASSUME NEW t \in Threads, Thread(t), ~Bump(t) PROVE P
    <2>1. UNCHANGED <<generation, loaded, known, builtAt>>
        BY <1>3 DEF Thread, Build, BuildFails, Take, TakeStop, Finish, Adopt, Leave, JoinIn,
                    JoinedIn, Deliver, requests, registry
    <2>2. ASSUME NEW r \in Requests, request[r] = "new" PROVE request'[r] = "new"
        <3>1. CASE Finish(t) \/ Deliver(t)
            <4>1. job[t] \in Requests /\ job[t] # r
                BY <2>2, <3>1 DEF Finish, Deliver, JobInv, Busy, TypeOK
            <4> QED BY <2>2, <3>1, <4>1 DEF Finish, Deliver, TypeOK
        <3>2. CASE \E how : End(t, how)
            BY <2>2, <3>2, EndRequests
        <3>3. CASE request' = request
            BY <2>2, <3>3
        <3>4. (\E how : End(t, how)) \/ request' = request \/ Finish(t) \/ Deliver(t)
            BY <1>3 DEF Thread, Build, BuildFails, Take, TakeStop, Adopt, Leave, JoinIn, JoinedIn, requests
        <3> QED BY <3>1, <3>2, <3>3, <3>4
    <2> QED BY <2>1, <2>2
<1>4. ASSUME NEW t \in Threads, Bump(t) PROVE P
    BY <1>4 DEF Bump, requests
<1>5. ASSUME LetGo \/ Join \/ Rest \/ UNCHANGED vars PROVE P
    BY <1>5 DEF LetGo, Join, Rest, requests, vars
<1> QED BY <1>1, <1>2, <1>3, <1>4, <1>5 DEF Next, Request, Threads

\* A queue gains nothing but a Stop and what its sender held.
LEMMA Queueing ==
    ASSUME TypeOK, [Next]_vars, NEW t \in Threads, NEW r \in ToSet(queue'[t])
    PROVE  r \in ToSet(queue[t]) \/ r = Stop \/ (r \in Requests /\ request[r] = "holding")
<1> DEFINE P == r \in ToSet(queue[t]) \/ r = Stop \/ (r \in Requests /\ request[r] = "holding")
<1>1. ASSUME NEW ts, queue' = StopSent(ts) PROVE P
    BY <1>1, StopSending
<1>2. ASSUME queue' = queue PROVE P
    BY <1>2
<1>3. ASSUME NEW u \in Threads, NEW how, End(u, how) PROVE P
    <2>1. queue'[t] = IF t = u THEN <<>> ELSE queue[t]
        BY <1>3 DEF End, TypeOK
    <2> QED BY <2>1, Emptied
<1>4. ASSUME NEW q \in Requests, Send(q) PROVE P
    <2>1. request[q] = "holding"
        BY <1>4 DEF Send
    <2>2. CASE queue'[t] = queue[t]
        BY <2>2
    <2>3. CASE queue'[t] = Append(queue[t], q)
        <3>1. queue[t] \in Seq(Tasks) /\ q \in Tasks
            BY DEF TypeOK, Tasks
        <3>2. ToSet(queue'[t]) = ToSet(queue[t]) \cup {q}
            BY <2>3, <3>1, Appending
        <3> QED BY <2>1, <3>2
    <2>4. queue' = queue \/ queue' = [queue EXCEPT ![handle[q]] = Append(queue[handle[q]], q)]
        BY <1>4 DEF Send
    <2>5. queue'[t] = queue[t] \/ queue'[t] = Append(queue[t], q)
        <3>1. CASE t = handle[q]
            BY <2>4, <3>1 DEF TypeOK
        <3>2. CASE t # handle[q]
            BY <2>4, <3>2 DEF TypeOK
        <3> QED BY <3>1, <3>2
    <2> QED BY <2>2, <2>3, <2>5
<1>5. ASSUME NEW u \in Threads, Take(u) PROVE P
    <2>1. queue[u] \in Seq(Tasks) /\ queue[u] # <<>>
        BY <1>5 DEF Take, TypeOK, Tasks
    <2>2. queue'[t] = IF t = u THEN Tail(queue[t]) ELSE queue[t]
        BY <1>5 DEF Take, TypeOK
    <2>3. ToSet(queue[u]) = ToSet(Tail(queue[u])) \cup {Head(queue[u])}
        BY <2>1, Taking
    <2> QED BY <2>2, <2>3
<1>6. ASSUME NEW q \in Requests, Load(q) \/ Reuse(q) \/ Spawn(q) PROVE P
    BY <1>1, <1>2, <1>6 DEF Load, Reuse, Spawn, registry
<1>7. ASSUME NEW u \in Threads, Thread(u), ~Take(u) PROVE P
    <2>1. queue' = queue \/ queue' = StopSent(LiveThreads) \/ \E how : End(u, how)
        BY <1>7 DEF Thread, Build, BuildFails, TakeStop, Finish, Adopt, Bump, Leave, JoinIn, JoinedIn,
                    Deliver, DropRegistry
    <2> QED BY <1>1, <1>2, <1>3, <2>1
<1>8. ASSUME LetGo \/ Join \/ Rest \/ UNCHANGED vars PROVE P
    <2>1. queue' = queue \/ queue' = StopSent(LiveThreads)
        BY <1>8 DEF LetGo, Join, Rest, vars, DropRegistry
    <2> QED BY <1>1, <1>2, <2>1
<1> QED BY <1>4, <1>5, <1>6, <1>7, <1>8 DEF Next, Request, Threads

\* Past the hook: what was adopted for its job stays adopted.
Past == {"adopted", "leaving", "dropping", "delivering"}

\* How a thread comes by its agent and its job, and how far it has come with them.
LEMMA Advancing ==
    ASSUME TypeOK, JobInv, HandleInv, [Next]_vars, NEW t \in Threads
    PROVE  /\ Built(t)' => \/ Built(t) /\ seen'[t] = seen[t]
                           \/ seen'[t] = adopted /\ adopted' = adopted
           /\ job'[t] # None =>
                \/ job'[t] = job[t] /\ (thread[t] \in Past => thread'[t] \in Past)
                \/ job'[t] \in ToSet(queue[t]) \ {Stop} /\ thread'[t] = "running" /\ adopted' = adopted
           /\ thread[t] = "adopted" /\ generation' = generation =>
                thread'[t] = "adopted" /\ job'[t] = job[t]
<1> DEFINE P == /\ Built(t)' => \/ Built(t) /\ seen'[t] = seen[t]
                                \/ seen'[t] = adopted /\ adopted' = adopted
                /\ job'[t] # None =>
                     \/ job'[t] = job[t] /\ (thread[t] \in Past => thread'[t] \in Past)
                     \/ job'[t] \in ToSet(queue[t]) \ {Stop} /\ thread'[t] = "running" /\ adopted' = adopted
                /\ thread[t] = "adopted" /\ generation' = generation =>
                     thread'[t] = "adopted" /\ job'[t] = job[t]
<1>1. ASSUME UNCHANGED <<thread, job, seen>> PROVE P
    BY <1>1 DEF Built
<1>2. ASSUME NEW r \in Requests, Request(r) PROVE P
    <2>1. CASE Load(r) \/ Reuse(r) \/ Send(r)
        BY <1>1, <2>1 DEF Load, Reuse, Send
    <2>2. CASE Spawn(r)
        <3>1. thread[r] = "none" /\ UNCHANGED <<job, seen>>
            BY <2>2 DEF Spawn, HandleInv
        <3>2. thread'[t] = IF t = r THEN "building" ELSE thread[t]
            BY <2>2 DEF Spawn, TypeOK
        <3>3. job[t] # None => thread[t] # "none"
            BY DEF JobInv, Busy
        <3> QED BY <3>1, <3>2, <3>3 DEF Built
    <2> QED BY <1>2, <2>1, <2>2 DEF Request
<1>3. ASSUME NEW u \in Threads, u # t, Thread(u) PROVE P
    <2>1. UNCHANGED <<thread[t], job[t], seen[t]>>
        BY <1>3 DEF Thread, Build, BuildFails, Take, TakeStop, Finish, Adopt, Bump, Leave, JoinIn,
                    JoinedIn, Deliver, End, TypeOK
    <2> QED BY <2>1 DEF Built
<1>4. ASSUME Thread(t) PROVE P
    <2>1. CASE Build(t)
        <3>1. thread'[t] = "idle" /\ seen'[t] = adopted /\ adopted' = adopted /\ job' = job /\ thread[t] = "building"
            BY <2>1 DEF Build, TypeOK, registry
        <3> QED BY <3>1 DEF Past
    <2>2. CASE Take(t)
        <3>1. /\ thread'[t] = "running" /\ seen' = seen /\ thread[t] = "idle" /\ adopted' = adopted
              /\ job'[t] = Head(queue[t]) /\ queue[t] # <<>> /\ Head(queue[t]) # Stop /\ queue[t] \in Seq(Tasks)
            BY <2>2 DEF Take, TypeOK, Tasks, registry
        <3>2. Head(queue[t]) \in ToSet(queue[t])
            BY <3>1, Taking
        <3> QED BY <3>1, <3>2 DEF Built
    <2>3. ASSUME NEW how \in {"ended", "failed", "panicked"}, End(t, how), seen' = seen,
                 thread[t] # "adopted", how # "failed" => Built(t)
          PROVE  P
        <3>1. thread'[t] = how /\ job'[t] = None
            BY <2>3 DEF End, TypeOK
        <3> QED BY <2>3, <3>1 DEF Built
    <2>4. CASE BuildFails(t) \/ TakeStop(t) \/ JoinIn(t)
        <3>1. CASE UNCHANGED <<thread, job>>
            BY <1>1, <2>4, <3>1 DEF BuildFails, TakeStop, JoinIn
        <3> QED BY <2>3, <2>4, <3>1 DEF BuildFails, TakeStop, JoinIn, Built
    <2>5. CASE Finish(t) \/ Adopt(t) \/ Leave(t) \/ JoinedIn(t)
        <3>1. /\ UNCHANGED <<job, seen>> /\ thread[t] # "adopted" /\ Built(t)
              /\ thread[t] \in Past => thread'[t] \in Past
            BY <2>5 DEF Finish, Adopt, Leave, JoinedIn, Built, Past, TypeOK
        <3> QED BY <3>1
    <2>6. CASE Bump(t)
        <3>1. UNCHANGED <<job, seen>> /\ generation' # generation /\ thread'[t] = "leaving" /\ Built(t)
            BY <2>6 DEF Bump, Built, TypeOK
        <3> QED BY <3>1 DEF Past
    <2>7. CASE Deliver(t)
        <3>1. job'[t] = None /\ seen' = seen /\ thread[t] = "delivering"
            BY <2>7 DEF Deliver, TypeOK
        <3> QED BY <3>1 DEF Built
    <2> QED BY <1>4, <2>1, <2>2, <2>4, <2>5, <2>6, <2>7 DEF Thread
<1>5. ASSUME LetGo \/ Join \/ Rest \/ UNCHANGED vars PROVE UNCHANGED <<thread, job, seen>>
    BY <1>5 DEF LetGo, Join, Rest, vars
<1> QED BY <1>1, <1>2, <1>3, <1>4, <1>5 DEF Next, Threads

\* What is adopted is adopted for a job that has come to its hook.
LEMMA Adopting ==
    ASSUME TypeOK, [Next]_vars
    PROVE  \/ adopted' = adopted
           \/ \E t \in Threads :
                /\ thread[t] = "hook" /\ thread'[t] = "adopted" /\ job[t] \in Installers
                /\ adopted' = adopted \cup {job[t]}
                /\ UNCHANGED <<request, queue, job, told, known, loaded, generation>>
<1> DEFINE P == \/ adopted' = adopted
                \/ \E t \in Threads :
                     /\ thread[t] = "hook" /\ thread'[t] = "adopted" /\ job[t] \in Installers
                     /\ adopted' = adopted \cup {job[t]}
                     /\ UNCHANGED <<request, queue, job, told, known, loaded, generation>>
<1>1. ASSUME NEW r \in Requests, Request(r) PROVE P
    BY <1>1 DEF Request, Load, Reuse, Spawn, Send, registry
<1>2. ASSUME NEW t \in Threads, Adopt(t) PROVE P
    BY <1>2 DEF Adopt, requests, TypeOK
<1>3. ASSUME NEW t \in Threads, Thread(t), ~Adopt(t) PROVE P
    BY <1>3 DEF Thread, Build, BuildFails, Take, TakeStop, Finish, Bump, Leave, JoinIn, JoinedIn,
                Deliver, registry
<1>4. ASSUME LetGo \/ Join \/ Rest \/ UNCHANGED vars PROVE P
    BY <1>4 DEF LetGo, Join, Rest, vars
<1> QED BY <1>1, <1>2, <1>3, <1>4 DEF Next, Threads

LEMMA NumberStep ==
    ASSUME TypeOK, TypeOK', JobInv, NumberInv, [Next]_vars
    PROVE  NumberInv'
<1> SUFFICES ASSUME NEW r \in Requests PROVE loaded'[r] <= generation' /\ builtAt'[r] <= generation'
    BY DEF NumberInv
<1>1. loaded[r] <= generation /\ builtAt[r] <= generation
    BY DEF NumberInv
<1>2. /\ generation \in Nat /\ loaded[r] \in Nat /\ builtAt[r] \in Nat
      /\ generation' = generation \/ generation' = generation + 1
      /\ loaded'[r] = loaded[r] \/ loaded'[r] = generation
      /\ builtAt'[r] = builtAt[r] \/ builtAt'[r] = loaded[r]
    BY Counting DEF TypeOK, Threads
<1> QED BY <1>1, <1>2

LEMMA ToldStep ==
    ASSUME TypeOK, TypeOK', QueueInv, JobInv, HandleInv, ToldInv, [Next]_vars
    PROVE  ToldInv'
<1>1. ASSUME NEW r \in Requests PROVE known'[r] \subseteq told'
    <2>1. known[r] \subseteq told /\ told \subseteq told'
        BY Answering DEF ToldInv
    <2>2. known'[r] = known[r] \/ known'[r] = told
        BY Counting
    <2> QED BY <2>1, <2>2
<1>2. ASSUME NEW i \in told' \ Streaming PROVE request'[i] = "answered"
    <2>1. i \in Requests
        BY AgentsAssumption DEF TypeOK
    <2> QED BY <2>1, Answering DEF ToldInv
<1> QED BY <1>1, <1>2 DEF ToldInv

LEMMA AdoptStep ==
    ASSUME TypeOK, TypeOK', QueueInv, JobInv, HandleInv, AdoptInv, [Next]_vars
    PROVE  AdoptInv'
<1>0. adopted \subseteq Requests /\ adopted' \subseteq Requests /\ Stop \notin Requests /\ None \notin Requests
    BY AgentsAssumption DEF TypeOK
<1>1. ASSUME NEW i \in adopted
      PROVE  /\ request'[i] \in {"queued", "answered", "refused"}
             /\ \A t \in Threads : i \notin ToSet(queue'[t]) /\ (job'[t] = i => thread'[t] \in Past)
    <2>1. i \in Requests /\ request[i] \in {"queued", "answered", "refused"}
        BY <1>0 DEF AdoptInv
    <2>2. request'[i] \in {"queued", "answered", "refused"}
        BY <2>1, Answering
    <2>3. ASSUME NEW t \in Threads PROVE i \notin ToSet(queue'[t])
        BY <1>0, <2>1, Queueing DEF AdoptInv
    <2>4. ASSUME NEW t \in Threads, job'[t] = i PROVE thread'[t] \in Past
        <3>1. i \notin ToSet(queue[t]) /\ (job[t] = i => thread[t] \in Past)
            BY DEF AdoptInv, Past
        <3> QED BY <1>0, <2>4, <3>1, Advancing
    <2> QED BY <2>2, <2>3, <2>4
<1>2. ASSUME NEW u \in Threads, thread[u] = "hook", thread'[u] = "adopted", job[u] \in Installers,
             adopted' = adopted \cup {job[u]}, UNCHANGED <<request, queue, job>>
      PROVE  /\ request'[job[u]] \in {"queued", "answered", "refused"}
             /\ \A t \in Threads : job[u] \notin ToSet(queue'[t]) /\ (job'[t] = job[u] => thread'[t] \in Past)
    <2>1. job[u] # None
        BY <1>2 DEF JobInv, Busy
    <2> QED BY <1>2, <2>1, Once DEF Past
<1>3. CASE adopted' = adopted
    BY <1>1, <1>3 DEF AdoptInv, Past
<1>4. CASE adopted' # adopted
    <2>1. PICK u \in Threads : /\ thread[u] = "hook" /\ thread'[u] = "adopted" /\ job[u] \in Installers
                              /\ adopted' = adopted \cup {job[u]} /\ UNCHANGED <<request, queue, job>>
        BY <1>4, Adopting
    <2>2. \A i \in adopted' : i \in adopted \/ i = job[u]
        BY <2>1
    <2> HIDE DEF Past
    <2>3. \A i \in adopted' :
            /\ request'[i] \in {"queued", "answered", "refused"}
            /\ \A t \in Threads : i \notin ToSet(queue'[t]) /\ (job'[t] = i => thread'[t] \in Past)
        BY <1>1, <1>2, <2>1, <2>2
    <2> QED BY <2>3 DEF AdoptInv, Past
<1> QED BY <1>3, <1>4

\* Settled says no more after a step that is no bump, and does not need to after one.
LEMMA SettledStep ==
    ASSUME TypeOK, TypeOK', QueueInv, JobInv, HandleInv, AdoptInv, [Next]_vars, generation' = generation
    PROVE  Settled' \subseteq Settled
<1> SUFFICES ASSUME NEW i \in Settled' PROVE i \in Settled
    OBVIOUS
<1>1. i \in adopted' /\ \A t \in Threads : job'[t] = i => thread'[t] # "adopted"
    BY DEF Settled
<1>2. i \in adopted
    BY <1>1, Adopting
<1>3. ASSUME NEW t \in Threads, job[t] = i, thread[t] = "adopted" PROVE FALSE
    BY <1>1, <1>3, Advancing
<1> QED BY <1>2, <1>3 DEF Settled

LEMMA SeenStep ==
    ASSUME TypeOK, TypeOK', QueueInv, JobInv, HandleInv, NumberInv, AdoptInv, ToldInv, SeenInv, [Next]_vars
    PROVE  SeenInv'
<1>0. Settled \subseteq adopted
    BY DEF Settled
<1>1. ASSUME NEW t \in Threads, Built(t)', builtAt'[t] = generation' PROVE Settled' \subseteq seen'[t]
    <2>1. builtAt'[t] = builtAt[t]
        <3>1. builtAt'[t] # builtAt[t] => thread'[t] = "building"
            BY Counting
        <3> QED BY <1>1, <3>1 DEF Built
    <2>2. generation' = generation
        <3>1. builtAt[t] <= generation /\ generation \in Nat /\ builtAt[t] \in Nat
            BY DEF NumberInv, TypeOK, Threads
        <3>2. generation' = generation \/ generation' = generation + 1
            BY Counting
        <3> QED BY <1>1, <2>1, <3>1, <3>2
    <2>3. Settled' \subseteq Settled
        BY <2>2, SettledStep
    <2>4. \/ Built(t) /\ seen'[t] = seen[t]
          \/ seen'[t] = adopted
        BY <1>1, Advancing
    <2> QED BY <1>0, <1>1, <2>1, <2>2, <2>3, <2>4 DEF SeenInv
<1>2. ASSUME NEW r \in Requests, NEW t \in Threads, Built(t)', builtAt'[t] = loaded'[r], request'[r] # "new"
      PROVE  (known'[r] \ Streaming) \cap adopted' \subseteq seen'[t]
    <2>1. builtAt'[t] = builtAt[t]
        <3>1. builtAt'[t] # builtAt[t] => thread'[t] = "building"
            BY Counting
        <3> QED BY <1>2, <3>1 DEF Built
    <2>2. CASE known'[r] = known[r] /\ loaded'[r] = loaded[r] /\ request[r] # "new"
        <3>1. ASSUME NEW i \in known[r] \ Streaming, i \in adopted' PROVE i \in adopted
            <4>1. request[i] = "answered"
                BY <3>1 DEF ToldInv
            <4>2. ASSUME NEW u \in Threads, thread[u] = "hook", job[u] = i PROVE FALSE
                <5>1. job[u] # None
                    BY <4>2 DEF JobInv, Busy
                <5> QED BY <3>1, <4>1, <4>2, <5>1 DEF JobInv
            <4> QED BY <3>1, <4>2, Adopting
        <3>2. (known'[r] \ Streaming) \cap adopted' \subseteq (known[r] \ Streaming) \cap adopted
            BY <2>2, <3>1
        <3>3. \/ Built(t) /\ seen'[t] = seen[t]
              \/ seen'[t] = adopted
            BY <1>2, Advancing
        <3>4. Built(t) => (known[r] \ Streaming) \cap adopted \subseteq seen[t]
            BY <1>2, <2>1, <2>2 DEF SeenInv
        <3> QED BY <3>2, <3>3, <3>4
    <2>3. CASE /\ loaded'[r] = generation /\ known'[r] = told
               /\ UNCHANGED <<adopted, generation, builtAt, thread, seen, job>>
        <3>1. Built(t) /\ builtAt[t] = generation
            BY <1>2, <2>1, <2>3 DEF Built
        <3>2. Settled \subseteq seen[t]
            BY <3>1 DEF SeenInv
        <3>3. ASSUME NEW i \in told \ Streaming, i \in adopted PROVE i \in Settled
            <4>1. request[i] = "answered"
                BY <3>3 DEF ToldInv
            <4>2. ASSUME NEW u \in Threads, thread[u] = "adopted", job[u] = i PROVE FALSE
                <5>1. job[u] # None
                    BY <4>2 DEF JobInv, Busy
                <5> QED BY <3>3, <4>1, <4>2, <5>1 DEF JobInv
            <4> QED BY <3>3, <4>2 DEF Settled
        <3> QED BY <2>3, <3>2, <3>3
    <2>4. \/ known'[r] = known[r] /\ loaded'[r] = loaded[r] /\ request[r] # "new"
          \/ /\ loaded'[r] = generation /\ known'[r] = told
             /\ UNCHANGED <<adopted, generation, builtAt, thread, seen, job>>
        BY <1>2, Counting
    <2> QED BY <2>2, <2>3, <2>4
<1> QED BY <1>1, <1>2 DEF SeenInv

-----------------------------------------------------------------------------
(* Retiring. *)

LEMMA RetiredMeans ==
    ASSUME TypeOK, NEW t \in Threads
    PROVE  Retired(t) <=> Gone(t) \/ Stop \in ToSet(queue[t])
<1>1. Contains(queue[t], Stop) <=> Stop \in ToSet(queue[t])
    BY Containing DEF TypeOK, Tasks
<1> QED BY <1>1, Zenon DEF Retired

LEMMA GoneStays ==
    ASSUME TypeOK, HandleInv, [Next]_vars, NEW t \in Threads, Gone(t)
    PROVE  thread'[t] = thread[t]
<1>1. ASSUME NEW r \in Requests, Request(r) PROVE thread'[t] = thread[t]
    <2>1. CASE Spawn(r)
        <3>1. thread[r] = "none"
            BY <2>1 DEF Spawn, HandleInv
        <3> QED BY <2>1, <3>1 DEF Spawn, Gone, TypeOK
    <2> QED BY <1>1, <2>1 DEF Request, Load, Reuse, Send
<1>2. ASSUME NEW u \in Threads, Thread(u) PROVE thread'[t] = thread[t]
    <2>1. thread[u] \notin {"ended", "failed", "panicked"}
        BY <1>2 DEF Thread, Build, BuildFails, Take, TakeStop, Finish, Adopt, Bump, Leave, JoinIn,
                    JoinedIn, Deliver
    <2>2. t # u
        BY <2>1 DEF Gone
    <2> QED BY <1>2, <2>2 DEF Thread, Build, BuildFails, Take, TakeStop, Finish, Adopt, Bump, Leave,
                              JoinIn, JoinedIn, Deliver, End, TypeOK
<1>3. ASSUME LetGo \/ Join \/ Rest \/ UNCHANGED vars PROVE thread' = thread
    BY <1>3 DEF LetGo, Join, Rest, vars
<1> QED BY <1>1, <1>2, <1>3 DEF Next, Threads

\* A Stop is not taken back.
LEMMA StopStays ==
    ASSUME TypeOK, [Next]_vars, NEW t \in Threads, Stop \in ToSet(queue[t])
    PROVE  Stop \in ToSet(queue'[t]) \/ Gone(t)'
<1> DEFINE P == Stop \in ToSet(queue'[t]) \/ Gone(t)'
<1>1. ASSUME NEW ts, queue' = queue \/ queue' = StopSent(ts) PROVE P
    BY <1>1, StopSending
<1>2. ASSUME NEW r \in Requests, Send(r) PROVE P
    <2>1. queue' = queue \/ queue' = [queue EXCEPT ![handle[r]] = Append(queue[handle[r]], r)]
        BY <1>2 DEF Send
    <2>2. queue'[t] = queue[t] \/ queue'[t] = Append(queue[t], r)
        <3>1. CASE t = handle[r]
            BY <2>1, <3>1 DEF TypeOK
        <3>2. CASE t # handle[r]
            BY <2>1, <3>2 DEF TypeOK
        <3> QED BY <3>1, <3>2
    <2>3. queue[t] \in Seq(Tasks) /\ r \in Tasks
        BY DEF TypeOK, Tasks
    <2>4. ToSet(Append(queue[t], r)) = ToSet(queue[t]) \cup {r}
        BY <2>3, Appending
    <2> QED BY <2>2, <2>4
<1>3. ASSUME NEW u \in Threads, NEW how \in {"ended", "failed", "panicked"}, End(u, how) PROVE P
    <2>1. /\ queue'[t] = IF t = u THEN <<>> ELSE queue[t]
          /\ thread'[u] = how
        BY <1>3 DEF End, TypeOK
    <2> QED BY <2>1 DEF Gone
<1>4. ASSUME NEW u \in Threads, Take(u) PROVE P
    <2>1. /\ queue[u] \in Seq(Tasks) /\ queue[u] # <<>> /\ Head(queue[u]) # Stop
          /\ queue'[t] = IF t = u THEN Tail(queue[t]) ELSE queue[t]
        BY <1>4 DEF Take, TypeOK, Tasks
    <2>2. ToSet(queue[u]) = ToSet(Tail(queue[u])) \cup {Head(queue[u])}
        BY <2>1, Taking
    <2> QED BY <2>1, <2>2
<1>5. ASSUME NEW r \in Requests, Load(r) \/ Reuse(r) \/ Spawn(r) PROVE P
    BY <1>1, <1>5 DEF Load, Reuse, Spawn
<1>6. ASSUME NEW u \in Threads, Thread(u), ~Take(u) PROVE P
    <2>1. queue' = queue \/ queue' = StopSent(LiveThreads)
              \/ \E how \in {"ended", "failed", "panicked"} : End(u, how)
        BY <1>6 DEF Thread, Build, BuildFails, TakeStop, Finish, Adopt, Bump, Leave, JoinIn, JoinedIn,
                    Deliver, DropRegistry
    <2> QED BY <1>1, <1>3, <2>1
<1>7. ASSUME LetGo \/ Join \/ Rest \/ UNCHANGED vars PROVE P
    <2>1. queue' = queue \/ queue' = StopSent(LiveThreads)
        BY <1>7 DEF LetGo, Join, Rest, vars, DropRegistry
    <2> QED BY <1>1, <2>1
<1> QED BY <1>2, <1>4, <1>5, <1>6, <1>7 DEF Next, Request, Threads

LEMMA OrphanStep ==
    ASSUME TypeOK, TypeOK', HandleInv, NoOrphans, [Next]_vars
    PROVE  NoOrphans'
<1>1. ASSUME NEW t \in Threads, Gone(t) \/ Stop \in ToSet(queue[t])
      PROVE  Gone(t)' \/ Stop \in ToSet(queue'[t])
    BY <1>1, GoneStays, StopStays DEF Gone
<1>2. ASSUME NEW t \in Threads, Gone(t)' \/ Stop \in ToSet(queue'[t]) PROVE Retired(t)'
    <2>1. Contains(queue'[t], Stop) <=> Stop \in ToSet(queue'[t])
        BY Containing DEF TypeOK, Tasks
    <2> QED BY <1>2, <2>1, Zenon DEF Retired
<1>3. ASSUME NEW t \in Threads, thread[t] # "none" PROVE Retired(t)' \/ \E k \in Keys : live[k] = t
    BY <1>1, <1>2, <1>3, RetiredMeans DEF NoOrphans
<1> SUFFICES ASSUME NEW t \in Threads, thread'[t] # "none"
             PROVE  Retired(t)' \/ \E k \in Keys : live'[k] = t
    BY DEF NoOrphans
<1>4. ASSUME NEW r \in Requests, Spawn(r) PROVE Retired(t)' \/ \E k \in Keys : live'[k] = t
    <2>1. KeyOf[r] \in Keys /\ live' = [live EXCEPT ![KeyOf[r]] = r]
        BY <1>4, AgentsAssumption DEF Spawn
    <2>2. CASE t = r
        BY <2>1, <2>2 DEF TypeOK
    <2>3. CASE t # r /\ t = live[KeyOf[r]]
        <3>1. queue' = StopSent({t}) /\ thread'[t] = thread[t]
            BY <1>4, <2>3 DEF Spawn, TypeOK
        <3>2. Gone(t)' \/ Stop \in ToSet(queue'[t])
            BY <3>1, StopSending DEF Gone
        <3> QED BY <1>2, <3>2
    <2>4. CASE t # r /\ t # live[KeyOf[r]]
        <3>1. thread[t] # "none"
            BY <1>4, <2>4 DEF Spawn, TypeOK
        <3> QED BY <1>3, <2>1, <2>4, <3>1 DEF TypeOK
    <2> QED BY <2>2, <2>3, <2>4
<1>5. ASSUME DropRegistry, thread[t] # "none", thread'[t] = thread[t] \/ ~Gone(t) PROVE Retired(t)'
    <2>1. CASE t \in LiveThreads
        <3>1. Gone(t)' \/ Stop \in ToSet(queue'[t])
            BY <1>5, <2>1, StopSending DEF DropRegistry, Gone
        <3> QED BY <1>2, <3>1
    <2>2. CASE t \notin LiveThreads
        <3>1. \A k \in Keys : live[k] # t
            BY <2>2, AgentsAssumption DEF LiveThreads, Threads
        <3> QED BY <1>3, <1>5, <3>1
    <2> QED BY <2>1, <2>2
<1>6. ASSUME live' = live, thread[t] # "none" PROVE Retired(t)' \/ \E k \in Keys : live'[k] = t
    BY <1>3, <1>6
<1>7. ASSUME NEW r \in Requests, Load(r) \/ Reuse(r) \/ Send(r) PROVE live' = live /\ thread' = thread
    BY <1>7 DEF Load, Reuse, Send, registry
<1>8. ASSUME NEW u \in Threads, Thread(u)
      PROVE  thread[t] # "none" /\ (live' = live \/ DropRegistry)
    <2>1. thread[t] # "none"
        <3>1. thread[u] # "none"
            BY <1>8 DEF Thread, Build, BuildFails, Take, TakeStop, Finish, Adopt, Bump, Leave, JoinIn,
                        JoinedIn, Deliver
        <3>2. thread' = thread \/ \E to : thread' = [thread EXCEPT ![u] = to]
            <4>1. CASE Build(u) \/ BuildFails(u) \/ Take(u) \/ TakeStop(u) \/ JoinIn(u)
                BY <4>1 DEF Build, BuildFails, Take, TakeStop, JoinIn, End
            <4>2. CASE Finish(u) \/ Adopt(u) \/ Bump(u) \/ Leave(u) \/ JoinedIn(u) \/ Deliver(u)
                BY <4>2 DEF Finish, Adopt, Bump, Leave, JoinedIn, Deliver
            <4> QED BY <1>8, <4>1, <4>2 DEF Thread
        <3>3. t # u => thread'[t] = thread[t]
            BY <3>2 DEF TypeOK
        <3> QED BY <3>1, <3>3
    <2>2. live' = live \/ DropRegistry
        BY <1>8 DEF Thread, Build, BuildFails, Take, TakeStop, Finish, Adopt, Bump, Leave, JoinIn,
                    JoinedIn, Deliver, registry
    <2> QED BY <2>1, <2>2
<1>9. ASSUME LetGo \/ Join \/ Rest \/ UNCHANGED vars
      PROVE  thread' = thread /\ (live' = live \/ DropRegistry)
    BY <1>9 DEF LetGo, Join, Rest, vars
<1>10. thread'[t] = thread[t] \/ ~Gone(t)
    BY GoneStays
<1> QED BY <1>4, <1>5, <1>6, <1>7, <1>8, <1>9, <1>10 DEF Next, Request, Threads

-----------------------------------------------------------------------------
(* The drop of the registry, and what is lost. *)

LEMMA OwnerStep ==
    ASSUME TypeOK, TypeOK', JobInv, OwnerInv, DroppedByTheLast, [Next]_vars
    PROVE  OwnerInv' /\ DroppedByTheLast'
<1> DEFINE P == OwnerInv' /\ DroppedByTheLast'
<1>0. Owner \notin Threads
    BY AgentsAssumption DEF Threads
<1>1. ASSUME UNCHANGED <<live, joining, holders, owner>>,
             \A r \in Requests : request'[r] = "loaded" => request[r] = "loaded" \/ owner = "serving"
      PROVE  P
    BY <1>1 DEF OwnerInv, DroppedByTheLast, LiveThreads
<1>2. ASSUME NEW r \in Requests, Load(r) \/ Reuse(r) \/ Send(r) PROVE P
    <2>1. UNCHANGED <<live, joining, holders, owner>>
        BY <1>2 DEF Load, Reuse, Send, registry
    <2>2. \A q \in Requests : request'[q] = "loaded" => request[q] = "loaded" \/ owner = "serving"
        BY <1>2 DEF Load, Reuse, Send, TypeOK
    <2> QED BY <1>1, <2>1, <2>2
<1>3. ASSUME NEW r \in Requests, Spawn(r) PROVE P
    <2>1. /\ UNCHANGED <<joining, holders, owner>> /\ request[r] = "loaded"
          /\ \A q \in Requests : request'[q] = "loaded" => request[q] = "loaded"
        BY <1>3 DEF Spawn, TypeOK
    <2>2. owner = "serving" /\ holders # {}
        BY <2>1 DEF OwnerInv
    <2> QED BY <2>1, <2>2 DEF OwnerInv, DroppedByTheLast
<1>4. ASSUME NEW t \in Threads, Thread(t), NEW r \in Requests, request'[r] = "loaded"
      PROVE  request[r] = "loaded"
    <2>1. CASE Finish(t) \/ Deliver(t)
        BY <1>4, <2>1 DEF Finish, Deliver, TypeOK
    <2>2. CASE \E how : End(t, how)
        <3>1. CASE request[r] = "queued" /\ (r \in ToSet(queue[t]) \/ job[t] = r)
            BY <1>4, <2>2, <3>1, EndRequests
        <3>2. CASE ~(request[r] = "queued" /\ (r \in ToSet(queue[t]) \/ job[t] = r))
            BY <1>4, <2>2, <3>2, EndRequests
        <3> QED BY <3>1, <3>2
    <2>3. (\E how : End(t, how)) \/ request' = request \/ Finish(t) \/ Deliver(t)
        BY <1>4 DEF Thread, Build, BuildFails, Take, TakeStop, Adopt, Bump, Leave, JoinIn, JoinedIn, requests
    <2> QED BY <1>4, <2>1, <2>2, <2>3
<1>5. ASSUME NEW t \in Threads, Finish(t) PROVE P
    <2>1. UNCHANGED <<live, joining, owner>> /\ (holders' = holders \/ (holders # {} /\ holders' = holders \cup {t}))
        BY <1>5 DEF Finish
    <2>2. Owner \in holders' <=> Owner \in holders
        BY <1>0, <2>1
    <2> QED BY <1>4, <1>5, <2>1, <2>2 DEF OwnerInv, DroppedByTheLast, LiveThreads, Thread
<1>6. ASSUME NEW t \in Threads, Leave(t) PROVE P
    <2>1. holders' = holders \ {t} /\ owner' = owner
        BY <1>6 DEF Leave
    <2>2. OwnerInv'
        BY <1>0, <1>4, <1>6, <2>1 DEF OwnerInv, Thread
    <2>3. CASE holders' = {}
        <3>1. live' = [k \in Keys |-> None]
            BY <1>6, <2>3 DEF Leave, DropRegistry
        <3>2. LiveThreads' = {}
            BY <3>1 DEF LiveThreads
        <3> QED BY <2>2, <2>3, <3>2 DEF DroppedByTheLast
    <2>4. CASE holders' # {}
        BY <1>6, <2>1, <2>2, <2>4 DEF Leave, DroppedByTheLast
    <2> QED BY <2>3, <2>4
<1>7. ASSUME NEW t \in Threads, JoinIn(t) PROVE P
    <2>1. UNCHANGED <<live, holders, owner>> /\ (joining' # {} => joining # {})
        BY <1>7 DEF JoinIn
    <2> QED BY <1>4, <1>7, <2>1 DEF OwnerInv, DroppedByTheLast, LiveThreads, Thread
<1>8. ASSUME NEW t \in Threads, Thread(t), ~Finish(t), ~Leave(t), ~JoinIn(t) PROVE P
    <2>1. UNCHANGED <<live, joining, holders, owner>>
        BY <1>8 DEF Thread, Build, BuildFails, Take, TakeStop, Adopt, Bump, JoinedIn, Deliver, registry
    <2> QED BY <1>1, <1>4, <1>8, <2>1
<1>9. ASSUME LetGo PROVE P
    <2>1. /\ holders' = holders \ {Owner} /\ owner' # "serving"
          /\ \A r \in Requests : request'[r] # "loaded"
        BY <1>9 DEF LetGo, requests
    <2>2. OwnerInv'
        BY <2>1 DEF OwnerInv
    <2>3. CASE holders' = {}
        <3>1. live' = [k \in Keys |-> None]
            BY <1>9, <2>3 DEF LetGo, DropRegistry
        <3>2. LiveThreads' = {}
            BY <3>1 DEF LiveThreads
        <3> QED BY <2>2, <2>3, <3>2 DEF DroppedByTheLast
    <2>4. CASE holders' # {}
        BY <1>9, <2>1, <2>2, <2>4 DEF LetGo, DroppedByTheLast
    <2> QED BY <2>3, <2>4
<1>10. ASSUME Join PROVE P
    <2>1. /\ UNCHANGED <<live, holders, request>> /\ (joining' # {} => joining # {})
          /\ owner # "serving" /\ owner' # "serving"
        BY <1>10 DEF Join, requests
    <2> QED BY <2>1 DEF OwnerInv, DroppedByTheLast, LiveThreads
<1>11. ASSUME Rest \/ UNCHANGED vars PROVE P
    BY <1>1, <1>11 DEF Rest, vars
<1> QED BY <1>2, <1>3, <1>5, <1>6, <1>7, <1>8, <1>9, <1>10, <1>11 DEF Next, Request, Threads

LEMMA LateStep ==
    ASSUME TypeOK, TypeOK', QueueInv, JobInv, HandleInv, OnlyLateWorkIsLost, [Next]_vars
    PROVE  OnlyLateWorkIsLost'
<1> SUFFICES ASSUME NEW r \in Requests, request'[r] = "refused"
             PROVE  r \in late' \/ thread'[handle'[r]] \in {"failed", "panicked"}
    BY DEF OnlyLateWorkIsLost
<1>1. ASSUME request[r] = "refused", handle'[r] = handle[r], late \subseteq late'
      PROVE  r \in late' \/ thread'[handle'[r]] \in {"failed", "panicked"}
    <2>1. handle[r] \in Threads /\ (r \in late \/ thread[handle[r]] \in {"failed", "panicked"})
        BY <1>1 DEF OnlyLateWorkIsLost, HandleInv
    <2> QED BY <1>1, <2>1, GoneStays DEF Gone
<1>2. ASSUME NEW q \in Requests, Load(q) \/ Reuse(q) \/ Spawn(q)
      PROVE  request[r] = "refused" /\ handle'[r] = handle[r] /\ late' = late
    BY <1>2 DEF Load, Reuse, Spawn, TypeOK
<1>3. ASSUME NEW q \in Requests, Send(q)
      PROVE  r \in late' \/ thread'[handle'[r]] \in {"failed", "panicked"}
    <2>1. handle' = handle /\ late \subseteq late' /\ request[q] = "holding"
        BY <1>3 DEF Send
    <2>2. CASE r # q
        <3>1. request[r] = "refused"
            BY <1>3, <2>2 DEF Send, TypeOK
        <3> QED BY <1>1, <2>1, <3>1
    <2>3. CASE r = q
        <3>1. Gone(handle[r]) /\ handle[r] \in Threads
            BY <1>3, <2>1, <2>3 DEF Send, TypeOK, HandleInv
        <3>2. Retired(handle[r])
            BY <3>1, RetiredMeans
        <3> QED BY <1>3, <2>3, <3>2 DEF Send
    <2> QED BY <2>2, <2>3
<1>4. ASSUME NEW t \in Threads, NEW how \in {"ended", "failed", "panicked"}, End(t, how),
             UNCHANGED <<handle, late>>, how = "ended" => TakeStop(t)
      PROVE  r \in late' \/ thread'[handle'[r]] \in {"failed", "panicked"}
    <2>1. CASE request[r] = "queued" /\ (r \in ToSet(queue[t]) \/ job[t] = r)
        <3>1. handle[r] = t
            BY <2>1, AgentsAssumption DEF QueueInv, JobInv
        <3>2. thread'[t] = how
            BY <1>4 DEF End, TypeOK
        <3>3. CASE how = "ended"
            <4>1. /\ thread[t] = "idle" /\ queue[t] \in Seq(Tasks) /\ queue[t] # <<>> /\ Head(queue[t]) = Stop
                BY <1>4, <3>3 DEF TakeStop, TypeOK, Tasks
            <4>2. job[t] = None
                BY <4>1 DEF JobInv, Busy
            <4>3. r \in ToSet(queue[t]) \ {Stop}
                BY <2>1, <4>2, AgentsAssumption
            <4>4. r \in Behind(queue[t])
                BY <4>1, <4>3, Taking
            <4> QED BY <1>4, <4>4 DEF QueueInv
        <3> QED BY <1>4, <3>1, <3>2, <3>3
    <2>2. CASE ~(request[r] = "queued" /\ (r \in ToSet(queue[t]) \/ job[t] = r))
        <3>1. request'[r] = request[r]
            BY <1>4, <2>2, EndRequests
        <3> QED BY <1>1, <1>4, <3>1
    <2> QED BY <2>1, <2>2
<1>5. ASSUME NEW t \in Threads, Thread(t)
      PROVE  r \in late' \/ thread'[handle'[r]] \in {"failed", "panicked"}
    <2>1. UNCHANGED <<handle, late>>
        BY <1>5 DEF Thread, Build, BuildFails, Take, TakeStop, Finish, Adopt, Bump, Leave, JoinIn,
                    JoinedIn, Deliver, requests
    <2>2. CASE Finish(t) \/ Deliver(t)
        <3>1. request[r] = "refused"
            BY <2>2 DEF Finish, Deliver, TypeOK
        <3> QED BY <1>1, <2>1, <3>1
    <2>3. CASE request' = request
        BY <1>1, <2>1, <2>3
    <2>4. \/ request' = request \/ Finish(t) \/ Deliver(t)
          \/ End(t, "failed") \/ End(t, "panicked") \/ (TakeStop(t) /\ End(t, "ended"))
        BY <1>5 DEF Thread, Build, BuildFails, Take, TakeStop, Adopt, Bump, Leave, JoinIn, JoinedIn, requests
    <2> QED BY <1>4, <2>1, <2>2, <2>3, <2>4
<1>6. ASSUME LetGo \/ Join \/ Rest \/ UNCHANGED vars
      PROVE  UNCHANGED <<request, handle, late>>
    BY <1>6 DEF LetGo, Join, Rest, requests, vars
<1> QED BY <1>1, <1>2, <1>3, <1>5, <1>6 DEF Next, Request, Threads

-----------------------------------------------------------------------------
(* The invariant, and what follows. *)

LEMMA InvInit == Init => IInv
<1> SUFFICES ASSUME Init PROVE IInv
    OBVIOUS
<1>1. TypeOK
    BY TypeInit
<1>2. QueueInv
    BY Emptied DEF Init, QueueInv
<1>3. JobInv /\ HandleInv /\ AdoptInv /\ ToldInv /\ OwnerInv /\ OnlyLateWorkIsLost /\ NoOrphans
    BY DEF Init, JobInv, Busy, HandleInv, AdoptInv, ToldInv, OwnerInv, OnlyLateWorkIsLost, NoOrphans, Threads
<1>4. NumberInv
    BY DEF Init, NumberInv, Threads
<1>5. SeenInv
    BY DEF Init, SeenInv, Built, Settled
<1>6. DroppedByTheLast
    BY DEF Init, DroppedByTheLast
<1> QED BY <1>1, <1>2, <1>3, <1>4, <1>5, <1>6 DEF IInv

LEMMA InvStep == IInv /\ [Next]_vars => IInv'
<1> SUFFICES ASSUME IInv, [Next]_vars PROVE IInv'
    OBVIOUS
<1>1. TypeOK'
    BY TypeStep DEF IInv
<1> QED BY <1>1, QueueStep, JobStep, HandleStep, NumberStep, AdoptStep, ToldStep, SeenStep, OwnerStep,
           LateStep, OrphanStep DEF IInv

LEMMA Inductive == Spec => []IInv
BY InvInit, InvStep, PTL DEF Spec

LEMMA Fresh == IInv => FreshAgents
<1> SUFFICES ASSUME IInv, NEW t \in Threads, job[t] # None
             PROVE  (known[job[t]] \ Streaming) \cap adopted \subseteq seen[t]
    BY DEF FreshAgents
<1>1. job[t] \in Requests /\ handle[job[t]] = t /\ request[job[t]] \in {"queued", "answered"}
    BY DEF IInv, JobInv, TypeOK
<1>2. builtAt[t] = loaded[job[t]]
    BY <1>1 DEF IInv, HandleInv
<1>3. Built(t)
    BY DEF IInv, JobInv, Busy, Built
<1> QED BY <1>1, <1>2, <1>3 DEF IInv, SeenInv

\* An installation whose caller waited for its answer is in every agent that serves what that
\* caller asks next, in any session: generations, maps and hooks lag behind no more than that.
THEOREM AgentsAreFresh == Spec => []FreshAgents
BY Inductive, Fresh, PTL

\* A job is lost only behind a Stop, with an agent that was never built, or with a thread that
\* joined itself: retiring an agent loses nothing that was queued before.
THEOREM EarlyWorkIsKept == Spec => []OnlyLateWorkIsLost
<1>1. IInv => OnlyLateWorkIsLost
    BY DEF IInv
<1> QED BY <1>1, Inductive, PTL

\* A thread the map does not name has been told to stop: the drop of the registry reaches all.
THEOREM NoneIsOrphaned == Spec => []NoOrphans
<1>1. IInv => NoOrphans
    BY DEF IInv
<1> QED BY <1>1, Inductive, PTL

\* The registry is dropped by the last to hold it, once, and nothing is in its map after.
THEOREM TheLastDrops == Spec => []DroppedByTheLast
<1>1. IInv => DroppedByTheLast
    BY DEF IInv
<1> QED BY <1>1, Inductive, PTL
===============================================================================
