--------------------------------- MODULE Rest ---------------------------------
(***************************************************************************)
(* The REST surface: its routes, who may use them, on which thread each is *)
(* served, streams whose reader goes away, and the end of the surface.     *)
(* Modelled from pkgs/host/host/src/serve.rs.                              *)
(*                                                                         *)
(* A message is a turn on its session's thread; what is read goes to the   *)
(* housekeeping thread, and an answer to no thread.  How a wait for an     *)
(* answer ends in detail is Prompts', how threads come and go Agents'.     *)
(***************************************************************************)
EXTENDS Integers, Sequences, FiniteSets

CONSTANTS
    Requests,    \* requests
    Sessions,    \* session ids
    Principals,  \* configured principals, each with a token; with none, all may
    Limit        \* how many responses the surface is to complete, 0 without a limit

VARIABLES
    req,       \* a request: what it says, and how far it has come
    queue,     \* the jobs of each thread
    parked,    \* sessions with a question parked
    served,    \* App.served
    stopping, stopped

vars == <<req, queue, parked, served, stopping, stopped>>
surface == <<stopping, stopped>>

House == "housekeeping"
Threads == Sessions \cup {House}
Reads == {"list", "contributions", "invoke", "get", "fork"}
Routes == Reads \cup {"health", "create", "message", "answer", "other"}

\* What it presents: a principal's token, or no such token.
Tokens == Principals \cup {"wrong"}
TakesBody == {"message", "answer", "invoke", "fork"}
Asked == [route : Routes, session : Sessions, token : Tokens, wellFormed : BOOLEAN, stream : BOOLEAN]
Unsent == [route |-> "other", session |-> CHOOSE s \in Sessions : TRUE, token |-> "wrong",
           wellFormed |-> TRUE, stream |-> FALSE]

States == {"unsent", "arrived", "routed", "queued", "running", "replied"}

TypeOK ==
    /\ \A r \in Requests :
          /\ req[r].asked \in Asked /\ req[r].state \in States
          /\ req[r].status \in {0, 200, 201, 400, 401, 404, 409, 500, 502, 503}
          /\ req[r].principal \in Principals \cup {"", "nobody"} /\ req[r].left \in BOOLEAN
    /\ \A t \in Threads : \A i \in DOMAIN queue[t] : queue[t][i] \in Requests
    /\ parked \subseteq Sessions /\ served \in 0..Cardinality(Requests)
    /\ {stopping, stopped} \subseteq BOOLEAN

Init ==
    /\ req = [r \in Requests |-> [asked |-> Unsent, state |-> "unsent", status |-> 0,
                                  principal |-> "nobody", left |-> FALSE]]
    /\ queue = [t \in Threads |-> <<>>] /\ parked = {} /\ served = 0
    /\ stopping = FALSE /\ stopped = FALSE

---------------------------------------------------------------------------
(* The guard and the router.                                               *)

\* authorised: as whom, "nobody" when refused.
Authorised(asked) ==
    IF asked.route = "health" \/ Principals = {} THEN ""
    ELSE IF asked.token \in Principals THEN asked.token ELSE "nobody"

\* served_one, which counts up to a limit, if there is one.  The handler of a request
\* whose client has gone is dropped before it gets there.
Counted(r) ==
    /\ served' = IF Limit = 0 \/ req[r].left THEN served ELSE served + 1
    /\ stopping' = (stopping \/ (Limit # 0 /\ served' >= Limit))

\* A complete reply; the guard counts it.
Reply(r, status) ==
    /\ req' = [req EXCEPT ![r].state = "replied", ![r].status = status]
    /\ Counted(r)

Arrive(r) ==
    /\ req[r].state = "unsent" /\ ~stopping
    /\ \E asked \in Asked :
          /\ asked.stream => asked.route = "message"
          /\ ~asked.wellFormed => asked.route \in TakesBody
          /\ req' = [req EXCEPT ![r].asked = asked, ![r].state = "arrived"]
    /\ UNCHANGED <<queue, parked, served, surface>>

Guard(r) ==
    /\ req[r].state = "arrived" /\ UNCHANGED <<queue, parked, stopped>>
    /\ IF Authorised(req[r].asked) = "nobody" THEN Reply(r, 401)
       ELSE /\ req' = [req EXCEPT ![r].state = "routed", ![r].principal = Authorised(req[r].asked)]
            /\ UNCHANGED <<served, stopping>>

\* Replied to by the router itself.
AtOnce(r) ==
    /\ req[r].state = "routed" /\ UNCHANGED <<queue, parked, stopped>>
    /\ \/ req[r].asked.route = "health" /\ Reply(r, 200)
       \/ req[r].asked.route = "create" /\ Reply(r, 201)
       \/ req[r].asked.route = "other" /\ Reply(r, 404)

\* `POST /session/{id}/answer`
Answer(r) ==
    /\ req[r].state = "routed" /\ req[r].asked.route = "answer" /\ UNCHANGED <<queue, stopped>>
    /\ IF ~req[r].asked.wellFormed THEN Reply(r, 400) /\ UNCHANGED parked
       ELSE IF req[r].asked.session \in parked
       THEN Reply(r, 200) /\ parked' = parked \ {req[r].asked.session}
       ELSE Reply(r, 409) /\ UNCHANGED parked

---------------------------------------------------------------------------
(* The threads.                                                            *)

\* Mutant: what is read of a session is read on its thread.
ThreadOfSession(asked) == IF asked.route \in {"message", "get", "fork"} THEN asked.session ELSE House

\* Whose job it is: on_session, and the streaming message's agents.of.
ThreadOf(asked) == IF asked.route = "message" THEN asked.session ELSE House

\* The queue may be closed, of an agent that could not be built.
Enqueue(r) ==
    /\ req[r].state = "routed" /\ req[r].asked.route \in Reads \cup {"message"}
    /\ UNCHANGED <<parked, stopped>>
    /\ \/ Reply(r, 503) /\ UNCHANGED queue
       \/ /\ queue' = [queue EXCEPT ![ThreadOf(req[r].asked)] = Append(@, r)]
          /\ IF req[r].asked.stream
             THEN req' = [req EXCEPT ![r].state = "queued", ![r].status = 200] /\ Counted(r)
             ELSE req' = [req EXCEPT ![r].state = "queued"] /\ UNCHANGED <<served, stopping>>

Job(t, r) == queue[t] # <<>> /\ r = Head(queue[t])
EndJob(t, r, status) ==
    /\ queue' = [queue EXCEPT ![t] = Tail(@)]
    /\ IF req[r].asked.stream
       THEN req' = [req EXCEPT ![r].state = "replied"] /\ UNCHANGED <<served, stopping>>
       ELSE Reply(r, status)

\* handle_list_sessions and the others on the housekeeping thread.
Read(t, r) ==
    /\ Job(t, r) /\ req[r].state = "queued" /\ req[r].asked.route \in Reads
    /\ UNCHANGED <<parked, stopped>>
    /\ \E status \in CASE ~req[r].asked.wellFormed -> {400}
                       [] req[r].asked.route = "invoke" -> {200, 404, 400, 500}
                       [] req[r].asked.route = "fork" -> {201, 404, 500}
                       [] OTHER -> {200} : EndJob(t, r, status)

\* handle_message and run_turn_streaming: the body is read on the thread.
BeginTurn(t, r) ==
    /\ Job(t, r) /\ req[r].state = "queued" /\ req[r].asked.route = "message"
    /\ UNCHANGED <<parked, stopped>>
    /\ IF ~req[r].asked.wellFormed THEN EndJob(t, r, 400)
       ELSE req' = [req EXCEPT ![r].state = "running"] /\ UNCHANGED <<queue, served, stopping>>

\* Only a streamed turn can ask; an awaited one takes the default.
Park(t, r) ==
    /\ Job(t, r) /\ req[r].state = "running" /\ req[r].asked.stream /\ ~req[r].left
    /\ t \notin parked /\ parked' = parked \cup {t}
    /\ UNCHANGED <<req, queue, served, surface>>

\* Time is up, or a heartbeat finds nobody.
Unpark(t, r) ==
    /\ Job(t, r) /\ req[r].state = "running" /\ t \in parked /\ parked' = parked \ {t}
    /\ UNCHANGED <<req, queue, served, surface>>

\* The turn is answered or fails, or a frame that cannot be sent ends it.
EndTurn(t, r) ==
    /\ Job(t, r) /\ req[r].state = "running" /\ t \notin parked
    /\ \E status \in {200, 502} : EndJob(t, r, status)
    /\ UNCHANGED <<parked, stopped>>

---------------------------------------------------------------------------
(* Clients that leave, and the end.                                        *)

Leave(r) ==
    /\ req[r].state \in {"queued", "running"} /\ ~req[r].left
    /\ req' = [req EXCEPT ![r].left = TRUE] /\ UNCHANGED <<queue, parked, served, surface>>

\* serve_while's client is done.
StopNotified == Limit = 0 /\ ~stopping /\ stopping' = TRUE /\ UNCHANGED <<req, queue, parked, served, stopped>>

\* Graceful: connections that are open are served to their end.
GatewayStops ==
    /\ stopping /\ ~stopped /\ \A r \in Requests : req[r].state \in {"unsent", "replied"} \/ req[r].left
    /\ stopped' = TRUE /\ UNCHANGED <<req, queue, parked, served, stopping>>

Next ==
    \/ \E r \in Requests : Arrive(r) \/ Guard(r) \/ AtOnce(r) \/ Answer(r) \/ Enqueue(r) \/ Leave(r)
    \/ \E t \in Threads, r \in Requests :
          Read(t, r) \/ BeginTurn(t, r) \/ Park(t, r) \/ Unpark(t, r) \/ EndTurn(t, r)
    \/ StopNotified \/ GatewayStops

\* A turn may take for ever: only what the surface does itself is owed, and the
\* housekeeping thread.
Owed(r) == Guard(r) \/ AtOnce(r) \/ Answer(r) \/ Enqueue(r) \/ Read(House, r)
Fairness == \A r \in Requests : WF_vars(Owed(r))
Spec == Init /\ [][Next]_vars
FairSpec == Spec /\ Fairness

---------------------------------------------------------------------------

\* Whatever a turn waits for, nothing but a message waits for it: lists, reads and
\* forks of that session are replied to, and above all the answer it waits for,
\* "handled off the session thread, where it would queue behind the parked turn".
OnlyMessagesWait ==
    \A r \in Requests : req[r].state = "arrived" /\ req[r].asked.route # "message" ~> req[r].state = "replied"
===============================================================================
