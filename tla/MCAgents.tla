------------------------------- MODULE MCAgents -------------------------------
(* The registry of agents, with two requests to one session and one to       *)
(* another; and the REST surface in front of it, for which an agent is a     *)
(* queue.  A behaviour is one of the one or one of the other.                *)
EXTENDS Agents

CONSTANTS a, i, j, k1, k2

\* The installer `i` works in a session of its own; `j` shares one with `a`.
MCKeyOf == [r \in Requests |-> IF r = i THEN k2 ELSE k1]

VARIABLES
    part,       \* "agents" or "rest"
    req, lines, parked, served, stopping, stopped

\* One session is enough for what waits behind its turn; serve_while, without a limit.
Calls == {"r1", "r2"}
R == INSTANCE Rest WITH
    Requests <- Calls, Sessions <- {"s"}, Principals <- {"p"}, Limit <- 0, queue <- lines

restvars == <<req, lines, parked, served, stopping, stopped>>

EitherInit == part \in {"agents", "rest"} /\ Init /\ R!Init

A(step) == part = "agents" /\ step /\ UNCHANGED <<part, restvars>>
S(step) == part = "rest" /\ step /\ UNCHANGED <<part, vars>>

EitherNext ==
    \/ \E r \in Requests :
        \/ A(Load(r)) \/ A(Reuse(r)) \/ A(Spawn(r)) \/ A(Send(r))
        \/ A(Build(r)) \/ A(BuildFails(r)) \/ A(Take(r)) \/ A(TakeStop(r)) \/ A(Finish(r))
        \/ A(Adopt(r)) \/ A(Bump(r)) \/ A(Leave(r)) \/ A(JoinIn(r)) \/ A(JoinedIn(r)) \/ A(Deliver(r))
    \/ A(LetGo) \/ A(Join) \/ A(Rest)
    \/ \E r \in Calls :
        \/ S(R!Arrive(r)) \/ S(R!Guard(r)) \/ S(R!AtOnce(r)) \/ S(R!Answer(r)) \/ S(R!Enqueue(r))
        \/ S(R!Leave(r))
        \/ \E t \in R!Threads :
            \/ S(R!Read(t, r)) \/ S(R!BeginTurn(t, r)) \/ S(R!Park(t, r)) \/ S(R!Unpark(t, r))
            \/ S(R!EndTurn(t, r))
    \/ S(R!StopNotified) \/ S(R!GatewayStops)
    \/ S(stopped /\ UNCHANGED restvars)

EitherSpec ==
    /\ EitherInit /\ [][EitherNext]_<<part, vars, restvars>>
    /\ \A r \in Requests :
        /\ WF_vars(part = "agents" /\ (Reuse(r) \/ Spawn(r) \/ Send(r)))
        /\ WF_vars(part = "agents" /\ Thread(r))
    /\ WF_vars(part = "agents" /\ Join)
    /\ \A r \in Calls : WF_restvars(part = "rest" /\ R!Owed(r))

\* The surface's properties, by the names it gives them.
RestTypes == R!TypeOK
OnlyMessagesWait == R!OnlyMessagesWait
===============================================================================
