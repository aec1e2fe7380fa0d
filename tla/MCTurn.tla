-------------------------------- MODULE MCTurn --------------------------------
(* A turn and who asked for it: a small instance of Turn, with two interceptors, *)
(* the second also at the gates; and the terminal client, for which a turn is a  *)
(* message it sent.  They share no state, so a behaviour is one of the one or    *)
(* one of the other.                                                             *)
EXTENDS Turn

CONSTANTS MaxTurns, MaxRequests, MaxCancels, MaxSteers     \* of Client

ASSUME ClientAssumption == {MaxTurns, MaxRequests, MaxCancels, MaxSteers, MaxAsks} \subseteq Nat

MCSubscribers ==
    [p \in Phases |->
        CASE p \in {"tool-call"}                      -> {1, 2}
          [] p \in {"before-loop", "select-context"}  -> {1}
          [] p \in {"tool-result", "after-response", "prepare-next-turn",
                 "finalize"}                            -> {2}
          [] OTHER                                    -> {}]
\* The SSE and RPC sinks report on every event, the ACP sink on text only, others never.
MCSinks == {{"text-delta", "tool-invoked", "tool-result"}, {"text-delta"}, {}}

VARIABLES
    part,       \* "turn" or "client"
    at, shown, prompts, dialog, cancelReq, callReq, switcher, away, rx, channel, stream,
    answering, toGateway, toClient, gateway, running, count, crossed

Cl == INSTANCE Client WITH
    MaxCalls <- MaxRequests, pc <- at, phase <- shown, gone <- away

clientvars == <<at, shown, prompts, dialog, cancelReq, callReq, switcher, away, rx, channel, stream,
                answering, toGateway, toClient, gateway, running, count, crossed>>

\* A turn that does not move begins with one of the sinks.
PartInit ==
    /\ part \in {"turn", "client"} /\ Init /\ Cl!Init
    /\ part = "client" => reports = {}

A(step) == part = "turn" /\ step /\ UNCHANGED <<part, clientvars>>
L(step) == part = "client" /\ step /\ UNCHANGED <<part, vars>>

PartNext ==
    \/ A(Dispatch) \/ A(Conduct) \/ A(GoAway) \/ A(Stay)
    \/ L(Cl!Loop) \/ L(Cl!User) \/ L(Cl!SendAnswer) \/ L(Cl!Gateway) \/ L(Cl!Ask) \/ L(Cl!Die)
    \/ \E m \in Cl!Messages : L(Cl!SendMessage(m)) \/ L(Cl!LockStream(m)) \/ L(Cl!ReadStream(m))

PartSpec ==
    /\ PartInit /\ [][PartNext]_<<part, vars, clientvars>>
    /\ WF_vars(part = "turn" /\ (Dispatch \/ Conduct))
    /\ WF_clientvars(part = "client" /\ Cl!Loop) /\ WF_clientvars(part = "client" /\ Cl!SendAnswer)
    /\ WF_clientvars(part = "client" /\ Cl!Gateway)
    /\ \A m \in Cl!Messages :
        WF_clientvars(part = "client"
            /\ (Cl!SendMessage(m) \/ Cl!LockStream(m) \/ Cl!ReadStream(m)))

\* Every turn ends, if it is a turn that runs and its interceptors do not ask forever.
EveryTurnEnds == part = "turn" => TurnEnds

\* The client's properties, by the names it gives them.
ClientTypes == Cl!TypeOK
IdleIsIdle == Cl!IdleIsIdle
PromptsAreLive == Cl!PromptsAreLive
CallsReturn == Cl!CallsReturn
DeathIsNoticed == Cl!DeathIsNoticed
===============================================================================
