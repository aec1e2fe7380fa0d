-------------------------------- MODULE Prompts --------------------------------
(***************************************************************************)
(* A turn that asks its client over the event stream: the registry of      *)
(* parked turns, the driver that parks and waits, and the answers that     *)
(* come in as requests of their own.  Modelled from                        *)
(* pkgs/host/host/src/pending.rs and PromptDriver and the answer handler   *)
(* in serve.rs.                                                            *)
(*                                                                         *)
(* A turn runs on its session's thread, an answer on one of the server's,  *)
(* and the client may vanish at any time.  The registry knows a session,   *)
(* not a question: that is what the properties are about.                  *)
(***************************************************************************)
EXTENDS Integers, FiniteSets

CONSTANTS
    Sessions,
    Turns,       \* streaming turns
    Layouts,     \* the ways the turns may share sessions: functions from turns to sessions
    Answers,     \* requests to answer a prompt
    None,
    Default,     \* the prompt's default answer
    MaxAsks,     \* bound: questions of one turn
    MaxSlices    \* bound: heartbeats within the answer timeout

ASSUME PromptsAssumption ==
    /\ Layouts \subseteq [Turns -> Sessions]
    /\ MaxAsks \in Nat /\ MaxSlices \in Nat
    /\ None \notin Answers /\ Default \notin Answers /\ None # Default

Questions == Turns \X (1..MaxAsks)

ASSUME NoQuestion == None \notin Questions

VARIABLES
    sessionOf, \* turn -> its session
    waiting,   \* Pending.waiting: session -> the question whose sender is registered
    turn,      \* turn -> working, parked, waiting, slice, leaving or over
    asked,     \* turn -> questions so far
    slices,    \* turn -> heartbeats of this question so far
    inbox,     \* turn -> the answer in the channel of its question
    open,      \* turn -> whether the client still reads the stream
    answer,    \* answer -> unsent, sent, found, accepted or refused
    found,     \* answer -> the question whose sender it took from the registry
    outcome,   \* history: question -> what the turn went on with
    aim        \* history: answer -> the session its client named

vars == <<sessionOf, waiting, turn, asked, slices, inbox, open, answer, found, outcome, aim>>

requests == <<sessionOf, answer, found, aim>>

Question(t) == <<t, asked[t]>>

\* The receiver of this question's channel still exists.
Listening(q) == turn[q[1]] \in {"parked", "waiting", "slice", "leaving"} /\ asked[q[1]] = q[2]

Init ==
    /\ sessionOf \in Layouts
    /\ waiting = [s \in Sessions |-> None]
    /\ turn = [t \in Turns |-> "working"]
    /\ asked = [t \in Turns |-> 0]
    /\ slices = [t \in Turns |-> 0]
    /\ inbox = [t \in Turns |-> None]
    /\ open = [t \in Turns |-> TRUE]
    /\ answer = [h \in Answers |-> "unsent"]
    /\ found = [h \in Answers |-> None]
    /\ outcome = [q \in Questions |-> None]
    /\ aim = [h \in Answers |-> None]

-----------------------------------------------------------------------------
(* PromptDriver::ask, on the turn's thread. *)

Settle(q, result) == outcome' = [outcome EXCEPT ![q] = result]

\* Pending::park: a session has one parked turn; a second takes the default.
Park(t) ==
    /\ turn[t] = "working" /\ asked[t] < MaxAsks
    /\ asked' = [asked EXCEPT ![t] = @ + 1]
    /\ slices' = [slices EXCEPT ![t] = 0]
    /\ IF waiting[sessionOf[t]] = None
       THEN /\ waiting' = [waiting EXCEPT ![sessionOf[t]] = <<t, asked[t] + 1>>]
            /\ turn' = [turn EXCEPT ![t] = "parked"]
            /\ UNCHANGED outcome
       ELSE Settle(<<t, asked[t] + 1>>, Default) /\ UNCHANGED <<waiting, turn>>
    /\ UNCHANGED <<inbox, open, requests>>

\* Out of the wait, with an answer or the default; Parked is dropped next.
Return(t, result) ==
    /\ turn' = [turn EXCEPT ![t] = "leaving"]
    /\ Settle(Question(t), result)

\* The prompt's frame goes out once the turn is parked.
Show(t) ==
    /\ turn[t] = "parked"
    /\ IF open[t]
       THEN turn' = [turn EXCEPT ![t] = "waiting"] /\ UNCHANGED outcome
       ELSE Return(t, Default)
    /\ UNCHANGED <<waiting, asked, slices, inbox, open, requests>>

\* Parked::wait: an answer is in the channel ...
Receive(t) ==
    /\ turn[t] = "waiting" /\ inbox[t] # None
    /\ Return(t, inbox[t])
    /\ UNCHANGED <<waiting, asked, slices, inbox, open, requests>>

\* Mutant: a wait that expired is dropped from the registry.
SliceDropped(t) ==
    /\ turn[t] = "waiting" /\ inbox[t] = None
    /\ waiting' = [waiting EXCEPT ![sessionOf[t]] = None]
    /\ turn' = [turn EXCEPT ![t] = "slice"]
    /\ UNCHANGED <<asked, slices, inbox, open, outcome, requests>>

\* ... or the slice expired.
Slice(t) ==
    /\ turn[t] = "waiting" /\ inbox[t] = None
    /\ turn' = [turn EXCEPT ![t] = "slice"]
    /\ UNCHANGED <<waiting, asked, slices, inbox, open, outcome, requests>>

\* The slice was the last before the deadline; an answer that came meanwhile is not looked at.
TimeOut(t) ==
    /\ turn[t] = "slice"
    /\ Return(t, Default)
    /\ UNCHANGED <<waiting, asked, slices, inbox, open, requests>>

\* Mutant: the heartbeats go on past the deadline.
HeartbeatPastDeadline(t) ==
    /\ turn[t] = "slice"
    /\ slices' = [slices EXCEPT ![t] = @ + 1]
    /\ IF open[t]
       THEN turn' = [turn EXCEPT ![t] = "waiting"] /\ UNCHANGED outcome
       ELSE Return(t, Default)
    /\ UNCHANGED <<waiting, asked, inbox, open, requests>>

\* Mutant: every heartbeat starts the deadline anew.
HeartbeatAnew(t) ==
    /\ turn[t] = "slice"
    /\ IF open[t]
       THEN turn' = [turn EXCEPT ![t] = "waiting"] /\ UNCHANGED outcome
       ELSE Return(t, Default)
    /\ UNCHANGED <<waiting, asked, slices, inbox, open, requests>>

\* Otherwise the heartbeat is written, and fails when the client is gone.
Heartbeat(t) ==
    /\ turn[t] = "slice" /\ slices[t] < MaxSlices
    /\ slices' = [slices EXCEPT ![t] = @ + 1]
    /\ IF open[t]
       THEN turn' = [turn EXCEPT ![t] = "waiting"] /\ UNCHANGED outcome
       ELSE Return(t, Default)
    /\ UNCHANGED <<waiting, asked, inbox, open, requests>>

\* Mutant: Parked has no Drop.
UnparkSilently(t) ==
    /\ turn[t] = "leaving"
    /\ inbox' = [inbox EXCEPT ![t] = None]
    /\ turn' = [turn EXCEPT ![t] = "working"]
    /\ UNCHANGED <<waiting, asked, slices, open, outcome, requests>>

\* Drop for Parked: the session's entry goes, whoever's it is, and the receiver with it.
Unpark(t) ==
    /\ turn[t] = "leaving"
    /\ waiting' = [waiting EXCEPT ![sessionOf[t]] = None]
    /\ inbox' = [inbox EXCEPT ![t] = None]
    /\ turn' = [turn EXCEPT ![t] = "working"]
    /\ UNCHANGED <<asked, slices, open, outcome, requests>>

EndTurn(t) ==
    /\ turn[t] = "working"
    /\ turn' = [turn EXCEPT ![t] = "over"]
    /\ UNCHANGED <<waiting, asked, slices, inbox, open, outcome, requests>>

-----------------------------------------------------------------------------
(* Clients, and the handler of POST /session/{id}/answer. *)

Vanish(t) ==
    /\ open[t] /\ turn[t] # "over"
    /\ open' = [open EXCEPT ![t] = FALSE]
    /\ UNCHANGED <<waiting, turn, asked, slices, inbox, outcome, requests>>

\* Any client may answer for any session, at any time, again too.
Post(h, s) ==
    /\ answer[h] = "unsent"
    /\ answer' = [answer EXCEPT ![h] = "sent"]
    /\ aim' = [aim EXCEPT ![h] = s]
    /\ UNCHANGED <<sessionOf, waiting, turn, asked, slices, inbox, open, found, outcome>>

\* Mutant: the sender stays in the registry.
LookupKeeping(h) ==
    /\ answer[h] = "sent"
    /\ LET s == aim[h]
       IN  /\ found' = [found EXCEPT ![h] = waiting[s]]
           /\ answer' = [answer EXCEPT ![h] = IF waiting[s] = None THEN "refused" ELSE "found"]
    /\ UNCHANGED <<sessionOf, waiting, turn, asked, slices, inbox, open, outcome, aim>>

\* Pending::answer takes the session's sender out of the registry ...
Lookup(h) ==
    /\ answer[h] = "sent"
    /\ LET s == aim[h]
       IN  /\ found' = [found EXCEPT ![h] = waiting[s]]
           /\ waiting' = [waiting EXCEPT ![s] = None]
           /\ answer' = [answer EXCEPT ![h] = IF waiting[s] = None THEN "refused" ELSE "found"]
    /\ UNCHANGED <<sessionOf, turn, asked, slices, inbox, open, outcome, aim>>

\* ... and, the lock released, sends: 200 if the receiver is still there, 409 if not.
Hand(h) ==
    /\ answer[h] = "found"
    /\ IF Listening(found[h])
       THEN /\ inbox' = [inbox EXCEPT ![found[h][1]] = h]
            /\ answer' = [answer EXCEPT ![h] = "accepted"]
       ELSE inbox' = inbox /\ answer' = [answer EXCEPT ![h] = "refused"]
    /\ UNCHANGED <<sessionOf, waiting, turn, asked, slices, open, found, outcome, aim>>

-----------------------------------------------------------------------------

Asking(t) ==
    Show(t) \/ Receive(t) \/ Slice(t) \/ TimeOut(t) \/ Heartbeat(t) \/ Unpark(t)

Answering(h) == (\E s \in Sessions : Post(h, s)) \/ Lookup(h) \/ Hand(h)

\* Every turn is over and every answer has its reply.
Rest ==
    /\ \A t \in Turns : turn[t] = "over"
    /\ \A h \in Answers : answer[h] \in {"accepted", "refused"}
    /\ UNCHANGED vars

Next ==
    \/ \E t \in Turns : Park(t) \/ Asking(t) \/ EndTurn(t) \/ Vanish(t)
    \/ \E h \in Answers : Answering(h)
    \/ Rest

Spec == Init /\ [][Next]_vars

\* The turn's thread and the handlers run on; what clients do is their own affair.
FairSpec ==
    /\ Spec
    /\ \A t \in Turns : WF_vars(Asking(t))
    /\ \A h \in Answers : WF_vars(Lookup(h) \/ Hand(h))

-----------------------------------------------------------------------------
(* Properties. *)

\* Type correctness.
TypeOK ==
    /\ sessionOf \in Layouts
    /\ waiting \in [Sessions -> Questions \cup {None}]
    /\ turn \in [Turns -> {"working", "parked", "waiting", "slice", "leaving", "over"}]
    /\ asked \in [Turns -> 0..MaxAsks] /\ slices \in [Turns -> 0..MaxSlices]
    /\ inbox \in [Turns -> Answers \cup {None}] /\ open \in [Turns -> BOOLEAN]
    /\ answer \in [Answers -> {"unsent", "sent", "found", "accepted", "refused"}]
    /\ found \in [Answers -> Questions \cup {None}]
    /\ outcome \in [Questions -> Answers \cup {None, Default}]
    /\ aim \in [Answers -> Sessions \cup {None}]

\* A question the client can see, and that nobody has answered, is the one an answer goes to.
Reachable(t) ==
    turn[t] \in {"waiting", "slice"} /\ (\A h \in Answers : found[h] # Question(t))
        => waiting[sessionOf[t]] = Question(t)

Alone(t) == \A u \in Turns : sessionOf[u] = sessionOf[t] => u = t

\* A turn that has its session to itself stays reachable: no late drop of an earlier wait, no
\* answer to an earlier question, no other session's traffic takes its entry away.
AloneReachable == \A t \in Turns : Alone(t) => Reachable(t)

\* A dropped wait leaves nothing behind: no registered sender outlives the wait it was made for.
NothingLeftBehind ==
    \A s \in Sessions : waiting[s] # None => Listening(waiting[s]) /\ sessionOf[waiting[s][1]] = s

\* Of many answers one wins, and an accepted answer is what the turn goes on with, unless its
\* time was up when the answer came; no turn goes on with a refused one or another session's.
AcceptedIsTaken ==
    \A h \in Answers :
        /\ answer[h] = "accepted" =>
             \/ outcome[found[h]] = Default
             \/ outcome[found[h]] = None /\ inbox[found[h][1]] = h
             \/ outcome[found[h]] = h
        /\ \A q \in Questions : outcome[q] = h =>
             answer[h] = "accepted" /\ found[h] = q /\ sessionOf[q[1]] = aim[h]

\* A parked turn goes on: at its answer, at the timeout, or a heartbeat after its client is gone.
ParkedGoesOn == \A t \in Turns : turn[t] = "parked" ~> turn[t] = "working"

-----------------------------------------------------------------------------
(* What the repository says and the code does not do. *)

\* a_prompt_is_answerable_as_soon_as_its_frame_can_be_read (serve.rs): whatever other turn of
\* the session asked before, or asks now.
Answerable == \A t \in Turns : Reachable(t)
===============================================================================
