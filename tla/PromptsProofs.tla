----------------------------- MODULE PromptsProofs -----------------------------
(***************************************************************************)
(* What holds of the parked turns for any number of sessions, turns,       *)
(* questions, answers and heartbeats, however the turns share sessions.    *)
(***************************************************************************)
EXTENDS Prompts, TLAPS

\* An answer has found a question once it was looked up, of the session it named.
FoundInv == \A h \in Answers :
    /\ answer[h] \in {"unsent", "sent"} => found[h] = None
    /\ answer[h] \in {"sent", "found", "accepted", "refused"} => aim[h] \in Sessions
    /\ answer[h] \in {"found", "accepted"} => found[h] # None
    /\ found[h] # None => sessionOf[found[h][1]] = aim[h] /\ found[h][2] <= asked[found[h][1]]

\* Who takes a question out of the registry is the only one to have it.
TakenInv ==
    /\ \A h, g \in Answers : found[h] # None /\ found[h] = found[g] => h = g
    /\ \A s \in Sessions, h \in Answers : waiting[s] # None => found[h] # waiting[s]

\* What lies in a channel was accepted for the question that waits on it.
InboxInv == \A t \in Turns : inbox[t] # None =>
    /\ answer[inbox[t]] = "accepted" /\ found[inbox[t]] = Question(t)
    /\ Listening(Question(t))

\* A question is settled when its wait is left, and not before.
SettledInv ==
    /\ \A q \in Questions : q[2] > asked[q[1]] => outcome[q] = None
    /\ \A t \in Turns : turn[t] \in {"parked", "waiting", "slice"} => outcome[Question(t)] = None
    /\ \A t \in Turns : turn[t] = "leaving" => outcome[Question(t)] # None

\* A turn is in a wait only with a question of its own.
AskedInv == \A t \in Turns :
    turn[t] \in {"parked", "waiting", "slice", "leaving"} => asked[t] \in 1..MaxAsks

\* A turn alone in its session is registered from the moment it parks.
RegisteredInv == \A t \in Turns :
    Alone(t) /\ turn[t] \in {"parked", "waiting", "slice"} =>
        waiting[sessionOf[t]] = Question(t) \/ \E h \in Answers : found[h] = Question(t)

IInv ==
    /\ TypeOK /\ AskedInv /\ NothingLeftBehind /\ FoundInv /\ TakenInv
    /\ InboxInv /\ SettledInv /\ RegisteredInv /\ AcceptedIsTaken

-----------------------------------------------------------------------------
(* The steps, as far as the invariant is concerned. *)

Waits == {"parked", "waiting", "slice"}

LEMMA QuestionParts ==
    ASSUME NEW q \in Questions
    PROVE  q[1] \in Turns /\ q[2] \in 1..MaxAsks /\ q = <<q[1], q[2]>> /\ q # None
  BY NoQuestion DEF Questions

LEMMA OwnQuestion ==
    ASSUME NEW t \in Turns, asked[t] \in 1..MaxAsks
    PROVE  Question(t) \in Questions /\ Question(t)[1] = t /\ Question(t)[2] = asked[t]
  BY DEF Question, Questions

\* Within a wait a turn waits on, or leaves it with an answer or the default.
WaitsOn(t) ==
    /\ turn[t] \in Waits /\ \E w \in {"waiting", "slice"} : turn' = [turn EXCEPT ![t] = w]
    /\ outcome' = outcome
Leaves(t, result) ==
    /\ turn[t] \in Waits /\ turn' = [turn EXCEPT ![t] = "leaving"]
    /\ result = Default \/ (inbox[t] # None /\ result = inbox[t])
    /\ outcome' = [outcome EXCEPT ![Question(t)] = result]

LEMMA Waiting ==
    ASSUME NEW t \in Turns, Show(t) \/ Receive(t) \/ Slice(t) \/ TimeOut(t) \/ Heartbeat(t)
    PROVE  /\ UNCHANGED <<waiting, asked, inbox, open, sessionOf, answer, found, aim>>
           /\ WaitsOn(t) \/ \E result \in {Default, inbox[t]} : Leaves(t, result)
<1> USE DEF WaitsOn, Leaves, Waits, Return, Settle, requests
<1>1. CASE Show(t)
  BY <1>1 DEF Show
<1>2. CASE Receive(t)
  BY <1>2 DEF Receive
<1>3. CASE Slice(t)
  BY <1>3 DEF Slice
<1>4. CASE TimeOut(t)
  BY <1>4 DEF TimeOut
<1>5. CASE Heartbeat(t)
  BY <1>5 DEF Heartbeat
<1> QED
  BY <1>1, <1>2, <1>3, <1>4, <1>5

\* A turn that parks, when the registry is free, or goes on with the default.
Parks(t) ==
    /\ waiting[sessionOf[t]] = None
    /\ waiting' = [waiting EXCEPT ![sessionOf[t]] = <<t, asked[t] + 1>>]
    /\ turn' = [turn EXCEPT ![t] = "parked"] /\ outcome' = outcome
GoesOn(t) ==
    waiting' = waiting /\ turn' = turn /\ outcome' = [outcome EXCEPT ![<<t, asked[t] + 1>>] = Default]

LEMMA Parking ==
    ASSUME TypeOK, NEW t \in Turns, Park(t)
    PROVE  /\ turn[t] = "working" /\ asked[t] < MaxAsks /\ asked' = [asked EXCEPT ![t] = asked[t] + 1]
           /\ UNCHANGED <<inbox, open, sessionOf, answer, found, aim>>
           /\ Parks(t) \/ GoesOn(t)
  BY DEF Park, Parks, GoesOn, Settle, requests, TypeOK

LEMMA ParkingMoves ==
    ASSUME TypeOK, NEW t \in Turns, Park(t)
    PROVE  \A u \in Turns : u # t => turn'[u] = turn[u] /\ asked'[u] = asked[u]
<1>1. turn' = turn \/ turn' = [turn EXCEPT ![t] = "parked"]
  BY DEF Park
<1>2. asked' = [asked EXCEPT ![t] = asked[t] + 1]
  BY Parking
<1> QED
  BY <1>1, <1>2 DEF TypeOK

\* Nothing that the invariant looks at.
LEMMA Idling ==
    ASSUME UNCHANGED vars \/ Rest \/ \E t \in Turns : Vanish(t)
    PROVE  UNCHANGED <<sessionOf, waiting, turn, asked, slices, inbox, answer, found, outcome, aim>>
  BY DEF vars, Rest, Vanish, requests

LEMMA Actors ==
    ASSUME [Next]_vars
    PROVE  \/ \E t \in Turns : Park(t)
           \/ \E t \in Turns : Show(t) \/ Receive(t) \/ Slice(t) \/ TimeOut(t) \/ Heartbeat(t)
           \/ \E t \in Turns : Unpark(t)
           \/ \E t \in Turns : EndTurn(t)
           \/ \E h \in Answers, s \in Sessions : Post(h, s)
           \/ \E h \in Answers : Lookup(h)
           \/ \E h \in Answers : Hand(h)
           \/ UNCHANGED vars \/ Rest \/ \E t \in Turns : Vanish(t)
  BY DEF Next, Asking, Answering

-----------------------------------------------------------------------------
(* Types. *)

LEMMA AskedStep ==
    ASSUME TypeOK, AskedInv, [Next]_vars
    PROVE  AskedInv'
<1> USE PromptsAssumption DEF AskedInv
<1>1. ASSUME NEW t \in Turns, Park(t)
      PROVE  AskedInv'
  <2>1. asked'[t] = asked[t] + 1 /\ asked'[t] \in 1..MaxAsks
    <3>1. asked[t] \in 0..MaxAsks /\ asked[t] < MaxAsks
      BY <1>1, Parking DEF TypeOK
    <3>2. asked'[t] = asked[t] + 1
      BY <1>1, Parking DEF TypeOK
    <3> QED
      BY <3>1, <3>2
  <2>2. \A u \in Turns : u # t => turn'[u] = turn[u] /\ asked'[u] = asked[u]
    BY <1>1, ParkingMoves
  <2> QED
    BY <2>1, <2>2
<1>2. ASSUME NEW t \in Turns, Show(t) \/ Receive(t) \/ Slice(t) \/ TimeOut(t) \/ Heartbeat(t)
      PROVE  AskedInv'
  BY <1>2, Waiting DEF TypeOK, WaitsOn, Leaves, Waits
<1>3. ASSUME NEW t \in Turns, Unpark(t) \/ EndTurn(t)
      PROVE  AskedInv'
  BY <1>3 DEF TypeOK, Unpark, EndTurn
<1>4. CASE \/ \E h \in Answers, s \in Sessions : Post(h, s)
           \/ \E h \in Answers : Lookup(h) \/ Hand(h)
  BY <1>4 DEF Post, Lookup, Hand
<1>5. CASE UNCHANGED vars \/ Rest \/ \E t \in Turns : Vanish(t)
  BY <1>5, Idling
<1> QED
  BY <1>1, <1>2, <1>3, <1>4, <1>5, Actors

LEMMA TypeStep ==
    ASSUME TypeOK, AskedInv, FoundInv, [Next]_vars
    PROVE  TypeOK'
<1> USE PromptsAssumption DEF TypeOK
<1>1. ASSUME NEW t \in Turns, Park(t)
      PROVE  TypeOK'
  <2>1. <<t, asked[t] + 1>> \in Questions /\ sessionOf[t] \in Sessions
    BY <1>1, Parking DEF Questions
  <2>2. slices' \in [Turns -> 0..MaxSlices]
    BY <1>1 DEF Park
  <2> QED
    BY <1>1, <2>1, <2>2, Parking DEF Parks, GoesOn
<1>2. ASSUME NEW t \in Turns, Show(t) \/ Receive(t) \/ Slice(t) \/ TimeOut(t) \/ Heartbeat(t)
      PROVE  TypeOK'
  <2>1. slices' \in [Turns -> 0..MaxSlices]
    BY <1>2 DEF Show, Receive, Slice, TimeOut, Heartbeat
  <2>2. turn' \in [Turns -> {"working", "parked", "waiting", "slice", "leaving", "over"}]
    BY <1>2, Waiting DEF WaitsOn, Leaves
  <2>3. outcome' \in [Questions -> Answers \cup {None, Default}]
    BY <1>2, Waiting DEF WaitsOn, Leaves
  <2> QED
    BY <1>2, <2>1, <2>2, <2>3, Waiting
<1>3. ASSUME NEW t \in Turns, Unpark(t) \/ EndTurn(t)
      PROVE  TypeOK'
  BY <1>3 DEF Unpark, EndTurn, requests
<1>4. ASSUME NEW h \in Answers, NEW s \in Sessions, Post(h, s)
      PROVE  TypeOK'
  BY <1>4 DEF Post
<1>5. ASSUME NEW h \in Answers, Lookup(h)
      PROVE  TypeOK'
  <2> DEFINE s == aim[h]
  <2>1. /\ found' = [found EXCEPT ![h] = waiting[s]] /\ waiting' = [waiting EXCEPT ![s] = None]
        /\ answer' = [answer EXCEPT ![h] = IF waiting[s] = None THEN "refused" ELSE "found"]
    BY <1>5 DEF Lookup
  <2>2. s \in Sessions
    BY <1>5 DEF Lookup, FoundInv
  <2> QED
    BY <1>5, <2>1, <2>2 DEF Lookup
<1>6. ASSUME NEW h \in Answers, Hand(h)
      PROVE  TypeOK'
  BY <1>6 DEF Hand
<1>7. CASE UNCHANGED vars \/ Rest \/ \E t \in Turns : Vanish(t)
  <2>1. open' \in [Turns -> BOOLEAN]
    BY <1>7 DEF vars, Rest, Vanish
  <2> QED
    BY <1>7, <2>1, Idling
<1> QED
  BY <1>1, <1>2, <1>3, <1>4, <1>5, <1>6, <1>7, Actors

-----------------------------------------------------------------------------
(* The registry. *)

\* Whether a question is listened to depends on its turn alone.
LEMMA NothingLeftStep ==
    ASSUME TypeOK, FoundInv, NothingLeftBehind, [Next]_vars
    PROVE  NothingLeftBehind'
<1> USE PromptsAssumption DEF NothingLeftBehind, Listening
<1>0. \A s \in Sessions : waiting[s] # None => waiting[s] \in Questions /\ waiting[s][1] \in Turns
  BY QuestionParts DEF TypeOK
<1>1. ASSUME NEW t \in Turns, Park(t)
      PROVE  NothingLeftBehind'
  <2>1. \A s \in Sessions : waiting[s] # None => waiting[s][1] # t
    BY <1>0, <1>1, Parking
  <2>2. \A u \in Turns : u # t => turn'[u] = turn[u] /\ asked'[u] = asked[u]
    BY <1>1, ParkingMoves
  <2>3. CASE Parks(t)
    <3>1. turn'[t] = "parked" /\ asked'[t] = asked[t] + 1 /\ sessionOf[t] \in Sessions
      BY <1>1, <2>3, Parking DEF TypeOK, Parks
    <3>2. /\ waiting'[sessionOf[t]] = <<t, asked[t] + 1>>
          /\ \A s \in Sessions : s # sessionOf[t] => waiting'[s] = waiting[s]
      BY <2>3, <3>1 DEF TypeOK, Parks
    <3> QED
      BY <1>0, <1>1, <2>1, <2>2, <3>1, <3>2, Parking
  <2>4. CASE GoesOn(t)
    BY <1>0, <1>1, <2>1, <2>2, <2>4, Parking DEF GoesOn
  <2> QED
    BY <1>1, <2>3, <2>4, Parking
<1>2. ASSUME NEW t \in Turns, Show(t) \/ Receive(t) \/ Slice(t) \/ TimeOut(t) \/ Heartbeat(t)
      PROVE  NothingLeftBehind'
  <2>1. /\ \A u \in Turns : u # t => turn'[u] = turn[u]
        /\ turn'[t] \in {"waiting", "slice", "leaving"}
    BY <1>2, Waiting DEF WaitsOn, Leaves, TypeOK
  <2> QED
    BY <1>0, <1>2, <2>1, Waiting
<1>3. ASSUME NEW t \in Turns, Unpark(t)
      PROVE  NothingLeftBehind'
  <2>1. /\ \A u \in Turns : u # t => turn'[u] = turn[u]
        /\ waiting' = [waiting EXCEPT ![sessionOf[t]] = None] /\ UNCHANGED <<asked, sessionOf>>
    BY <1>3 DEF Unpark, TypeOK, requests
  <2>2. \A s \in Sessions : waiting'[s] # None => waiting'[s] = waiting[s] /\ s # sessionOf[t]
    BY <2>1 DEF TypeOK
  <2> QED
    BY <1>0, <2>1, <2>2
<1>4. ASSUME NEW t \in Turns, EndTurn(t)
      PROVE  NothingLeftBehind'
  <2>1. /\ \A u \in Turns : u # t => turn'[u] = turn[u]
        /\ turn[t] = "working" /\ UNCHANGED <<waiting, asked, sessionOf>>
    BY <1>4 DEF EndTurn, TypeOK, requests
  <2> QED
    BY <1>0, <2>1
<1>5. ASSUME NEW h \in Answers, NEW s \in Sessions, Post(h, s)
      PROVE  NothingLeftBehind'
  BY <1>5 DEF Post
<1>6. ASSUME NEW h \in Answers, Lookup(h)
      PROVE  NothingLeftBehind'
  <2>1. waiting' = [waiting EXCEPT ![aim[h]] = None] /\ UNCHANGED <<turn, asked, sessionOf>>
    BY <1>6 DEF Lookup
  <2>2. \A s \in Sessions : waiting'[s] # None => waiting'[s] = waiting[s]
    BY <2>1 DEF TypeOK
  <2> QED
    BY <2>1, <2>2
<1>7. ASSUME NEW h \in Answers, Hand(h)
      PROVE  NothingLeftBehind'
  BY <1>7 DEF Hand
<1>8. CASE UNCHANGED vars \/ Rest \/ \E t \in Turns : Vanish(t)
  BY <1>8, Idling
<1> QED
  BY <1>1, <1>2, <1>3, <1>4, <1>5, <1>6, <1>7, <1>8, Actors

-----------------------------------------------------------------------------
(* The answers. *)

\* A turn's own step leaves the answers alone, and its questions only grow in number.
LEMMA TurnMoves ==
    ASSUME TypeOK, NEW t \in Turns,
           \/ Park(t) \/ Unpark(t) \/ EndTurn(t)
           \/ Show(t) \/ Receive(t) \/ Slice(t) \/ TimeOut(t) \/ Heartbeat(t)
    PROVE  /\ UNCHANGED <<sessionOf, answer, found, aim>>
           /\ \A u \in Turns : asked'[u] \in Nat /\ asked[u] \in Nat /\ asked[u] <= asked'[u]
           /\ \A u \in Turns : u # t => turn'[u] = turn[u] /\ asked'[u] = asked[u] /\ inbox'[u] = inbox[u]
<1>1. CASE Park(t)
  <2>1. UNCHANGED <<sessionOf, answer, found, aim, inbox>> /\ asked' = [asked EXCEPT ![t] = asked[t] + 1]
    BY <1>1, Parking
  <2>2. \A u \in Turns : asked'[u] \in Nat /\ asked[u] \in Nat /\ asked[u] <= asked'[u]
    BY <2>1, PromptsAssumption DEF TypeOK
  <2> QED
    BY <1>1, <2>1, <2>2, ParkingMoves
<1>2. CASE Unpark(t) \/ EndTurn(t)
  BY <1>2, PromptsAssumption DEF Unpark, EndTurn, requests, TypeOK
<1>3. CASE Show(t) \/ Receive(t) \/ Slice(t) \/ TimeOut(t) \/ Heartbeat(t)
  <2>1. \A u \in Turns : u # t => turn'[u] = turn[u]
    BY <1>3, Waiting DEF WaitsOn, Leaves, TypeOK
  <2> QED
    BY <1>3, <2>1, Waiting, PromptsAssumption DEF TypeOK
<1> QED
  BY <1>1, <1>2, <1>3

LEMMA Steps ==
    ASSUME [Next]_vars
    PROVE  \/ \E t \in Turns : \/ Park(t) \/ Unpark(t) \/ EndTurn(t)
                               \/ Show(t) \/ Receive(t) \/ Slice(t) \/ TimeOut(t) \/ Heartbeat(t)
           \/ \E h \in Answers, s \in Sessions : Post(h, s)
           \/ \E h \in Answers : Lookup(h)
           \/ \E h \in Answers : Hand(h)
           \/ UNCHANGED vars \/ Rest \/ \E t \in Turns : Vanish(t)
  BY Actors

\* Lookup, spelled out.
LEMMA LookingUp ==
    ASSUME TypeOK, FoundInv, NothingLeftBehind, NEW h \in Answers, Lookup(h)
    PROVE  /\ answer[h] = "sent" /\ aim[h] \in Sessions /\ found[h] = None
           /\ waiting'[aim[h]] = None
           /\ \A s \in Sessions : s # aim[h] => waiting'[s] = waiting[s]
           /\ found'[h] = waiting[aim[h]]
           /\ answer'[h] = IF waiting[aim[h]] = None THEN "refused" ELSE "found"
           /\ \A g \in Answers : g # h => found'[g] = found[g] /\ answer'[g] = answer[g]
           /\ waiting[aim[h]] # None =>
                /\ waiting[aim[h]] \in Questions /\ Listening(waiting[aim[h]])
                /\ sessionOf[waiting[aim[h]][1]] = aim[h]
           /\ UNCHANGED <<sessionOf, turn, asked, slices, inbox, open, outcome, aim>>
<1>1. answer[h] = "sent" /\ aim[h] \in Sessions /\ found[h] = None
  BY DEF Lookup, FoundInv
<1>2. /\ found' = [found EXCEPT ![h] = waiting[aim[h]]] /\ waiting' = [waiting EXCEPT ![aim[h]] = None]
      /\ answer' = [answer EXCEPT ![h] = IF waiting[aim[h]] = None THEN "refused" ELSE "found"]
  BY DEF Lookup
<1>3. waiting[aim[h]] # None =>
         /\ waiting[aim[h]] \in Questions /\ Listening(waiting[aim[h]])
         /\ sessionOf[waiting[aim[h]][1]] = aim[h]
  BY <1>1 DEF NothingLeftBehind, TypeOK
<1>4. UNCHANGED <<sessionOf, turn, asked, slices, inbox, open, outcome, aim>>
  BY DEF Lookup
<1> QED
  BY <1>1, <1>2, <1>3, <1>4 DEF TypeOK

LEMMA FoundStep ==
    ASSUME TypeOK, FoundInv, NothingLeftBehind, [Next]_vars
    PROVE  FoundInv'
<1>0. \A h \in Answers : found[h] # None => found[h] \in Questions /\ found[h][1] \in Turns /\ found[h][2] \in 1..MaxAsks
  BY QuestionParts DEF TypeOK
<1>1. ASSUME NEW t \in Turns,
             \/ Park(t) \/ Unpark(t) \/ EndTurn(t)
             \/ Show(t) \/ Receive(t) \/ Slice(t) \/ TimeOut(t) \/ Heartbeat(t)
      PROVE  FoundInv'
  <2>1. UNCHANGED <<sessionOf, answer, found, aim>>
    BY <1>1, TurnMoves
  <2>2. \A u \in Turns : asked'[u] \in Nat /\ asked[u] \in Nat /\ asked[u] <= asked'[u]
    BY <1>1, TurnMoves
  <2> QED
    BY <1>0, <2>1, <2>2 DEF FoundInv
<1>2. ASSUME NEW h \in Answers, NEW s \in Sessions, Post(h, s)
      PROVE  FoundInv'
  <2>1. /\ answer[h] = "unsent" /\ answer'[h] = "sent" /\ aim'[h] = s
        /\ \A g \in Answers : g # h => answer'[g] = answer[g] /\ aim'[g] = aim[g]
        /\ UNCHANGED <<found, sessionOf, asked>>
    BY <1>2 DEF Post, TypeOK
  <2> QED
    BY <2>1 DEF FoundInv
<1>3. ASSUME NEW h \in Answers, Lookup(h)
      PROVE  FoundInv'
  <2>1. waiting[aim[h]] # None => waiting[aim[h]][2] <= asked[waiting[aim[h]][1]]
    BY <1>3, LookingUp, QuestionParts, PromptsAssumption DEF Listening, TypeOK
  <2> QED
    BY <1>3, <2>1, LookingUp DEF FoundInv
<1>4. ASSUME NEW h \in Answers, Hand(h)
      PROVE  FoundInv'
  <2>1. /\ answer[h] = "found" /\ answer'[h] \in {"accepted", "refused"}
        /\ \A g \in Answers : g # h => answer'[g] = answer[g]
        /\ UNCHANGED <<found, sessionOf, asked, aim>>
    BY <1>4 DEF Hand, TypeOK
  <2> QED
    BY <2>1 DEF FoundInv
<1>5. CASE UNCHANGED vars \/ Rest \/ \E t \in Turns : Vanish(t)
  BY <1>5, Idling DEF FoundInv
<1> QED
  BY <1>1, <1>2, <1>3, <1>4, <1>5, Steps

LEMMA TakenStep ==
    ASSUME TypeOK, FoundInv, NothingLeftBehind, TakenInv, [Next]_vars
    PROVE  TakenInv'
<1>1. ASSUME NEW t \in Turns, Park(t)
      PROVE  TakenInv'
  <2>1. found' = found
    BY <1>1, Parking
  <2>2. \A s \in Sessions : waiting'[s] # None => waiting'[s] \in {waiting[s], <<t, asked[t] + 1>>}
    <3>1. Parks(t) \/ GoesOn(t)
      BY <1>1, Parking
    <3> QED
      BY <3>1 DEF Parks, GoesOn, TypeOK
  <2>3. \A h \in Answers : found[h] # <<t, asked[t] + 1>>
    <3>1. asked[t] \in Nat /\ <<t, asked[t] + 1>> \in Questions
      BY <1>1, Parking, PromptsAssumption DEF TypeOK, Questions
    <3>2. <<t, asked[t] + 1>>[1] = t /\ <<t, asked[t] + 1>>[2] = asked[t] + 1 /\ <<t, asked[t] + 1>> # None
      BY <3>1, NoQuestion
    <3>3. \A h \in Answers : found[h] # None => found[h][2] <= asked[found[h][1]]
      BY DEF FoundInv
    <3>4. ASSUME NEW h \in Answers, found[h] = <<t, asked[t] + 1>>
          PROVE  FALSE
      BY <3>1, <3>2, <3>3, <3>4
    <3> QED
      BY <3>4
  <2> QED
    BY <2>1, <2>2, <2>3 DEF TakenInv
<1>2. ASSUME NEW t \in Turns,
             \/ Unpark(t) \/ EndTurn(t)
             \/ Show(t) \/ Receive(t) \/ Slice(t) \/ TimeOut(t) \/ Heartbeat(t)
      PROVE  TakenInv'
  <2>1. found' = found
    BY <1>2, TurnMoves
  <2>2. \A s \in Sessions : waiting'[s] # None => waiting'[s] = waiting[s]
    <3>1. CASE Unpark(t)
      BY <3>1 DEF Unpark, TypeOK
    <3>2. CASE EndTurn(t)
      BY <3>2 DEF EndTurn
    <3> QED
      BY <1>2, <3>1, <3>2, Waiting
  <2> QED
    BY <2>1, <2>2 DEF TakenInv
<1>3. ASSUME NEW h \in Answers, Lookup(h)
      PROVE  TakenInv'
  <2>1. \A s \in Sessions : waiting'[s] # None =>
            s # aim[h] /\ waiting'[s] = waiting[s] /\ sessionOf[waiting[s][1]] = s
    BY <1>3, LookingUp DEF NothingLeftBehind
  <2>2. \A g \in Answers : g # h /\ found'[g] # None => found'[g] # found'[h]
    BY <1>3, LookingUp DEF TakenInv
  <2>3. \A s \in Sessions : waiting'[s] # None => waiting'[s] # found'[h]
    BY <1>3, <2>1, LookingUp
  <2> QED
    BY <1>3, <2>1, <2>2, <2>3, LookingUp DEF TakenInv
<1>4. CASE \/ \E h \in Answers, s \in Sessions : Post(h, s)
           \/ \E h \in Answers : Hand(h)
  BY <1>4 DEF Post, Hand, TakenInv
<1>5. CASE UNCHANGED vars \/ Rest \/ \E t \in Turns : Vanish(t)
  BY <1>5, Idling DEF TakenInv
<1> QED
  BY <1>1, <1>2, <1>3, <1>4, <1>5, Steps

LEMMA InboxStep ==
    ASSUME TypeOK, FoundInv, NothingLeftBehind, InboxInv, [Next]_vars
    PROVE  InboxInv'
<1>0. \A u \in Turns : inbox[u] # None => inbox[u] \in Answers
  BY DEF TypeOK
<1>1. ASSUME NEW t \in Turns,
             \/ Park(t) \/ Unpark(t) \/ EndTurn(t)
             \/ Show(t) \/ Receive(t) \/ Slice(t) \/ TimeOut(t) \/ Heartbeat(t)
      PROVE  InboxInv'
  <2>1. /\ UNCHANGED <<answer, found>>
        /\ \A u \in Turns : u # t => turn'[u] = turn[u] /\ asked'[u] = asked[u] /\ inbox'[u] = inbox[u]
    BY <1>1, TurnMoves
  <2>2. CASE Park(t) \/ EndTurn(t)
    <3>1. turn[t] = "working" /\ inbox'[t] = inbox[t]
      BY <2>2 DEF Park, EndTurn
    <3>2. inbox[t] = None
      <4>1. Question(t)[1] = t
        BY DEF Question
      <4> QED
        BY <3>1, <4>1 DEF InboxInv, Listening
    <3> QED
      BY <2>1, <3>1, <3>2 DEF InboxInv, Listening, Question
  <2>3. CASE Unpark(t)
    <3>1. inbox'[t] = None
      BY <2>3 DEF Unpark, TypeOK
    <3> QED
      BY <2>1, <3>1 DEF InboxInv, Listening, Question
  <2>4. CASE Show(t) \/ Receive(t) \/ Slice(t) \/ TimeOut(t) \/ Heartbeat(t)
    <3>1. inbox'[t] = inbox[t] /\ asked'[t] = asked[t]
      BY <2>4, Waiting
    <3>2. turn'[t] \in {"waiting", "slice", "leaving"}
      <4>1. WaitsOn(t) \/ \E result \in {Default, inbox[t]} : Leaves(t, result)
        BY <2>4, Waiting
      <4> QED
        BY <4>1 DEF WaitsOn, Leaves, TypeOK
    <3> QED
      BY <2>1, <3>1, <3>2 DEF InboxInv, Listening, Question
  <2> QED
    BY <1>1, <2>2, <2>3, <2>4
<1>2. ASSUME NEW h \in Answers, NEW s \in Sessions, Post(h, s)
      PROVE  InboxInv'
  <2>1. /\ answer[h] = "unsent" /\ \A g \in Answers : g # h => answer'[g] = answer[g]
        /\ UNCHANGED <<inbox, found, turn, asked>>
    BY <1>2 DEF Post, TypeOK
  <2> QED
    BY <1>0, <2>1 DEF InboxInv, Listening, Question
<1>3. ASSUME NEW h \in Answers, Lookup(h)
      PROVE  InboxInv'
  <2>1. /\ answer[h] = "sent" /\ \A g \in Answers : g # h => answer'[g] = answer[g] /\ found'[g] = found[g]
        /\ UNCHANGED <<inbox, turn, asked>>
    BY <1>3, LookingUp
  <2> QED
    BY <1>0, <2>1 DEF InboxInv, Listening, Question
<1>4. ASSUME NEW h \in Answers, Hand(h)
      PROVE  InboxInv'
  <2>1. /\ answer[h] = "found" /\ \A g \in Answers : g # h => answer'[g] = answer[g]
        /\ UNCHANGED <<found, turn, asked>>
    BY <1>4 DEF Hand, TypeOK
  <2>2. CASE Listening(found[h]) /\ inbox' = [inbox EXCEPT ![found[h][1]] = h] /\ answer'[h] = "accepted"
    <3>1. /\ found[h] \in Questions /\ found[h][1] \in Turns /\ found[h] = <<found[h][1], found[h][2]>>
          /\ asked[found[h][1]] = found[h][2]
      BY <2>1, <2>2, QuestionParts DEF FoundInv, TypeOK, Listening
    <3>2. /\ inbox'[found[h][1]] = h /\ Question(found[h][1]) = found[h]
          /\ \A u \in Turns : u # found[h][1] => inbox'[u] = inbox[u]
      BY <2>2, <3>1 DEF TypeOK, Question
    <3> QED
      BY <1>0, <2>1, <2>2, <3>1, <3>2 DEF InboxInv, Listening, Question
  <2>3. CASE inbox' = inbox
    BY <1>0, <2>1, <2>3 DEF InboxInv, Listening, Question
  <2> QED
    BY <1>4, <2>2, <2>3 DEF Hand, TypeOK
<1>5. CASE UNCHANGED vars \/ Rest \/ \E t \in Turns : Vanish(t)
  BY <1>5, Idling DEF InboxInv, Listening, Question
<1> QED
  BY <1>1, <1>2, <1>3, <1>4, <1>5, Steps

LEMMA SettledStep ==
    ASSUME TypeOK, AskedInv, SettledInv, [Next]_vars
    PROVE  SettledInv'
<1> USE PromptsAssumption
<1>0. \A q \in Questions : q[1] \in Turns /\ q[2] \in 1..MaxAsks /\ q = <<q[1], q[2]>>
  BY QuestionParts
<1>1. ASSUME NEW t \in Turns, Park(t)
      PROVE  SettledInv'
  <2>1. /\ turn[t] = "working" /\ asked[t] < MaxAsks /\ asked[t] \in Nat /\ asked'[t] = asked[t] + 1
        /\ \A u \in Turns : u # t => turn'[u] = turn[u] /\ asked'[u] = asked[u]
    <3>1. asked[t] \in Nat /\ asked' = [asked EXCEPT ![t] = asked[t] + 1]
      BY <1>1, Parking DEF TypeOK
    <3>2. asked'[t] = asked[t] + 1
      BY <3>1 DEF TypeOK
    <3> QED
      BY <1>1, <3>1, <3>2, Parking, ParkingMoves
  <2>2. <<t, asked[t] + 1>> \in Questions
    BY <2>1 DEF Questions
  <2>3. CASE Parks(t)
    <3>1. outcome' = outcome /\ turn'[t] = "parked"
      BY <2>3 DEF Parks, TypeOK
    <3>2. outcome[<<t, asked[t] + 1>>] = None
      BY <2>1, <2>2 DEF SettledInv
    <3> QED
      BY <1>0, <2>1, <3>1, <3>2 DEF SettledInv, Question
  <2>4. CASE GoesOn(t)
    <3>1. /\ turn'[t] = "working"
          /\ \A q \in Questions : q # <<t, asked[t] + 1>> => outcome'[q] = outcome[q]
      BY <2>1, <2>4 DEF GoesOn, TypeOK
    <3>2. ASSUME NEW q \in Questions, q[2] > asked'[q[1]]
          PROVE  outcome'[q] = None
      <4>1. q # <<t, asked[t] + 1>> /\ q[2] > asked[q[1]]
        BY <1>0, <2>1, <3>2 DEF TypeOK
      <4> QED
        BY <3>1, <4>1 DEF SettledInv
    <3>3. ASSUME NEW u \in Turns, turn'[u] \in {"parked", "waiting", "slice", "leaving"}
          PROVE  Question(u)' = Question(u) /\ outcome'[Question(u)] = outcome[Question(u)] /\ turn'[u] = turn[u]
      <4>1. u # t /\ turn'[u] = turn[u] /\ asked'[u] = asked[u]
        BY <2>1, <3>1, <3>3
      <4>2. Question(u) \in Questions /\ Question(u)[1] = u
        BY <3>3, <4>1, OwnQuestion DEF AskedInv
      <4> QED
        BY <3>1, <4>1, <4>2 DEF Question
    <3> QED
      BY <3>2, <3>3 DEF SettledInv
  <2> QED
    BY <1>1, <2>3, <2>4, Parking
<1>2. ASSUME NEW t \in Turns, Show(t) \/ Receive(t) \/ Slice(t) \/ TimeOut(t) \/ Heartbeat(t)
      PROVE  SettledInv'
  <2>1. asked' = asked /\ \A u \in Turns : u # t => turn'[u] = turn[u]
    BY <1>2, Waiting, TurnMoves
  <2>2. CASE WaitsOn(t)
    <3>1. outcome' = outcome /\ turn'[t] \in {"waiting", "slice"} /\ turn[t] \in Waits
      BY <2>2 DEF WaitsOn, TypeOK
    <3> QED
      BY <2>1, <3>1 DEF SettledInv, Question, Waits
  <2>3. ASSUME NEW result \in {Default, inbox[t]}, Leaves(t, result)
        PROVE  SettledInv'
    <3>1. turn'[t] = "leaving" /\ turn[t] \in Waits /\ result # None
      BY <2>3 DEF Leaves, TypeOK
    <3>2. Question(t) \in Questions /\ asked[t] \in Nat /\ Question(t) = <<t, asked[t]>>
      BY <3>1, OwnQuestion DEF AskedInv, Waits, Question
    <3>3. outcome'[Question(t)] = result /\ \A q \in Questions : q # Question(t) => outcome'[q] = outcome[q]
      BY <2>3, <3>2 DEF Leaves, TypeOK
    <3>4. ASSUME NEW q \in Questions, q[2] > asked'[q[1]]
          PROVE  outcome'[q] = None
      <4>1. q # Question(t) /\ q[2] > asked[q[1]]
        BY <2>1, <3>2, <3>4
      <4> QED
        BY <3>3, <4>1 DEF SettledInv
    <3>5. ASSUME NEW u \in Turns, u # t, turn[u] \in {"parked", "waiting", "slice", "leaving"}
          PROVE  outcome'[Question(u)] = outcome[Question(u)]
      <4>1. Question(u) \in Questions /\ Question(u)[1] = u
        BY <3>5, OwnQuestion DEF AskedInv
      <4>2. Question(u) # Question(t)
        BY <3>2, <3>5, <4>1
      <4> QED
        BY <3>3, <4>1, <4>2
    <3> QED
      BY <2>1, <3>1, <3>3, <3>4, <3>5 DEF SettledInv, Question
  <2> QED
    BY <1>2, <2>2, <2>3, Waiting
<1>3. ASSUME NEW t \in Turns, Unpark(t) \/ EndTurn(t)
      PROVE  SettledInv'
  <2>1. /\ turn'[t] \in {"working", "over"} /\ \A u \in Turns : u # t => turn'[u] = turn[u]
        /\ UNCHANGED <<asked, outcome>>
    BY <1>3 DEF Unpark, EndTurn, TypeOK
  <2> QED
    BY <2>1 DEF SettledInv, Question
<1>4. CASE \/ \E h \in Answers, s \in Sessions : Post(h, s)
           \/ \E h \in Answers : Lookup(h) \/ Hand(h)
  BY <1>4 DEF Post, Lookup, Hand, SettledInv, Question
<1>5. CASE UNCHANGED vars \/ Rest \/ \E t \in Turns : Vanish(t)
  BY <1>5, Idling DEF SettledInv, Question
<1> QED
  BY <1>1, <1>2, <1>3, <1>4, <1>5, Actors

LEMMA RegisteredStep ==
    ASSUME TypeOK, AskedInv, FoundInv, NothingLeftBehind, RegisteredInv, [Next]_vars
    PROVE  RegisteredInv'
<1> USE PromptsAssumption
<1>0. /\ sessionOf' = sessionOf /\ \A u \in Turns : sessionOf[u] \in Sessions
      /\ \A u \in Turns : Alone(u)' <=> Alone(u)
  <2>1. sessionOf' = sessionOf
    <3>1. CASE \/ \E h \in Answers, s \in Sessions : Post(h, s)
               \/ \E h \in Answers : Lookup(h) \/ Hand(h)
      BY <3>1 DEF Post, Lookup, Hand
    <3> QED
      BY <3>1, Steps, TurnMoves, Idling
  <2> QED
    BY <2>1 DEF TypeOK, Alone
<1>1. ASSUME NEW t \in Turns,
             \/ Park(t) \/ Unpark(t) \/ EndTurn(t)
             \/ Show(t) \/ Receive(t) \/ Slice(t) \/ TimeOut(t) \/ Heartbeat(t)
      PROVE  RegisteredInv'
  <2>1. found' = found /\ \A u \in Turns : u # t => turn'[u] = turn[u] /\ asked'[u] = asked[u]
    BY <1>1, TurnMoves
  <2>2. ASSUME NEW u \in Turns, u # t, Alone(u)
        PROVE  waiting'[sessionOf[u]] = waiting[sessionOf[u]]
    <3>1. sessionOf[u] # sessionOf[t]
      BY <2>2 DEF Alone
    <3>2. CASE Park(t)
      BY <1>0, <3>1, <3>2 DEF Park, TypeOK
    <3>3. CASE Unpark(t) \/ EndTurn(t)
      BY <1>0, <3>1, <3>3 DEF Unpark, EndTurn, TypeOK
    <3> QED
      BY <1>1, <3>2, <3>3, Waiting
  <2>3. ASSUME Alone(t), turn'[t] \in {"parked", "waiting", "slice"}
        PROVE  waiting'[sessionOf[t]] = Question(t)' \/ \E h \in Answers : found'[h] = Question(t)'
    <3>1. CASE Park(t)
      <4>1. Parks(t)
        BY <2>3, <3>1, Parking DEF GoesOn
      <4>2. asked'[t] = asked[t] + 1 /\ waiting'[sessionOf[t]] = <<t, asked[t] + 1>>
        <5>1. asked' = [asked EXCEPT ![t] = asked[t] + 1]
          BY <3>1, Parking
        <5> QED
          BY <1>0, <4>1, <5>1 DEF Parks, TypeOK
      <4> QED
        BY <4>2 DEF Question
    <3>2. CASE Unpark(t) \/ EndTurn(t)
      BY <2>3, <3>2 DEF Unpark, EndTurn, TypeOK
    <3>3. CASE Show(t) \/ Receive(t) \/ Slice(t) \/ TimeOut(t) \/ Heartbeat(t)
      <4>1. UNCHANGED <<waiting, asked>> /\ turn[t] \in Waits
        BY <3>3, Waiting DEF WaitsOn, Leaves
      <4> QED
        BY <2>1, <2>3, <4>1 DEF RegisteredInv, Question, Waits
    <3> QED
      BY <1>1, <3>1, <3>2, <3>3
  <2>4. ASSUME NEW u \in Turns, Alone(u)', turn'[u] \in {"parked", "waiting", "slice"}
        PROVE  waiting'[sessionOf[u]] = Question(u)' \/ \E h \in Answers : found'[h] = Question(u)'
    <3>1. Alone(u)
      BY <1>0, <2>4
    <3>2. CASE u = t
      BY <2>3, <2>4, <3>1, <3>2
    <3>3. CASE u # t
      <4>1. /\ turn'[u] = turn[u] /\ Question(u)' = Question(u) /\ found' = found
            /\ waiting'[sessionOf[u]] = waiting[sessionOf[u]]
        BY <2>1, <2>2, <3>1, <3>3 DEF Question
      <4> QED
        BY <2>4, <3>1, <4>1 DEF RegisteredInv
    <3> QED
      BY <3>2, <3>3
  <2> QED
    BY <1>0, <2>4 DEF RegisteredInv
<1>2. ASSUME NEW h \in Answers, Lookup(h)
      PROVE  RegisteredInv'
  <2>1. /\ \A s \in Sessions : waiting'[s] = waiting[s] \/ found'[h] = waiting[s]
        /\ found[h] = None /\ \A g \in Answers : g # h => found'[g] = found[g]
        /\ UNCHANGED <<turn, asked>>
    BY <1>2, LookingUp
  <2>2. ASSUME NEW u \in Turns, turn[u] \in {"parked", "waiting", "slice"}
        PROVE  Question(u) # None
    BY <2>2, OwnQuestion, NoQuestion DEF AskedInv
  <2>3. ASSUME NEW u \in Turns, Alone(u)', turn'[u] \in {"parked", "waiting", "slice"}
        PROVE  waiting'[sessionOf[u]] = Question(u)' \/ \E g \in Answers : found'[g] = Question(u)'
    <3>1. /\ Alone(u) /\ sessionOf[u] \in Sessions /\ Question(u)' = Question(u)
          /\ turn[u] \in {"parked", "waiting", "slice"}
      BY <1>0, <2>1, <2>3 DEF Question
    <3>2. CASE waiting[sessionOf[u]] = Question(u)
      BY <2>1, <3>1, <3>2
    <3>3. ASSUME NEW g \in Answers, found[g] = Question(u)
          PROVE  found'[g] = Question(u)'
      BY <2>1, <2>2, <3>1, <3>3
    <3> QED
      BY <3>1, <3>2, <3>3 DEF RegisteredInv
  <2> QED
    BY <1>0, <2>3 DEF RegisteredInv
<1>3. CASE \/ \E h \in Answers, s \in Sessions : Post(h, s)
           \/ \E h \in Answers : Hand(h)
  BY <1>0, <1>3 DEF Post, Hand, RegisteredInv, Question
<1>4. CASE UNCHANGED vars \/ Rest \/ \E t \in Turns : Vanish(t)
  BY <1>0, <1>4, Idling DEF RegisteredInv, Question
<1> QED
  BY <1>1, <1>2, <1>3, <1>4, Steps

\* An accepted answer is on its way to its question, or its question is settled.
LEMMA AcceptedStep ==
    ASSUME TypeOK, AskedInv, FoundInv, TakenInv, InboxInv, SettledInv, NothingLeftBehind,
           AcceptedIsTaken, [Next]_vars
    PROVE  AcceptedIsTaken'
<1> USE PromptsAssumption
<1>0. \A h \in Answers : h # None /\ h # Default /\ None # Default
  OBVIOUS
<1>1. ASSUME NEW t \in Turns, Park(t)
      PROVE  AcceptedIsTaken'
  <2>1. UNCHANGED <<sessionOf, answer, found, aim, inbox>>
    BY <1>1, Parking
  <2>2. \A q \in Questions : outcome'[q] = outcome[q] \/ outcome'[q] = Default
    <3>1. outcome' = outcome \/ outcome' = [outcome EXCEPT ![<<t, asked[t] + 1>>] = Default]
      BY <1>1, Parking DEF Parks, GoesOn
    <3> QED
      BY <3>1 DEF TypeOK
  <2> QED
    BY <1>0, <2>1, <2>2 DEF AcceptedIsTaken, FoundInv, TypeOK
<1>2. ASSUME NEW t \in Turns, Show(t) \/ Receive(t) \/ Slice(t) \/ TimeOut(t) \/ Heartbeat(t)
      PROVE  AcceptedIsTaken'
  <2>1. UNCHANGED <<sessionOf, answer, found, aim, inbox>>
    BY <1>2, Waiting
  <2>2. CASE WaitsOn(t)
    BY <2>1, <2>2 DEF WaitsOn, AcceptedIsTaken
  <2>3. ASSUME NEW result \in {Default, inbox[t]}, Leaves(t, result)
        PROVE  AcceptedIsTaken'
    <3>1. turn[t] \in Waits /\ (result = Default \/ (inbox[t] # None /\ result = inbox[t]))
      BY <2>3 DEF Leaves
    <3>2. Question(t) \in Questions /\ Question(t)[1] = t /\ outcome[Question(t)] = None
      BY <3>1, OwnQuestion DEF AskedInv, SettledInv, Waits
    <3>3. outcome'[Question(t)] = result /\ \A q \in Questions : q # Question(t) => outcome'[q] = outcome[q]
      BY <2>3, <3>2 DEF Leaves, TypeOK
    <3>4. ASSUME NEW h \in Answers, answer[h] = "accepted"
          PROVE  \/ outcome'[found[h]] = Default
                 \/ outcome'[found[h]] = None /\ inbox[found[h][1]] = h
                 \/ outcome'[found[h]] = h
      <4>1. found[h] \in Questions
        BY <3>4 DEF FoundInv, TypeOK
      <4>2. CASE found[h] = Question(t)
        <5>1. inbox[t] = h
          BY <1>0, <3>2, <3>4, <4>2 DEF AcceptedIsTaken
        <5> QED
          BY <3>1, <3>3, <4>2, <5>1
      <4>3. CASE found[h] # Question(t)
        BY <3>3, <3>4, <4>1, <4>3 DEF AcceptedIsTaken
      <4> QED
        BY <4>2, <4>3
    <3>5. ASSUME NEW h \in Answers, NEW q \in Questions, outcome'[q] = h
          PROVE  answer[h] = "accepted" /\ found[h] = q /\ sessionOf[q[1]] = aim[h]
      <4>1. CASE q = Question(t)
        <5>1. inbox[t] = h
          BY <1>0, <3>1, <3>3, <3>5, <4>1
        <5>2. answer[h] = "accepted" /\ found[h] = Question(t)
          BY <1>0, <5>1 DEF InboxInv
        <5> QED
          BY <4>1, <5>2 DEF FoundInv
      <4>2. CASE q # Question(t)
        BY <3>3, <3>5, <4>2 DEF AcceptedIsTaken
      <4> QED
        BY <4>1, <4>2
    <3> QED
      BY <2>1, <3>4, <3>5 DEF AcceptedIsTaken
  <2> QED
    BY <1>2, <2>2, <2>3, Waiting
<1>3. ASSUME NEW t \in Turns, Unpark(t) \/ EndTurn(t)
      PROVE  AcceptedIsTaken'
  <2>1. UNCHANGED <<sessionOf, answer, found, aim, outcome>>
    BY <1>3 DEF Unpark, EndTurn, requests
  <2>2. ASSUME NEW h \in Answers, answer[h] = "accepted", outcome[found[h]] = None, inbox[found[h][1]] = h
        PROVE  inbox'[found[h][1]] = h
    <3>1. found[h] \in Questions /\ found[h][1] \in Turns
      BY <2>2, QuestionParts DEF FoundInv, TypeOK
    <3>2. found[h] = Question(found[h][1])
      BY <1>0, <2>2, <3>1 DEF InboxInv
    <3>3. CASE Unpark(t)
      <4>1. turn[t] = "leaving" /\ \A u \in Turns : u # t => inbox'[u] = inbox[u]
        BY <3>3 DEF Unpark, TypeOK
      <4>2. found[h][1] # t
        BY <2>2, <3>2, <4>1 DEF SettledInv
      <4> QED
        BY <2>2, <3>1, <4>1, <4>2
    <3>4. CASE EndTurn(t)
      BY <2>2, <3>4 DEF EndTurn
    <3> QED
      BY <1>3, <3>3, <3>4
  <2> QED
    BY <2>1, <2>2 DEF AcceptedIsTaken
<1>4. ASSUME NEW h \in Answers, NEW s \in Sessions, Post(h, s)
      PROVE  AcceptedIsTaken'
  <2>1. /\ answer[h] = "unsent" /\ answer'[h] = "sent"
        /\ \A g \in Answers : g # h => answer'[g] = answer[g] /\ aim'[g] = aim[g]
        /\ UNCHANGED <<found, sessionOf, inbox, outcome>>
    BY <1>4 DEF Post, TypeOK
  <2> QED
    BY <2>1 DEF AcceptedIsTaken
<1>5. ASSUME NEW h \in Answers, Lookup(h)
      PROVE  AcceptedIsTaken'
  <2>1. /\ answer[h] = "sent" /\ answer'[h] \in {"refused", "found"}
        /\ \A g \in Answers : g # h => answer'[g] = answer[g] /\ found'[g] = found[g]
        /\ UNCHANGED <<sessionOf, inbox, outcome, aim>>
    BY <1>5, LookingUp
  <2> QED
    BY <2>1 DEF AcceptedIsTaken
<1>6. ASSUME NEW h \in Answers, Hand(h)
      PROVE  AcceptedIsTaken'
  <2>1. /\ answer[h] = "found" /\ \A g \in Answers : g # h => answer'[g] = answer[g]
        /\ UNCHANGED <<found, sessionOf, turn, asked, outcome, aim>>
    BY <1>6 DEF Hand, TypeOK
  <2>2. \A q \in Questions : outcome[q] # h
    BY <2>1 DEF AcceptedIsTaken
  <2>3. CASE ~Listening(found[h]) /\ inbox' = inbox /\ answer'[h] = "refused"
    BY <2>1, <2>2, <2>3 DEF AcceptedIsTaken
  <2>4. CASE Listening(found[h]) /\ inbox' = [inbox EXCEPT ![found[h][1]] = h] /\ answer'[h] = "accepted"
    <3> DEFINE t == found[h][1]
    <3>1. found[h] \in Questions /\ t \in Turns /\ found[h] = <<t, found[h][2]>> /\ asked[t] = found[h][2]
      BY <2>1, <2>4, QuestionParts DEF FoundInv, TypeOK, Listening
    <3>2. found[h] = Question(t) /\ inbox'[t] = h /\ \A u \in Turns : u # t => inbox'[u] = inbox[u]
      BY <2>4, <3>1 DEF TypeOK, Question
    <3>3. outcome[found[h]] = Default \/ outcome[found[h]] = None
      <4>1. outcome[found[h]] \in Answers \cup {None, Default}
        BY <3>1 DEF TypeOK
      <4>2. ASSUME NEW g \in Answers, outcome[found[h]] = g
            PROVE  FALSE
        <5>1. answer[g] = "accepted" /\ found[g] = found[h]
          BY <3>1, <4>2 DEF AcceptedIsTaken
        <5>2. g = h
          BY <2>1, <5>1 DEF TakenInv, FoundInv
        <5> QED
          BY <2>1, <5>1, <5>2
      <4> QED
        BY <4>1, <4>2
    <3>4. ASSUME NEW g \in Answers, g # h, answer[g] = "accepted"
          PROVE  found[g][1] \in Turns /\ (inbox[found[g][1]] = g => inbox'[found[g][1]] = g)
      <4>1. found[g] \in Questions /\ found[g][1] \in Turns
        BY <3>4, QuestionParts DEF FoundInv, TypeOK
      <4>2. ASSUME found[g][1] = t, inbox[t] = g
            PROVE  FALSE
        <5>1. found[g] = found[h] /\ found[h] # None
          BY <1>0, <2>1, <3>1, <3>2, <4>2 DEF InboxInv, FoundInv
        <5> QED
          BY <3>4, <5>1 DEF TakenInv
      <4> QED
        BY <3>2, <4>1, <4>2
    <3> QED
      BY <2>1, <2>2, <2>4, <3>2, <3>3, <3>4 DEF AcceptedIsTaken
  <2> QED
    BY <1>6, <2>3, <2>4 DEF Hand, TypeOK
<1>7. CASE UNCHANGED vars \/ Rest \/ \E t \in Turns : Vanish(t)
  BY <1>7, Idling DEF AcceptedIsTaken
<1> QED
  BY <1>1, <1>2, <1>3, <1>4, <1>5, <1>6, <1>7, Actors

-----------------------------------------------------------------------------
(* The theorems. *)

LEMMA Inductive == Spec => []IInv
<1>1. Init => IInv
  <2> SUFFICES ASSUME Init
               PROVE  IInv
    OBVIOUS
  <2> USE PromptsAssumption DEF Init
  <2>1. TypeOK
    BY DEF TypeOK
  <2>2. AcceptedIsTaken
    BY DEF AcceptedIsTaken
  <2>3. SettledInv
    BY DEF SettledInv
  <2> QED
    BY <2>1, <2>2, <2>3 DEF IInv, AskedInv, NothingLeftBehind, FoundInv, TakenInv, InboxInv, RegisteredInv
<1>2. IInv /\ [Next]_vars => IInv'
  BY TypeStep, AskedStep, NothingLeftStep, FoundStep, TakenStep, InboxStep, SettledStep, RegisteredStep,
     AcceptedStep
     DEF IInv
<1> QED
  BY <1>1, <1>2, PTL DEF Spec

\* The registry holds questions that were put, and a channel answers that were sent.
THEOREM TypeCorrect == Spec => []TypeOK
  BY Inductive, PTL DEF IInv

\* Of many answers one wins, and an accepted answer is what its turn goes on
\* with, unless its time was up (pending.rs:60).
THEOREM AnswersAreTaken == Spec => []AcceptedIsTaken
  BY Inductive, PTL DEF IInv

\* A wait that is over has left nothing in the registry (pending.rs:77).
THEOREM WaitsAreClean == Spec => []NothingLeftBehind
  BY Inductive, PTL DEF IInv

\* A turn alone in its session can be answered while it waits, whatever its
\* earlier waits and other sessions left behind (pending.rs:39).
THEOREM TheOnlyOneIsReachable == Spec => []AloneReachable
<1>1. IInv => AloneReachable
  BY DEF IInv, RegisteredInv, AloneReachable, Reachable
<1> QED
  BY <1>1, Inductive, PTL

==============================================================================
