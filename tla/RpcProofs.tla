------------------------------ MODULE RpcProofs ------------------------------
(***************************************************************************)
(* What holds of a connection for any number of frames, questions and      *)
(* events, whatever its client sends and when.                             *)
(***************************************************************************)
EXTENDS Rpc, TLAPS

Verdicts == {"answered", "refused", "running", "accepted", "cancelling", "queued"}

\* A turn has a frame that started it.
TurnInv == turn # 0 <=> at \notin {"top", "closed"}

\* `asking` is set while a question is waited on, and only then.
AskInv ==
    /\ asking => at = "waiting"
    /\ at = "waiting" => asking /\ Asked > 0 /\ outcome[Asked] = Waiting

\* What is queued came in this turn, for its session, after all that was heard.
QueueInv ==
    turn # 0 => \A n \in 1..Len(followUps) :
        /\ followUps[n] > turn
        /\ sent[followUps[n]].session = sent[turn].session
        /\ \A m \in 1..(n - 1) : followUps[m] < followUps[n]
        /\ \A m \in 1..Len(heard) : heard[m][2] < followUps[n]

IInv ==
    /\ TypeOK
    /\ TurnInv
    /\ AskInv
    /\ QueueInv
    /\ AcceptedIsHeard
    /\ CancelsItsTurn
    /\ SteersItsTurn

-----------------------------------------------------------------------------
(* One frame. *)

\* The elements of a sequence are of its set, and a larger set does as well.
LEMMA Elements ==
    ASSUME NEW S, NEW T, NEW s \in Seq(S), S \subseteq T
    PROVE  s \in Seq(T) /\ \A m \in 1..Len(s) : s[m] \in S
  OBVIOUS

\* What serve_frame decides, and on what.
LEMMA VerdictOf ==
    /\ Verdict \in {"accepted", "refused", "cancelling", "queued"}
    /\ Verdict = "accepted" => asking
    /\ Verdict = "cancelling" <=> Frame.session = sent[turn].session /\ Frame.kind = "cancel"
    /\ Verdict = "queued" => Frame.session = sent[turn].session
  BY DEF Verdict, Mine

\* An append adds one element at the end.
LEMMA Appending ==
    ASSUME NEW S, NEW s \in Seq(S), NEW e \in S
    PROVE  /\ Append(s, e) \in Seq(S)
           /\ Len(Append(s, e)) = Len(s) + 1 /\ Len(s) \in Nat
           /\ Append(s, e)[Len(s) + 1] = e
           /\ \A m \in 1..Len(s) : Append(s, e)[m] = s[m]
  OBVIOUS

\* Reading a frame with any verdict but `accepted` takes no answer from its question.
LEMMA OthersKeepAnswers ==
    ASSUME TypeOK, AcceptedIsHeard, NEW v \in Verdicts, v # "accepted",
           verdict' = Append(verdict, v), outcome' = outcome
    PROVE  AcceptedIsHeard'
<1>1. /\ Read' = Read + 1 /\ Read \in Nat
      /\ \A i \in 1..Read : verdict'[i] = verdict[i]
      /\ verdict'[Read + 1] = v
  BY DEF TypeOK, Read, Verdicts
<1>2. Asked' = Asked
  BY DEF Asked
<1>3. SUFFICES ASSUME NEW i \in 1..Read', verdict'[i] = "accepted"
               PROVE  \E q \in 1..Asked' :
                        outcome'[q] = i /\ \A p \in 1..Asked' : outcome'[p] = i => p = q
  BY DEF AcceptedIsHeard
<1>4. i # Read + 1
  BY <1>1, <1>3
<1>5. i \in 1..(Read + 1)
  BY <1>1
<1>6. i \in 1..Read
  BY <1>1, <1>4, <1>5
<1>7. verdict[i] = "accepted"
  BY <1>1, <1>3, <1>6
<1>8. \E q \in 1..Asked : outcome[q] = i /\ \A p \in 1..Asked : outcome[p] = i => p = q
  BY <1>6, <1>7 DEF AcceptedIsHeard
<1>9. QED
  BY <1>2, <1>8

\* serve_frame keeps the type of what it touches, and the cancel and the queue to their turn.
LEMMA ServeFrameKeeps ==
    ASSUME IInv, ServeFrame, turn # 0,
           UNCHANGED <<client, negotiated, turn, heard>>
    PROVE  /\ verdict' = Append(verdict, Verdict) /\ Read' = Read + 1 /\ Read \in Nat
           /\ verdict' \in Seq(Verdicts) /\ Read' <= Len(sent')
           /\ followUps' \in Seq(1..Read')
           /\ QueueInv'
           /\ CancelsItsTurn'
           /\ SteersItsTurn'
<1> USE DEF client
<1>1. /\ Read' = Read + 1 /\ Read \in Nat /\ turn \in 1..Read
      /\ verdict' = Append(verdict, Verdict)
      /\ Read' <= Len(sent) /\ Len(sent) \in Nat
  BY DEF IInv, TypeOK, ServeFrame, Unread, Read
<1>2. verdict' \in Seq(Verdicts)
  BY <1>1, VerdictOf DEF IInv, TypeOK, Verdicts
<1>3. followUps \in Seq(1..Read) /\ heard \in Seq((1..Read) \X (1..Read))
  BY DEF IInv, TypeOK
<1>4. 1..Read \subseteq 1..Read' /\ Read + 1 \in 1..Read'
  BY <1>1
<1>5. followUps' \in Seq(1..Read')
  <2>1. followUps \in Seq(1..Read')
    BY <1>3, <1>4, Elements
  <2>2. followUps' = Append(followUps, Read + 1) \/ followUps' = followUps
    BY DEF ServeFrame
  <2>3. QED
    BY <1>4, <2>1, <2>2, Appending
<1>6. QueueInv'
  <2>1. CASE Verdict = "queued"
    <3>1. followUps' = Append(followUps, Read + 1)
      BY <2>1 DEF ServeFrame
    <3>2. /\ Len(followUps') = Len(followUps) + 1 /\ Len(followUps) \in Nat
          /\ \A n \in 1..Len(followUps) : followUps'[n] = followUps[n]
          /\ followUps'[Len(followUps) + 1] = Read + 1
      BY <1>3, <3>1
    <3>3. sent[Read + 1].session = sent[turn].session
      BY <2>1, VerdictOf DEF Frame
    <3>4. \A m \in 1..Len(heard) : heard[m][2] \in 1..Read
      BY <1>3
    <3>5. \A m \in 1..Len(followUps) : followUps[m] \in 1..Read
      BY <1>3, Elements
    <3>6. ASSUME NEW n \in 1..Len(followUps')
          PROVE  /\ followUps'[n] > turn
                 /\ sent[followUps'[n]].session = sent[turn].session
                 /\ \A m \in 1..(n - 1) : followUps'[m] < followUps'[n]
                 /\ \A m \in 1..Len(heard) : heard[m][2] < followUps'[n]
      <4>1. CASE n = Len(followUps) + 1
        <5>1. followUps'[n] = Read + 1
          BY <3>2, <4>1
        <5>2. \A m \in 1..(n - 1) : followUps'[m] = followUps[m] /\ followUps[m] \in 1..Read
          BY <3>2, <3>5, <4>1
        <5>3. Read + 1 > turn
          BY <1>1
        <5>4. \A m \in 1..(n - 1) : followUps'[m] < Read + 1
          BY <1>1, <5>2
        <5>5. \A m \in 1..Len(heard) : heard[m][2] < Read + 1
          BY <1>1, <3>4
        <5>6. QED
          BY <3>3, <5>1, <5>3, <5>4, <5>5
      <4>2. CASE n # Len(followUps) + 1
        <5>1. n \in 1..Len(followUps) /\ followUps'[n] = followUps[n]
          BY <3>2, <4>2
        <5>2. \A m \in 1..(n - 1) : followUps'[m] = followUps[m]
          BY <3>2, <5>1
        <5>3. QED
          BY <5>1, <5>2 DEF IInv, QueueInv
      <4>3. QED
        BY <4>1, <4>2
    <3>7. QED
      BY <3>6 DEF QueueInv
  <2>2. CASE Verdict # "queued"
    BY <2>2 DEF ServeFrame, IInv, QueueInv
  <2>3. QED
    BY <2>1, <2>2
<1>7. CancelsItsTurn'
  <2>1. cancelled' <=> cancelled \/ (sent[Read + 1].kind = "cancel"
                                      /\ sent[Read + 1].session = sent[turn].session)
    BY VerdictOf DEF ServeFrame, Frame, IInv, TypeOK
  <2>2. (turn + 1)..Read' = ((turn + 1)..Read) \cup {Read + 1}
    BY <1>1
  <2>3. QED
    BY <2>1, <2>2 DEF IInv, CancelsItsTurn
<1>8. SteersItsTurn'
  BY DEF IInv, SteersItsTurn
<1>9. QED
  BY <1>1, <1>2, <1>5, <1>6, <1>7, <1>8

\* Reading a frame leaves the histories of earlier frames well typed.
LEMMA ReadOne ==
    ASSUME TypeOK, Unread, NEW v \in Verdicts, verdict' = Append(verdict, v)
    PROVE  /\ Read' = Read + 1 /\ Read \in Nat /\ Read' <= Len(sent)
           /\ verdict' \in Seq(Verdicts)
           /\ 1..Read \subseteq 1..Read' /\ 0..Read \subseteq 0..Read'
           /\ followUps \in Seq(1..Read')
           /\ heard \in Seq((1..Read') \X (1..Read'))
           /\ outcome \in Seq({Waiting, Default} \cup 1..Read')
<1>1. /\ verdict \in Seq(Verdicts) /\ Len(sent) \in Nat
      /\ followUps \in Seq(1..Read)
      /\ heard \in Seq((1..Read) \X (1..Read))
      /\ outcome \in Seq({Waiting, Default} \cup 1..Read)
  BY DEF TypeOK, Verdicts
<1>2. /\ Read' = Read + 1 /\ Read \in Nat /\ verdict' \in Seq(Verdicts)
  BY <1>1, Appending DEF Read
<1>3. Read' <= Len(sent)
  BY <1>1, <1>2 DEF Unread
<1>4. 1..Read \subseteq 1..Read' /\ 0..Read \subseteq 0..Read'
  BY <1>2
<1>5. followUps \in Seq(1..Read')
  BY <1>1, <1>4, Elements
<1>6. (1..Read) \X (1..Read) \subseteq (1..Read') \X (1..Read')
  BY <1>4
<1>7. heard \in Seq((1..Read') \X (1..Read'))
  BY <1>1, <1>6, Elements
<1>8. {Waiting, Default} \cup 1..Read \subseteq {Waiting, Default} \cup 1..Read'
  BY <1>4
<1>9. outcome \in Seq({Waiting, Default} \cup 1..Read')
  BY <1>1, <1>8, Elements
<1>10. QED
  BY <1>2, <1>3, <1>4, <1>5, <1>7, <1>9

\* A step that leaves these alone disturbs nothing but where the reader is.
Kept == <<sent, verdict, turn, cancelled, followUps, outcome, heard>>

LEMMA KeptKeeps ==
    ASSUME IInv, UNCHANGED Kept
    PROVE  Read' = Read /\ Asked' = Asked /\ QueueInv' /\ AcceptedIsHeard' /\ CancelsItsTurn'
           /\ SteersItsTurn'
  BY DEF Kept, IInv, Read, Asked, QueueInv, AcceptedIsHeard, CancelsItsTurn, SteersItsTurn

\* A question that returns without an answer, or is asked, takes no other's answer.
LEMMA OutcomeKeepsAnswers ==
    ASSUME TypeOK, AcceptedIsHeard, UNCHANGED verdict,
           \/ outcome' = Append(outcome, Default)
           \/ outcome' = Append(outcome, Waiting)
           \/ /\ Asked > 0 /\ outcome[Asked] = Waiting
              /\ outcome' = [outcome EXCEPT ![Asked] = Default]
    PROVE  AcceptedIsHeard' /\ outcome' \in Seq({Waiting, Default} \cup 1..Read)
<1> DEFINE Outcomes == {Waiting, Default} \cup 1..Read
<1>1. outcome \in Seq(Outcomes) /\ Default \in Outcomes /\ Waiting \in Outcomes
  BY DEF TypeOK
<1>2. Read' = Read
  BY DEF Read
<1>3. /\ outcome' \in Seq(Outcomes)
      /\ Asked' \in {Asked, Asked + 1} /\ Asked \in Nat
      /\ \A q \in 1..Asked' : outcome'[q] \in {Waiting, Default}
                              \/ (q \in 1..Asked /\ outcome'[q] = outcome[q])
      /\ \A q \in 1..Asked : outcome[q] = Waiting \/ outcome'[q] = outcome[q]
  <2> HIDE DEF Outcomes
  <2>1. CASE \E d \in {Default, Waiting} : outcome' = Append(outcome, d)
    BY <1>1, <2>1, Appending DEF Asked
  <2>2. CASE /\ Asked > 0 /\ outcome[Asked] = Waiting
             /\ outcome' = [outcome EXCEPT ![Asked] = Default]
    BY <1>1, <2>2 DEF Asked
  <2>3. QED
    BY <2>1, <2>2
<1>4. ASSUME NEW i \in 1..Read, verdict[i] = "accepted"
      PROVE  \E q \in 1..Asked' : /\ outcome'[q] = i
                                  /\ \A p \in 1..Asked' : outcome'[p] = i => p = q
  <2>1. PICK q \in 1..Asked : outcome[q] = i /\ \A p \in 1..Asked : outcome[p] = i => p = q
    BY <1>4 DEF AcceptedIsHeard
  <2>2. i \notin {Waiting, Default}
    BY DEF Waiting, Default, TypeOK, Read
  <2>3. q \in 1..Asked' /\ outcome'[q] = i
    BY <1>3, <2>1, <2>2
  <2>4. \A p \in 1..Asked' : outcome'[p] = i => p = q
    BY <1>3, <2>1, <2>2
  <2>5. QED
    BY <2>3, <2>4
<1>5. QED
  BY <1>2, <1>3, <1>4 DEF AcceptedIsHeard

-----------------------------------------------------------------------------
(* The induction. *)

LEMMA InitInv == Init => IInv
<1> SUFFICES ASSUME Init PROVE IInv
  OBVIOUS
<1>1. TypeOK
  <2>1. \A S : <<>> \in Seq(S) /\ Len(<<>>) = 0
    OBVIOUS
  <2>2. /\ sent \in Seq(Frames) /\ verdict \in Seq(Verdicts)
        /\ followUps \in Seq(1..Read) /\ heard \in Seq((1..Read) \X (1..Read))
        /\ outcome \in Seq({Waiting, Default} \cup 1..Read)
    BY <2>1 DEF Init
  <2>3. /\ Len(sent) = 0 /\ Read = 0 /\ Asked = 0
    BY <2>1 DEF Init, Read, Asked
  <2>4. /\ transport \in {"stdio", "ws"} /\ {input, output} \subseteq {"open", "closed"}
        /\ at = "top" /\ turn = 0 /\ emits = 0
        /\ {negotiated, asking, cancelled, closing} \subseteq BOOLEAN
    BY DEF Init
  <2>5. QED
    BY <2>2, <2>3, <2>4, RpcAssumption DEF TypeOK, Verdicts
<1>2. TurnInv /\ AskInv /\ QueueInv
  BY DEF Init, TurnInv, AskInv, QueueInv
<1>3. AcceptedIsHeard /\ CancelsItsTurn /\ SteersItsTurn
  BY DEF Init, AcceptedIsHeard, CancelsItsTurn, SteersItsTurn, Read
<1>4. QED
  BY <1>1, <1>2, <1>3 DEF IInv

LEMMA NextInv == IInv /\ [Next]_vars => IInv'
<1> SUFFICES ASSUME IInv, [Next]_vars PROVE IInv'
  OBVIOUS
<1>1. CASE Send
  <2>1. PICK frame \in Frames : sent' = Append(sent, frame)
    BY <1>1 DEF Send
  <2>2. /\ sent' \in Seq(Frames) /\ Len(sent') = Len(sent) + 1 /\ Len(sent) \in Nat
        /\ \A i \in 1..Len(sent) : sent'[i] = sent[i]
    BY <2>1, Appending DEF IInv, TypeOK
  <2>3. Read' = Read /\ Asked' = Asked /\ Read \in Nat /\ Read <= Len(sent) /\ turn \in 0..Read
    BY <1>1 DEF Send, state, Read, Asked, IInv, TypeOK
  <2>4. \A i \in 1..Read : sent'[i] = sent[i]
    BY <2>2, <2>3
  <2>5. TypeOK'
    <3>1. Len(sent') <= MaxFrames /\ Read' <= Len(sent')
      BY <1>1, <2>2, <2>3, RpcAssumption DEF Send
    <3>2. QED
      BY <1>1, <2>2, <2>3, <3>1 DEF Send, state, IInv, TypeOK
  <2>6. TurnInv' /\ AskInv' /\ AcceptedIsHeard'
    BY <1>1, <2>3 DEF Send, state, IInv, TurnInv, AskInv, AcceptedIsHeard
  <2>7. QueueInv'
    <3>1. followUps' = followUps /\ heard' = heard /\ turn' = turn
      BY <1>1 DEF Send, state
    <3>2. \A n \in 1..Len(followUps) : followUps[n] \in 1..Read
      BY Elements DEF IInv, TypeOK
    <3>3. turn # 0 => turn \in 1..Read
      BY <2>3
    <3>4. QED
      BY <2>4, <3>1, <3>2, <3>3 DEF IInv, QueueInv
  <2>8. CancelsItsTurn'
    <3>1. cancelled' = cancelled /\ turn' = turn
      BY <1>1 DEF Send, state
    <3>2. turn # 0 => turn \in 1..Read /\ (turn + 1)..Read \subseteq 1..Read
      BY <2>3
    <3>3. QED
      BY <2>3, <2>4, <3>1, <3>2 DEF IInv, CancelsItsTurn
  <2>9. SteersItsTurn'
    <3>1. heard' = heard
      BY <1>1 DEF Send
    <3>2. \A n \in 1..Len(heard) : heard[n][1] \in 1..Read /\ heard[n][2] \in 1..Read
      BY Elements DEF IInv, TypeOK
    <3>3. QED
      BY <2>4, <3>1, <3>2 DEF IInv, SteersItsTurn
  <2>10. QED
    BY <2>5, <2>6, <2>7, <2>8, <2>9 DEF IInv
<1>2. CASE HangUp
  <2>1. UNCHANGED Kept
    BY <1>2 DEF HangUp, Kept, state
  <2>2. TypeOK'
    BY <1>2, <2>1, KeptKeeps DEF HangUp, state, IInv, TypeOK
  <2>3. TurnInv' /\ AskInv'
    BY <1>2, <2>1, KeptKeeps DEF HangUp, state, IInv, TurnInv, AskInv
  <2>4. QED
    BY <2>1, <2>2, <2>3, KeptKeeps DEF IInv
<1>3. CASE Hello
  <2>1. PICK v \in {"answered", "refused"} : verdict' = Append(verdict, v)
    BY <1>3 DEF Hello
  <2>2. turn = 0 /\ turn' = 0 /\ at' \in {"top", "closed"} /\ at = "top" /\ ~asking /\ Unread
    BY <1>3 DEF Hello, AtTop, Answered, IInv, TurnInv, AskInv
  <2>3. QED
    <3>1. v \in Verdicts /\ v # "accepted"
      BY DEF Verdicts
    <3>2. outcome' = outcome /\ heard' = heard /\ sent' = sent
      BY <1>3 DEF Hello, client
    <3>3. AcceptedIsHeard'
      BY <2>1, <3>1, <3>2, OthersKeepAnswers DEF IInv
    <3>4. SteersItsTurn' /\ QueueInv' /\ CancelsItsTurn' /\ TurnInv'
      BY <2>2, <3>2 DEF IInv, SteersItsTurn, QueueInv, CancelsItsTurn, TurnInv
    <3>5. AskInv'
      BY <1>3, <2>2 DEF Hello, state, AskInv
    <3>6. TypeOK'
      BY <1>3, <2>1, <2>2, <3>1, <3>2, ReadOne
         DEF Hello, client, state, IInv, TypeOK, Verdicts, Asked
    <3>7. QED
      BY <3>3, <3>4, <3>5, <3>6 DEF IInv
<1>4. CASE Command
  <2>1. PICK v \in {"answered", "refused"} : verdict' = Append(verdict, v)
    BY <1>4 DEF Command
  <2>2. turn = 0 /\ turn' = 0 /\ at' \in {"top", "closed"} /\ at = "top" /\ ~asking /\ Unread
    BY <1>4 DEF Command, AtTop, Answered, IInv, TurnInv, AskInv
  <2>3. QED
    <3>1. v \in Verdicts /\ v # "accepted"
      BY DEF Verdicts
    <3>2. outcome' = outcome /\ heard' = heard /\ sent' = sent
      BY <1>4 DEF Command, client
    <3>3. AcceptedIsHeard'
      BY <2>1, <3>1, <3>2, OthersKeepAnswers DEF IInv
    <3>4. SteersItsTurn' /\ QueueInv' /\ CancelsItsTurn' /\ TurnInv'
      BY <2>2, <3>2 DEF IInv, SteersItsTurn, QueueInv, CancelsItsTurn, TurnInv
    <3>5. AskInv'
      BY <1>4, <2>2 DEF Command, state, AskInv
    <3>6. TypeOK'
      BY <1>4, <2>1, <2>2, <3>1, <3>2, ReadOne
         DEF Command, client, state, IInv, TypeOK, Verdicts, Asked
    <3>7. QED
      BY <3>3, <3>4, <3>5, <3>6 DEF IInv
<1>5. CASE StartTurn
  <2>1. verdict' = Append(verdict, "running") /\ Unread
    BY <1>5 DEF StartTurn, AtTop
  <2>2. /\ turn' = Read + 1 /\ at' = "working" /\ ~asking' /\ ~cancelled' /\ followUps' = <<>>
        /\ outcome' = outcome /\ heard' = heard /\ sent' = sent
    BY <1>5 DEF StartTurn, client
  <2>3. "running" \in Verdicts /\ "running" # "accepted"
    BY DEF Verdicts
  <2>4. Read' = Read + 1 /\ Read \in Nat
    BY <2>1, <2>3, ReadOne DEF IInv
  <2>5. AcceptedIsHeard'
    BY <2>1, <2>2, <2>3, OthersKeepAnswers DEF IInv
  <2>6. TurnInv' /\ AskInv' /\ QueueInv'
    BY <2>2, <2>4 DEF TurnInv, AskInv, QueueInv
  <2>7. CancelsItsTurn'
    <3>1. (turn' + 1)..Read' = {}
      BY <2>2, <2>4
    <3>2. QED
      BY <2>2, <3>1 DEF CancelsItsTurn
  <2>8. SteersItsTurn'
    BY <2>2 DEF IInv, SteersItsTurn
  <2>9. TypeOK'
    <3>1. followUps' \in Seq(1..Read')
      BY <2>2
    <3>2. turn' \in 0..Read'
      BY <2>2, <2>4
    <3>3. emits' \in 0..MaxEmits
      BY <1>5, RpcAssumption DEF StartTurn
    <3>4. QED
      BY <1>5, <2>1, <2>2, <2>3, <3>1, <3>2, <3>3, ReadOne
         DEF StartTurn, client, IInv, TypeOK, Verdicts, Asked
  <2>10. QED
    BY <2>5, <2>6, <2>7, <2>8, <2>9 DEF IInv
<1>6. CASE Close
  <2>1. UNCHANGED Kept
    BY <1>6 DEF Close, Kept, client, state
  <2>2. TypeOK'
    BY <1>6, <2>1, KeptKeeps DEF Close, client, state, IInv, TypeOK
  <2>3. TurnInv' /\ AskInv'
    BY <1>6, <2>1, KeptKeeps DEF Close, client, state, IInv, TurnInv, AskInv
  <2>4. QED
    BY <2>1, <2>2, <2>3, KeptKeeps DEF IInv
<1>7. CASE ServeQueued
  <2>1. turn # 0 /\ at # "waiting" /\ ~asking
    BY <1>7 DEF ServeQueued, Draining, IInv, TurnInv, AskInv
  <2>2. ServeFrame /\ UNCHANGED <<client, negotiated, turn, heard>>
    BY <1>7 DEF ServeQueued
  <2>3. /\ verdict' = Append(verdict, Verdict) /\ followUps' \in Seq(1..Read')
        /\ QueueInv' /\ CancelsItsTurn' /\ SteersItsTurn'
    BY <2>1, <2>2, ServeFrameKeeps
  <2>4. Verdict \in Verdicts /\ Verdict # "accepted"
    BY <2>1, VerdictOf DEF Verdicts
  <2>5. AcceptedIsHeard'
    BY <1>7, <2>3, <2>4, OthersKeepAnswers DEF ServeQueued, IInv
  <2>6. TurnInv' /\ AskInv'
    BY <1>7, <2>1 DEF ServeQueued, IInv, TurnInv, AskInv
  <2>7. TypeOK'
    <3>1. cancelled' \in BOOLEAN
      BY <2>2 DEF ServeFrame, IInv, TypeOK
    <3>2. Unread
      BY <2>2 DEF ServeFrame
    <3>3. QED
      BY <1>7, <2>3, <2>4, <3>1, <3>2, ReadOne
         DEF ServeQueued, client, IInv, TypeOK, Verdicts, Asked
  <2>8. QED
    BY <2>3, <2>5, <2>6, <2>7 DEF IInv
<1>8. CASE Emit
  <2>1. UNCHANGED Kept
    BY <1>8 DEF Emit, Kept, client, state
  <2>2. TypeOK'
    BY <1>8, <2>1, KeptKeeps, RpcAssumption DEF Emit, client, state, Kept, IInv, TypeOK
  <2>3. TurnInv' /\ AskInv'
    BY <1>8, <2>1, KeptKeeps DEF Emit, client, state, Kept, IInv, TurnInv, AskInv
  <2>4. QED
    BY <2>1, <2>2, <2>3, KeptKeeps DEF IInv
<1>9. CASE Emitted
  <2>1. UNCHANGED Kept
    BY <1>9 DEF Emitted, Kept, client, state
  <2>2. TypeOK'
    BY <1>9, <2>1, KeptKeeps DEF Emitted, client, state, Kept, IInv, TypeOK
  <2>3. TurnInv' /\ AskInv'
    BY <1>9, <2>1, KeptKeeps DEF Emitted, client, state, Kept, IInv, TurnInv, AskInv
  <2>4. QED
    BY <2>1, <2>2, <2>3, KeptKeeps DEF IInv
<1>10. CASE Ask
  <2>1. outcome' = Append(outcome, Default) \/ outcome' = Append(outcome, Waiting)
    BY <1>10 DEF Ask
  <2>2. UNCHANGED <<sent, verdict, turn, cancelled, followUps, heard>> /\ Read' = Read
    BY <1>10 DEF Ask, client, Read
  <2>3. AcceptedIsHeard' /\ outcome' \in Seq({Waiting, Default} \cup 1..Read)
    BY <2>1, <2>2, OutcomeKeepsAnswers DEF IInv
  <2>4. QueueInv' /\ CancelsItsTurn' /\ SteersItsTurn'
    BY <2>2 DEF IInv, QueueInv, CancelsItsTurn, SteersItsTurn
  <2>5. /\ Asked' = Asked + 1 /\ Asked \in Nat
        /\ outcome'[Asked + 1] \in {Default, Waiting}
        /\ outcome' = Append(outcome, Waiting) => outcome'[Asked + 1] = Waiting
    <3>1. outcome \in Seq({Waiting, Default} \cup 1..Read)
      BY DEF IInv, TypeOK
    <3>2. Waiting \in {Waiting, Default} \cup 1..Read /\ Default \in {Waiting, Default} \cup 1..Read
      OBVIOUS
    <3>3. QED
      BY <2>1, <3>1, <3>2, Appending DEF Asked
  <2>6. TurnInv' /\ AskInv'
    <3>1. CASE output = "closed"
      BY <1>10, <2>2, <3>1 DEF Ask, IInv, TurnInv, AskInv
    <3>2. CASE output # "closed"
      BY <1>10, <2>2, <2>5, <3>2 DEF Ask, IInv, TurnInv, AskInv
    <3>3. QED
      BY <3>1, <3>2
  <2>7. TypeOK'
    <3>1. Asked' <= MaxAsks
      BY <1>10, <2>5, RpcAssumption DEF Ask
    <3>2. QED
      BY <1>10, <2>2, <2>3, <3>1 DEF Ask, client, IInv, TypeOK
  <2>8. QED
    BY <2>3, <2>4, <2>6, <2>7 DEF IInv
<1>11. CASE WaitServe
  <2>1. turn # 0 /\ turn' = turn /\ asking /\ Asked > 0 /\ outcome[Asked] = Waiting
    BY <1>11 DEF WaitServe, IInv, TurnInv, AskInv
  <2>2. ServeFrame /\ Unread /\ UNCHANGED <<client, negotiated, turn, heard>>
    BY <1>11 DEF WaitServe, ServeFrame
  <2>3. /\ verdict' = Append(verdict, Verdict) /\ followUps' \in Seq(1..Read')
        /\ QueueInv' /\ CancelsItsTurn' /\ SteersItsTurn'
    BY <2>1, <2>2, ServeFrameKeeps
  <2>4. Verdict \in Verdicts /\ cancelled' \in BOOLEAN
    BY <2>2, VerdictOf DEF Verdicts, ServeFrame, IInv, TypeOK
  <2>5. /\ Read' = Read + 1 /\ Read \in Nat /\ Read' <= Len(sent)
        /\ verdict' \in Seq(Verdicts) /\ 0..Read \subseteq 0..Read'
        /\ heard \in Seq((1..Read') \X (1..Read'))
        /\ outcome \in Seq({Waiting, Default} \cup 1..Read')
    BY <2>2, <2>3, <2>4, ReadOne DEF IInv
  <2>6. /\ Asked \in Nat
        /\ \A i \in 1..Read : verdict'[i] = verdict[i]
        /\ verdict'[Read + 1] = Verdict
    BY <2>3, <2>4, Appending DEF IInv, TypeOK, Verdicts, Read, Asked
  <2>7. \/ at' = at /\ asking' = asking /\ outcome' = outcome /\ Verdict # "accepted"
        \/ /\ at' = "working" /\ ~asking'
           /\ \E r \in {Default, Read + 1} :
                /\ outcome' = [outcome EXCEPT ![Asked] = r]
                /\ r = Read + 1 <=> Verdict = "accepted"
    BY <1>11, <2>6 DEF WaitServe, Return, Default, IInv, TypeOK, Read
  <2>8. outcome' \in Seq({Waiting, Default} \cup 1..Read') /\ Asked' = Asked
    <3> DEFINE Outcomes == {Waiting, Default} \cup 1..Read'
    <3>1. Default \in Outcomes /\ Read + 1 \in Outcomes /\ outcome \in Seq(Outcomes)
      BY <2>5
    <3>2. outcome' = outcome \/ \E r \in Outcomes : outcome' = [outcome EXCEPT ![Asked] = r]
      BY <2>7, <3>1
    <3> HIDE DEF Outcomes
    <3>3. outcome' \in Seq(Outcomes) /\ Len(outcome') = Len(outcome)
      BY <2>1, <2>6, <3>1, <3>2 DEF Asked
    <3>4. QED
      BY <3>3 DEF Outcomes, Asked
  <2>9. AcceptedIsHeard'
    <3>1. CASE outcome' = outcome /\ Verdict # "accepted"
      BY <2>3, <2>4, <3>1, OthersKeepAnswers DEF IInv
    <3>2. ASSUME NEW r \in {Default, Read + 1}, outcome' = [outcome EXCEPT ![Asked] = r],
                 r = Read + 1 <=> Verdict = "accepted"
          PROVE  AcceptedIsHeard'
      <4>1. /\ Asked \in 1..Asked /\ outcome'[Asked] = r
            /\ \A q \in 1..Asked : q # Asked => outcome'[q] = outcome[q]
        <5>1. outcome \in Seq({Waiting, Default} \cup 1..Read')
          BY <2>5
        <5>2. DOMAIN outcome = 1..Asked /\ Asked \in 1..Asked
          BY <2>1, <2>6, <5>1 DEF Asked
        <5>3. QED
          BY <2>8, <3>2, <5>2
      <4>2. \A q \in 1..Asked : outcome[q] \in {Waiting, Default} \cup 1..Read
        BY Elements DEF Asked, IInv, TypeOK
      <4>3. ASSUME NEW i \in 1..Read', verdict'[i] = "accepted"
            PROVE  \E q \in 1..Asked' : /\ outcome'[q] = i
                                        /\ \A p \in 1..Asked' : outcome'[p] = i => p = q
        <5>1. CASE i = Read + 1
          <6>1. r = i
            BY <2>6, <3>2, <4>3, <5>1
          <6>2. i \notin {Waiting, Default} /\ i \notin 1..Read
            BY <2>5, <5>1 DEF Waiting, Default
          <6>3. \A q \in 1..Asked : outcome[q] # i
            BY <4>2, <6>2
          <6>4. QED
            BY <2>8, <4>1, <6>1, <6>3
        <5>2. CASE i # Read + 1
          <6>1. i \in 1..Read /\ verdict[i] = "accepted"
            BY <2>5, <2>6, <4>3, <5>2
          <6>2. PICK q \in 1..Asked : outcome[q] = i /\ \A p \in 1..Asked : outcome[p] = i => p = q
            BY <6>1 DEF IInv, AcceptedIsHeard
          <6>3. i # Waiting /\ r # i
            BY <2>5, <5>2, <6>1 DEF Waiting, Default
          <6>4. q # Asked
            BY <2>1, <6>2, <6>3
          <6>5. outcome'[q] = i /\ \A p \in 1..Asked : outcome'[p] = i => p = q
            BY <4>1, <6>2, <6>3, <6>4
          <6>6. QED
            BY <2>8, <6>5
        <5>3. QED
          BY <5>1, <5>2
      <4>4. QED
        BY <4>3 DEF AcceptedIsHeard
    <3>3. QED
      BY <2>7, <3>1, <3>2
  <2>10. TurnInv' /\ AskInv'
    BY <2>1, <2>7, <2>8 DEF IInv, TurnInv, AskInv
  <2>11. TypeOK'
    BY <1>11, <2>2, <2>3, <2>4, <2>5, <2>7, <2>8
       DEF WaitServe, client, IInv, TypeOK, Verdicts, Asked
  <2>12. QED
    BY <2>3, <2>9, <2>10, <2>11 DEF IInv
<1>12. CASE GiveUp
  <2>1. outcome' = [outcome EXCEPT ![Asked] = Default] /\ Asked > 0 /\ outcome[Asked] = Waiting
    BY <1>12 DEF GiveUp, Return, IInv, AskInv
  <2>2. /\ UNCHANGED <<sent, verdict, turn, cancelled, followUps, heard>> /\ Read' = Read
        /\ Asked' = Asked
    BY <1>12, <2>1 DEF GiveUp, client, Read, Asked, IInv, TypeOK
  <2>3. AcceptedIsHeard' /\ outcome' \in Seq({Waiting, Default} \cup 1..Read)
    BY <2>1, <2>2, OutcomeKeepsAnswers DEF IInv
  <2>4. QueueInv' /\ CancelsItsTurn' /\ SteersItsTurn'
    BY <2>2 DEF IInv, QueueInv, CancelsItsTurn, SteersItsTurn
  <2>5. TurnInv' /\ AskInv'
    BY <1>12, <2>2 DEF GiveUp, Return, IInv, TurnInv, AskInv
  <2>6. TypeOK'
    BY <1>12, <2>2, <2>3 DEF GiveUp, Return, client, IInv, TypeOK
  <2>7. QED
    BY <2>3, <2>4, <2>5, <2>6 DEF IInv
<1>13. CASE Poll
  <2>1. UNCHANGED Kept
    BY <1>13 DEF Poll, Kept, client, state
  <2>2. TypeOK'
    BY <1>13, <2>1, KeptKeeps DEF Poll, client, state, Kept, IInv, TypeOK
  <2>3. TurnInv' /\ AskInv'
    BY <1>13, <2>1, KeptKeeps DEF Poll, client, state, Kept, IInv, TurnInv, AskInv
  <2>4. QED
    BY <2>1, <2>2, <2>3, KeptKeeps DEF IInv
<1>14. CASE Polled
  <2>1. /\ UNCHANGED <<sent, verdict, turn, cancelled, outcome, asking>>
        /\ turn # 0 /\ at' = "working" /\ ~asking
        /\ Read' = Read /\ Asked' = Asked
    BY <1>14 DEF Polled, client, Read, Asked, IInv, TurnInv, AskInv
  <2>2. AcceptedIsHeard' /\ CancelsItsTurn' /\ TurnInv' /\ AskInv'
    BY <2>1 DEF IInv, AcceptedIsHeard, CancelsItsTurn, TurnInv, AskInv
  <2>3. CASE followUps = <<>>
    <3>1. followUps' = followUps /\ heard' = heard
      BY <1>14, <2>3 DEF Polled
    <3>2. QueueInv' /\ SteersItsTurn'
      BY <2>1, <3>1 DEF IInv, QueueInv, SteersItsTurn
    <3>3. TypeOK'
      BY <1>14, <2>1, <2>3, <3>1 DEF Polled, client, IInv, TypeOK
    <3>4. QED
      BY <2>2, <3>2, <3>3 DEF IInv
  <2>4. CASE followUps # <<>>
    <3> DEFINE first == followUps[1]
    <3>1. followUps \in Seq(1..Read) /\ heard \in Seq((1..Read) \X (1..Read)) /\ turn \in 1..Read
      BY <2>1 DEF IInv, TypeOK, Read
    <3>2. /\ followUps' = Tail(followUps) /\ heard' = Append(heard, <<turn, first>>)
      BY <1>14, <2>4, <3>1 DEF Polled
    <3>3. /\ Len(followUps) \in Nat /\ 1 \in 1..Len(followUps)
          /\ Len(followUps') = Len(followUps) - 1
          /\ \A n \in 1..Len(followUps') : followUps'[n] = followUps[n + 1]
      BY <2>4, <3>1, <3>2
    <3>4. /\ first \in 1..Read /\ first > turn
          /\ sent[first].session = sent[turn].session
          /\ \A m \in 1..Len(heard) : heard[m][2] < first
      BY <2>1, <3>1, <3>3, Elements DEF IInv, QueueInv
    <3>5. <<turn, first>> \in (1..Read) \X (1..Read)
      BY <3>1, <3>4
    <3>6. /\ heard' \in Seq((1..Read) \X (1..Read))
          /\ Len(heard') = Len(heard) + 1 /\ Len(heard) \in Nat
          /\ heard'[Len(heard) + 1] = <<turn, first>>
          /\ \A m \in 1..Len(heard) : heard'[m] = heard[m]
      <4> DEFINE Pairs == (1..Read) \X (1..Read)
                 pair == <<turn, first>>
      <4>1. heard \in Seq(Pairs) /\ pair \in Pairs /\ heard' = Append(heard, pair)
        BY <3>1, <3>2, <3>5
      <4> HIDE DEF Pairs, pair
      <4>2. /\ heard' \in Seq(Pairs)
            /\ Len(heard') = Len(heard) + 1 /\ Len(heard) \in Nat
            /\ heard'[Len(heard) + 1] = pair
            /\ \A m \in 1..Len(heard) : heard'[m] = heard[m]
        BY <4>1, Appending
      <4>3. QED
        BY <4>2 DEF Pairs, pair
    <3>7. SteersItsTurn'
      <4>1. ASSUME NEW n \in 1..Len(heard')
            PROVE  /\ heard'[n][2] > heard'[n][1]
                   /\ sent[heard'[n][2]].session = sent[heard'[n][1]].session
                   /\ \A m \in 1..(n - 1) : heard'[m][2] < heard'[n][2]
        <5>1. CASE n = Len(heard) + 1
          <6>1. \A m \in 1..(n - 1) : heard'[m] = heard[m] /\ heard[m][2] < first
            BY <3>4, <3>6, <5>1
          <6>2. heard'[n][1] = turn /\ heard'[n][2] = first
            BY <3>6, <5>1
          <6>3. QED
            BY <3>4, <6>1, <6>2
        <5>2. CASE n # Len(heard) + 1
          <6>1. n \in 1..Len(heard) /\ heard'[n] = heard[n]
            BY <3>6, <5>2
          <6>2. \A m \in 1..(n - 1) : heard'[m] = heard[m]
            BY <3>6, <6>1
          <6>3. QED
            BY <6>1, <6>2 DEF IInv, SteersItsTurn
        <5>3. QED
          BY <5>1, <5>2
      <4>2. QED
        BY <2>1, <4>1 DEF SteersItsTurn
    <3>8. QueueInv'
      <4>1. ASSUME NEW n \in 1..Len(followUps')
            PROVE  /\ followUps'[n] > turn
                   /\ sent[followUps'[n]].session = sent[turn].session
                   /\ \A m \in 1..(n - 1) : followUps'[m] < followUps'[n]
                   /\ \A m \in 1..Len(heard') : heard'[m][2] < followUps'[n]
        <5>1. n + 1 \in 1..Len(followUps) /\ followUps'[n] = followUps[n + 1]
          BY <3>3
        <5>2. /\ followUps[n + 1] > turn
              /\ sent[followUps[n + 1]].session = sent[turn].session
              /\ \A m \in 1..n : followUps[m] < followUps[n + 1]
              /\ \A m \in 1..Len(heard) : heard[m][2] < followUps[n + 1]
          BY <2>1, <3>3, <5>1 DEF IInv, QueueInv
        <5>3. \A m \in 1..(n - 1) : followUps'[m] = followUps[m + 1] /\ m + 1 \in 1..n
          BY <3>3, <5>1
        <5>4. first < followUps[n + 1]
          BY <5>2, <5>1
        <5>5. heard'[Len(heard) + 1][2] = first
          BY <3>6
        <5>6. \A m \in 1..Len(heard') : heard'[m][2] < followUps[n + 1]
          BY <3>6, <5>2, <5>4, <5>5
        <5>7. \A m \in 1..(n - 1) : followUps'[m] < followUps'[n]
          BY <5>1, <5>2, <5>3
        <5>8. QED
          BY <5>1, <5>2, <5>6, <5>7
      <4>2. QED
        BY <2>1, <4>1 DEF QueueInv
    <3>9. TypeOK'
      <4>1. followUps' \in Seq(1..Read)
        <5> DEFINE Numbers == 1..Read
        <5>1. followUps \in Seq(Numbers)
          BY <3>1
        <5> HIDE DEF Numbers
        <5>2. followUps' \in Seq(Numbers)
          BY <2>4, <3>2, <5>1
        <5>3. QED
          BY <5>2 DEF Numbers
      <4>2. closing' = closing
        BY <1>14, <2>4 DEF Polled
      <4>3. QED
        BY <1>14, <2>1, <3>6, <4>1, <4>2 DEF Polled, client, IInv, TypeOK
    <3>10. QED
      BY <2>2, <3>7, <3>8, <3>9 DEF IInv
  <2>5. QED
    BY <2>3, <2>4
<1>15. CASE Finish
  <2>1. UNCHANGED Kept
    BY <1>15 DEF Finish, Kept, client, state
  <2>2. TypeOK'
    BY <1>15, <2>1, KeptKeeps DEF Finish, client, state, Kept, IInv, TypeOK
  <2>3. TurnInv' /\ AskInv'
    BY <1>15, <2>1, KeptKeeps DEF Finish, client, state, Kept, IInv, TurnInv, AskInv
  <2>4. QED
    BY <2>1, <2>2, <2>3, KeptKeeps DEF IInv
<1>16. CASE EndTurn
  <2>1. turn # 0 /\ turn' = 0 /\ at' \in {"top", "closed"} /\ ~asking /\ ~asking'
    BY <1>16 DEF EndTurn, Answered, state, IInv, TurnInv, AskInv
  <2>2. verdict' = [verdict EXCEPT ![turn] = "answered"]
    BY <1>16 DEF EndTurn
  <2>3. /\ verdict' \in Seq(Verdicts) /\ Read' = Read
        /\ \A i \in 1..Read : verdict'[i] = "accepted" => verdict[i] = "accepted"
    <3>1. verdict \in Seq(Verdicts) /\ turn \in 1..Read /\ "answered" \in Verdicts
      BY <2>1 DEF IInv, TypeOK, Verdicts, Read
    <3>2. verdict' \in Seq(Verdicts) /\ Len(verdict') = Len(verdict)
      BY <2>2, <3>1 DEF Read
    <3>3. \A i \in 1..Read : verdict'[i] = "accepted" => verdict[i] = "accepted"
      BY <2>2, <3>1 DEF Read
    <3>4. QED
      BY <3>2, <3>3 DEF Read
  <2>4. AcceptedIsHeard' /\ SteersItsTurn' /\ CancelsItsTurn' /\ QueueInv' /\ TurnInv' /\ AskInv'
    BY <1>16, <2>1, <2>3
       DEF EndTurn, client, Asked, IInv, AcceptedIsHeard, SteersItsTurn, CancelsItsTurn, QueueInv,
           TurnInv, AskInv
  <2>5. TypeOK'
    <3>1. turn' \in 0..Read' /\ Read' <= Len(sent')
      BY <1>16, <2>1, <2>3 DEF EndTurn, client, IInv, TypeOK, Read
    <3>2. followUps' \in Seq(1..Read') /\ heard' \in Seq((1..Read') \X (1..Read'))
      BY <1>16, <2>3 DEF EndTurn, state, IInv, TypeOK
    <3>3. outcome' \in Seq({Waiting, Default} \cup 1..Read') /\ Asked' <= MaxAsks
      BY <1>16, <2>3 DEF EndTurn, IInv, TypeOK, Asked
    <3>4. QED
      BY <1>16, <2>1, <2>3, <3>1, <3>2, <3>3 DEF EndTurn, client, state, IInv, TypeOK, Verdicts
  <2>6. QED
    BY <2>4, <2>5 DEF IInv
<1>17. CASE UNCHANGED vars
  <2>1. UNCHANGED Kept
    BY <1>17 DEF vars, Kept
  <2>2. TypeOK' /\ TurnInv' /\ AskInv'
    BY <1>17, <2>1, KeptKeeps DEF vars, IInv, TypeOK, TurnInv, AskInv
  <2>3. QED
    BY <2>1, <2>2, KeptKeeps DEF IInv
<1>18. QED
  BY <1>1, <1>2, <1>3, <1>4, <1>5, <1>6, <1>7, <1>8, <1>9, <1>10, <1>11, <1>12, <1>13, <1>14,
     <1>15, <1>16, <1>17
     DEF Next, Conversation, Conduct, Rest

LEMMA Invariance == Spec => []IInv
<1>1. QED
  BY InitInv, NextInv, PTL DEF Spec

-----------------------------------------------------------------------------
(* The theorems. *)

\* The connection's state has its type, whatever the client sends: no handler reads a turn's
\* frame, a question or a follow-up that is not there.
THEOREM TypeCorrect == Spec => []TypeOK
<1>1. IInv => TypeOK
  BY DEF IInv
<1>2. QED
  BY <1>1, Invariance, PTL

\* No answer told `accepted` is dropped by the sink or answers two questions: the driver and the
\* sink read one queue, and only the driver's wait takes answers.
THEOREM AnswersAreHeard == Spec => []AcceptedIsHeard
<1>1. IInv => AcceptedIsHeard
  BY DEF IInv
<1>2. QED
  BY <1>1, Invariance, PTL

\* A turn is cancelled if and only if a cancel of its session was read since it began.
THEOREM CancelsAreExact == Spec => []CancelsItsTurn
<1>1. IInv => CancelsItsTurn
  BY DEF IInv
<1>2. QED
  BY <1>1, Invariance, PTL

\* A follow-up steers the turn it was sent during, of its session, in the order sent.
THEOREM FollowUpsSteer == Spec => []SteersItsTurn
<1>1. IInv => SteersItsTurn
  BY DEF IInv
<1>2. QED
  BY <1>1, Invariance, PTL
===============================================================================
