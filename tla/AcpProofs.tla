------------------------------- MODULE AcpProofs -------------------------------
(***************************************************************************)
(* What holds between an editor and the gateway for any number of frames,  *)
(* in any order, and any number of questions; of the gate, whatever it     *)
(* remembers; of a request, wherever it is redirected; between the guest   *)
(* and any number of MCP servers, however they answer; of the gateway as   *)
(* such a server, whatever the client writes and whenever it is killed;    *)
(* and of the bot, whatever it is sent, whichever of its requests fail.    *)
(***************************************************************************)
EXTENDS MCAcp, TLAPS, WellFoundedInduction, SequenceTheorems

Frames == [kind : Kinds, req : Nat, no : Nat, choice : Options]

\* A frame in the channel: a request has the number it was sent with, an answer
\* is to a question that was put, and the editor chose it.
Genuine(frame) ==
    /\ frame.kind \in Requests => frame.req \in 1..reqs
    /\ frame.kind = "answer" =>
          /\ frame.no \in 1..asked
          /\ [no |-> frame.no, choice |-> frame.choice] \in chosen

ChannelInv == incoming \in Seq(Frames) /\ \A i \in 1..Len(incoming) : Genuine(incoming[i])

\* A question that waits is the last one put.
AskingInv == phase = "asking" => asked \in 1..MaxAsks

\* A cancel that a turn heard is kept.
HeardInv == heard => cancelled

\* The type of every variable but the channel.
Types ==
    /\ phase \in {"serving", "turn", "asking", "ended"}
    /\ reqs \in Nat /\ made \in [Requests \cup {"cancel"} -> Nat]
    /\ \A c \in chosen : c.no \in 1..asked /\ c.choice \in Options
    /\ closed \in BOOLEAN /\ negotiated \in BOOLEAN /\ cancelled \in BOOLEAN
    /\ stopped \in BOOLEAN /\ heard \in BOOLEAN
    /\ sessions \in Nat /\ asked \in 0..MaxAsks
    /\ DOMAIN given \subseteq 1..asked /\ \A q \in DOMAIN given : given[q] \in Options
    /\ (turn # NoTurn) <=> (phase \in {"turn", "asking"})
    /\ turn # NoTurn => turn.req \in 1..reqs /\ turn.session \in 1..sessions
    /\ response.req \in 0..reqs

IInv == Types /\ ChannelInv /\ AskingInv /\ HeardInv /\ GrantsAreChosen

LEMMA TypeParts == Types /\ ChannelInv => TypeOK
<1> SUFFICES ASSUME Types, ChannelInv
             PROVE  \A i \in DOMAIN incoming : incoming[i].kind \in Kinds
  BY DEF TypeOK, Types
<1>1. \A i \in DOMAIN incoming : incoming[i] \in Frames
  BY DEF ChannelInv
<1> QED
  BY <1>1 DEF Frames

-----------------------------------------------------------------------------
(* The channel. *)

\* What was genuine stays so.
LEMMA Genuinely ==
    ASSUME Types, reqs' \in Nat, asked' \in Nat, reqs <= reqs', asked <= asked', chosen \subseteq chosen',
           NEW frame \in Frames, Genuine(frame)
    PROVE  Genuine(frame)'
<1>1. frame.kind \in Requests => frame.req \in 1..reqs'
  BY DEF Types, Genuine
<1>2. frame.kind = "answer" => frame.no \in 1..asked'
  BY DEF Types, Genuine
<1>3. frame.kind = "answer" => [no |-> frame.no, choice |-> frame.choice] \in chosen'
  BY DEF Genuine
<1> QED
  BY <1>1, <1>2, <1>3 DEF Genuine

\* The frame at the head, when one is taken.
LEMMA Taking ==
    ASSUME ChannelInv, Take
    PROVE  /\ Frame \in Frames /\ Genuine(Frame)
           /\ incoming' \in Seq(Frames)
           /\ \A i \in 1..Len(incoming') : incoming'[i] \in Frames /\ Genuine(incoming'[i])
<1>1. incoming \in Seq(Frames) /\ incoming # <<>>
  BY DEF ChannelInv, Take
<1>2. Len(incoming) >= 1 /\ Frame = incoming[1] /\ Len(incoming) \in Nat
  BY <1>1 DEF Frame
<1>3. /\ Tail(incoming) \in Seq(Frames) /\ Len(Tail(incoming)) = Len(incoming) - 1
      /\ \A i \in 1..Len(Tail(incoming)) : Tail(incoming)[i] = incoming[i + 1]
  BY <1>1
<1>4. \A i \in 1..Len(incoming) : incoming[i] \in Frames /\ Genuine(incoming[i])
  BY <1>1 DEF ChannelInv
<1> QED
  BY <1>2, <1>3, <1>4 DEF Take

\* A frame taken, or all of them: the rest stay genuine.
LEMMA ChannelTaken ==
    ASSUME Types, ChannelInv, Take \/ incoming' = <<>> \/ incoming' = incoming,
           reqs' = reqs, chosen' = chosen, asked' \in Nat, asked <= asked'
    PROVE  ChannelInv'
<1>1. reqs' \in Nat /\ reqs <= reqs' /\ chosen \subseteq chosen'
  BY DEF Types
<1>2. incoming' \in Seq(Frames) /\ \A i \in 1..Len(incoming') : incoming'[i] \in Frames /\ Genuine(incoming'[i])
  <2>1. CASE Take
    BY <2>1, Taking
  <2>2. CASE incoming' = <<>>
    BY <2>2
  <2>3. CASE incoming' = incoming
    BY <2>3 DEF ChannelInv
  <2> QED
    BY <2>1, <2>2, <2>3
<1> QED
  BY <1>1, <1>2, Genuinely DEF ChannelInv

\* A frame written at the end.
LEMMA ChannelWritten ==
    ASSUME Types, ChannelInv, NEW frame \in Frames, Genuine(frame)', incoming' = Append(incoming, frame),
           asked' = asked, reqs' \in Nat, reqs <= reqs', chosen \subseteq chosen'
    PROVE  ChannelInv'
<1>1. asked' \in Nat /\ asked <= asked'
  BY AcpAssumption DEF Types
<1>2. /\ incoming' \in Seq(Frames) /\ Len(incoming') = Len(incoming) + 1 /\ Len(incoming) \in Nat
      /\ incoming'[Len(incoming) + 1] = frame
      /\ \A i \in 1..Len(incoming) : incoming'[i] = incoming[i] /\ incoming[i] \in Frames
  BY DEF ChannelInv
<1>3. \A i \in 1..Len(incoming) : Genuine(incoming[i])'
  BY <1>1, <1>2, Genuinely DEF ChannelInv
<1>4. ASSUME NEW i \in 1..Len(incoming')
      PROVE  Genuine(incoming[i])'
  <2>1. CASE i \in 1..Len(incoming)
    BY <1>2, <1>3, <2>1
  <2>2. CASE i = Len(incoming) + 1
    BY <1>2, <2>2
  <2> QED
    BY <1>2, <1>4, <2>1, <2>2
<1> QED
  BY <1>2, <1>4 DEF ChannelInv

-----------------------------------------------------------------------------
(* The editor's steps. *)

\* The editor changes neither the connection nor the turn.
LEMMA EditorStep ==
    ASSUME IInv,
           \/ \E k \in {"unknown", "unreadable", "initialize", "new"} : SendRequest(k, 0)
           \/ \E s \in 1..MaxOf["new"] : SendRequest("prompt", s)
           \/ SendCancel \/ HangUp
           \/ \E q \in 1..MaxAsks, c \in Options : SendAnswer(q, c)
    PROVE  IInv'
<1> USE AcpAssumption DEF IInv
<1>1. ASSUME NEW k \in Requests, NEW s \in Nat, SendRequest(k, s)
      PROVE  IInv'
  <2>1. PICK frame \in Frames :
          /\ frame = [kind |-> k, req |-> reqs + 1, no |-> s, choice |-> Default]
          /\ incoming' = Append(incoming, frame)
    <3>1. [kind |-> k, req |-> reqs + 1, no |-> s, choice |-> Default] \in Frames
      BY DEF Frames, Kinds, Types, Default, Options
    <3> QED
      BY <1>1, <3>1 DEF SendRequest, Write
  <2>2. reqs' = reqs + 1 /\ chosen' = chosen /\ asked' = asked /\ reqs \in Nat
    BY <1>1 DEF SendRequest, Write, Types
  <2>3. Genuine(frame)'
    BY <2>1, <2>2 DEF Genuine, Requests
  <2>4. ChannelInv'
    BY <2>1, <2>2, <2>3, ChannelWritten
  <2>5. Types'
    BY <1>1 DEF SendRequest, Write, Types, connection, NoTurn
  <2> QED
    BY <1>1, <2>4, <2>5 DEF SendRequest, Write, AskingInv, HeardInv, GrantsAreChosen
<1>2. CASE SendCancel
  <2> DEFINE frame == [kind |-> "cancel", req |-> 0, no |-> 0, choice |-> Default]
  <2>1. frame \in Frames /\ incoming' = Append(incoming, frame)
    BY <1>2 DEF SendCancel, Write, Frames, Kinds, Default, Options
  <2>2. reqs' = reqs /\ chosen' = chosen /\ asked' = asked /\ reqs \in Nat
    BY <1>2 DEF SendCancel, Write, Types
  <2>3. Genuine(frame)'
    BY DEF Genuine, Requests
  <2>4. ChannelInv'
    <3> HIDE DEF frame
    <3> QED
      BY <2>1, <2>2, <2>3, ChannelWritten
  <2>5. Types'
    BY <1>2 DEF SendCancel, Write, Types, connection, NoTurn
  <2> QED
    BY <1>2, <2>4, <2>5 DEF SendCancel, Write, AskingInv, HeardInv, GrantsAreChosen
<1>3. ASSUME NEW q \in 1..MaxAsks, NEW c \in Options, SendAnswer(q, c)
      PROVE  IInv'
  <2> DEFINE frame == [kind |-> "answer", req |-> 0, no |-> q, choice |-> c]
  <2>1. frame \in Frames /\ incoming' = Append(incoming, frame)
    BY <1>3 DEF SendAnswer, Write, Frames, Kinds
  <2>2. /\ reqs' = reqs /\ asked' = asked /\ reqs \in Nat
        /\ chosen' = chosen \cup {[no |-> q, choice |-> c]} /\ q \in 1..asked
    BY <1>3 DEF SendAnswer, Write, Types
  <2>3. Genuine(frame)'
    BY <2>2 DEF Genuine, Requests
  <2>4. ChannelInv'
    <3> HIDE DEF frame
    <3> QED
      BY <2>1, <2>2, <2>3, ChannelWritten
  <2>5. Types'
    BY <1>3, <2>2 DEF SendAnswer, Write, Types, connection, NoTurn
  <2> QED
    BY <1>3, <2>2, <2>4, <2>5 DEF SendAnswer, Write, AskingInv, HeardInv, GrantsAreChosen
<1>4. CASE HangUp
  <2>1. ChannelInv'
    BY <1>4, ChannelTaken DEF HangUp, Types
  <2> QED
    BY <1>4, <2>1 DEF HangUp, Types, connection, NoTurn, AskingInv, HeardInv, GrantsAreChosen
<1> QED
  BY <1>1, <1>2, <1>3, <1>4 DEF Requests

-----------------------------------------------------------------------------
(* The gateway's steps. *)

LEMMA ServeStep ==
    ASSUME IInv, Serve
    PROVE  IInv'
<1> USE AcpAssumption DEF IInv, connection, editor, NoTurn
<1>1. CASE ServeRequest
  <2>1. Frame \in Frames /\ Genuine(Frame)
    BY <1>1, Taking DEF ServeRequest
  <2>2. ChannelInv'
    BY <1>1, ChannelTaken DEF ServeRequest, Types
  <2>3. response'.req \in 0..reqs' /\ phase' \in {"serving", "ended"}
    BY <1>1, <2>1 DEF ServeRequest, Respond, Types, Genuine
  <2>4. sessions' \in Nat /\ negotiated' \in BOOLEAN
    BY <1>1 DEF ServeRequest, Types
  <2> QED
    BY <1>1, <2>2, <2>3, <2>4 DEF ServeRequest, Types, AskingInv, HeardInv, GrantsAreChosen
<1>2. CASE ServeCancel \/ ServeEnds
  <2>1. ChannelInv'
    BY <1>2, ChannelTaken DEF ServeCancel, ServeEnds, Types
  <2> QED
    BY <1>2, <2>1 DEF ServeCancel, ServeEnds, Types, AskingInv, HeardInv, GrantsAreChosen
<1>3. CASE ServeAnswer
  <2>1. ChannelInv'
    BY <1>3, ChannelTaken DEF ServeAnswer, Types
  <2>2. response'.req \in 0..reqs' /\ phase' \in {"serving", "ended"}
    BY <1>3 DEF ServeAnswer, Respond, Types
  <2> QED
    BY <1>3, <2>1, <2>2 DEF ServeAnswer, Types, AskingInv, HeardInv, GrantsAreChosen
<1>4. CASE BeginTurn
  <2>1. Frame \in Frames /\ Genuine(Frame)
    BY <1>4, Taking DEF BeginTurn
  <2>2. ChannelInv'
    BY <1>4, ChannelTaken DEF BeginTurn, Types
  <2>3. turn' = [req |-> Frame.req, session |-> Frame.no] /\ Frame.req \in 1..reqs /\ Frame.no \in 1..sessions
    BY <1>4, <2>1 DEF BeginTurn, Runs, Genuine, Requests
  <2>4. turn'.req = Frame.req /\ turn'.session = Frame.no /\ turn' # NoTurn
    <3>1. turn'.req = Frame.req /\ turn'.session = Frame.no /\ NoTurn.req = 0
      BY <2>3
    <3> QED
      BY <2>3, <3>1
  <2> QED
    BY <1>4, <2>2, <2>3, <2>4 DEF BeginTurn, Types, AskingInv, HeardInv, GrantsAreChosen
<1> QED
  BY <1>1, <1>2, <1>3, <1>4 DEF Serve

\* The gate is handed one more answer.
LEMMA GivenIsTyped ==
    ASSUME Types, GrantsAreChosen, NEW a \in Options, asked \in 1..MaxAsks, Given(a), asked' = asked,
           chosen' = chosen, a = "yes" => [no |-> asked, choice |-> "yes"] \in chosen
    PROVE  /\ DOMAIN given' \subseteq 1..asked' /\ \A q \in DOMAIN given' : given'[q] \in Options
           /\ GrantsAreChosen'
<1>1. /\ DOMAIN given' = DOMAIN given \cup {asked}
      /\ \A q \in DOMAIN given' : given'[q] = IF q = asked THEN a ELSE given[q]
  BY DEF Given
<1> QED
  BY <1>1, AcpAssumption DEF Types, GrantsAreChosen

LEMMA AnswersStep ==
    ASSUME IInv, Answers
    PROVE  IInv'
<1> USE AcpAssumption DEF IInv, connection, editor, NoTurn
<1>1. phase = "asking" /\ asked \in 1..MaxAsks /\ asked' = asked /\ chosen' = chosen /\ reqs' = reqs
  BY DEF Answers, TakeAnswer, TakeCancel, SkipFrame, AskEnds, AskingInv
<1>2. ChannelInv'
  BY <1>1, ChannelTaken DEF Answers, TakeAnswer, TakeCancel, SkipFrame, AskEnds, Types
<1>3. CASE TakeAnswer
  <2>1. Frame \in Frames /\ Genuine(Frame)
    BY <1>3, Taking DEF TakeAnswer
  <2>2. Frame.choice \in Options /\ [no |-> asked, choice |-> Frame.choice] \in chosen
    BY <1>3, <2>1 DEF TakeAnswer, AnswersIt, Genuine, Frames
  <2> QED
    BY <1>1, <1>2, <1>3, <2>2, GivenIsTyped DEF TakeAnswer, Types, AskingInv, HeardInv
<1>4. CASE TakeCancel \/ AskEnds
  <2>1. Given(Default) /\ Default \in Options /\ Default # "yes"
    BY <1>4 DEF TakeCancel, AskEnds, Default, Options
  <2>2. /\ DOMAIN given' \subseteq 1..asked' /\ \A q \in DOMAIN given' : given'[q] \in Options
        /\ GrantsAreChosen'
    BY <1>1, <2>1, GivenIsTyped
  <2> QED
    <3>1. HeardInv' /\ phase' = "turn" /\ cancelled' \in BOOLEAN /\ heard' \in BOOLEAN
      <4>1. CASE TakeCancel
        BY <4>1 DEF TakeCancel, HeardInv
      <4>2. CASE AskEnds
        BY <4>2 DEF AskEnds, HeardInv, Types
      <4> QED
        BY <1>4, <4>1, <4>2
    <3>2. UNCHANGED <<closed, negotiated, sessions, stopped, turn, reqs, made, chosen, response>>
      BY <1>4 DEF TakeCancel, AskEnds
    <3> QED
      BY <1>1, <1>2, <2>2, <3>1, <3>2 DEF Types, AskingInv
<1>5. CASE SkipFrame
  BY <1>1, <1>2, <1>5 DEF SkipFrame, Types, AskingInv, HeardInv, GrantsAreChosen
<1> QED
  BY <1>3, <1>4, <1>5 DEF Answers

LEMMA TurnStep ==
    ASSUME IInv, Speak \/ Ask \/ EndTurn
    PROVE  IInv'
<1> USE AcpAssumption DEF IInv, connection, editor, NoTurn
<1>1. CASE Speak
  <2>1. ChannelInv'
    BY <1>1, ChannelTaken DEF Speak, Drained, Types
  <2>2. (cancelled' \in BOOLEAN /\ heard' \in BOOLEAN /\ stopped' \in BOOLEAN) /\ HeardInv'
    <3>1. CASE Drained /\ stopped' = cancelled'
      BY <3>1 DEF Drained, Drain, HeardInv
    <3>2. CASE closed /\ stopped' = TRUE /\ UNCHANGED <<incoming, cancelled, heard>>
      BY <3>2 DEF Types, HeardInv
    <3> QED
      BY <1>1, <3>1, <3>2 DEF Speak
  <2> QED
    BY <1>1, <2>1, <2>2 DEF Speak, Types, AskingInv, GrantsAreChosen
<1>2. CASE Ask
  <2>1. ChannelInv' /\ asked' = asked + 1 /\ asked' \in 1..MaxAsks
    BY <1>2, ChannelTaken DEF Ask, Types
  <2>2. CASE UNCHANGED given
    BY <1>2, <2>1, <2>2 DEF Ask, Types, AskingInv, HeardInv, GrantsAreChosen
  <2>3. CASE given' = [q \in DOMAIN given \cup {asked + 1} |-> IF q = asked + 1 THEN Default ELSE given[q]]
             /\ phase' = phase
    BY <1>2, <2>1, <2>3 DEF Ask, Types, AskingInv, HeardInv, GrantsAreChosen, Default, Options
  <2> QED
    BY <1>2, <2>2, <2>3 DEF Ask
<1>3. CASE EndTurn
  <2>1. ChannelInv'
    BY <1>3, ChannelTaken DEF EndTurn, Drained, Types
  <2>2. response'.req \in 0..reqs' /\ phase' \in {"serving", "ended"}
    BY <1>3 DEF EndTurn, Respond, Types
  <2> QED
    BY <1>3, <2>1, <2>2 DEF EndTurn, Drained, Drain, CancelWaits, Types, AskingInv, HeardInv, GrantsAreChosen
<1> QED
  BY <1>1, <1>2, <1>3

-----------------------------------------------------------------------------
(* The theorems. *)

LEMMA Inductive == Spec => []IInv
<1>1. Init => IInv
  <2> SUFFICES ASSUME Init
               PROVE  IInv
    OBVIOUS
  <2>1. Types
    <3>1. made \in [Requests \cup {"cancel"} -> Nat] /\ asked \in 0..MaxAsks
      BY AcpAssumption DEF Init
    <3>2. DOMAIN given = {} /\ chosen = {}
      BY DEF Init
    <3>3. response.req = 0 /\ reqs = 0 /\ phase = "serving" /\ turn = NoTurn /\ sessions = 0
      BY DEF Init
    <3>4. /\ closed \in BOOLEAN /\ negotiated \in BOOLEAN /\ cancelled \in BOOLEAN
          /\ stopped \in BOOLEAN /\ heard \in BOOLEAN
      BY DEF Init
    <3> QED
      BY <3>1, <3>2, <3>3, <3>4 DEF Types
  <2>2. ChannelInv
    BY DEF Init, ChannelInv
  <2> QED
    BY <2>1, <2>2 DEF Init, IInv, AskingInv, HeardInv, GrantsAreChosen
<1>2. IInv /\ [Next]_vars => IInv'
  <2>1. ASSUME IInv, UNCHANGED vars
        PROVE  IInv'
    BY <2>1 DEF IInv, vars, Types, ChannelInv, Genuine, AskingInv, HeardInv, GrantsAreChosen, NoTurn
  <2> QED
    BY <2>1, EditorStep, ServeStep, AnswersStep, TurnStep DEF Next
<1> QED
  BY <1>1, <1>2, PTL DEF Spec

\* The connection's state keeps its type whatever the editor sends and when: a
\* turn always has a prompt that was sent and a session that was made.
THEOREM TypeCorrect == Spec => []TypeOK
<1>1. IInv => TypeOK
  BY TypeParts DEF IInv
<1> QED
  BY <1>1, Inductive, PTL

\* An answer that comes late, after its question was cancelled, grants nothing
\* to a later question (acp.rs:153).
THEOREM GrantsAreTrue == Spec => []GrantsAreChosen
  BY Inductive, PTL DEF IInv

\* A turn that heard a cancel is answered "cancelled" (acp.rs:436).
THEOREM CancelsAreTrue == Spec => CancelsAreAnswered
<1>1. ASSUME IInv, [Next]_vars, turn # NoTurn, turn' = NoTurn, heard', phase' # "ended"
      PROVE  response' = [req |-> turn.req, what |-> "cancelled"]
  <2>1. EndTurn
    <3>1. ~BeginTurn
      BY <1>1 DEF IInv, Types, BeginTurn
    <3> QED
      BY <1>1, <3>1 DEF vars, Next, SendRequest, SendCancel, SendAnswer, Write, HangUp, Serve, ServeRequest,
                  ServeCancel, ServeAnswer, ServeEnds, Answers, TakeAnswer, TakeCancel, SkipFrame, AskEnds,
                  Speak, Ask
  <2>2. cancelled'
    BY <1>1, <2>1 DEF EndTurn, Drained, Drain, IInv, HeardInv
  <2> QED
    BY <1>1, <2>1, <2>2 DEF EndTurn, Respond, Outcome
<1>2. IInv /\ [Next]_vars =>
        [turn # NoTurn /\ turn' = NoTurn /\ heard' /\ phase' # "ended" =>
            response' = [req |-> turn.req, what |-> "cancelled"]]_vars
  BY <1>1
<1> QED
  BY <1>2, Inductive, PTL DEF Spec, CancelsAreAnswered

-----------------------------------------------------------------------------
(* The gate.  What must be followed is why a call may go on: what the rules *)
(* said of it, and whose word a remembered approval is.                    *)

GateTypesInv ==
    /\ verdict \in [G!Places -> [Keys -> {"none", "allow", "deny"}]]
    /\ said \in [G!Places -> [Keys -> {"none", "always", "never"}]]
    /\ at \in [Sessions -> G!Stages] /\ call \in [Sessions -> Calls \cup {G!NoCall}]
    /\ allowed \in [Sessions -> SUBSET {"rule", "call"}]
    /\ \A s \in Sessions : at[s] # "idle" => call[s] \in Calls

\* An approval that is remembered is the user's `always`, and the last word on its kind.
MemoryInv ==
    \A p \in G!Places, k \in Keys : verdict[p][k] = "allow" => said[p][k] = "always"

Passed(s) ==
    ~broken /\ G!Act(call[s]) # "block" /\ (G!Act(call[s]) = "ask" => "rule" \in allowed[s])

\* Whatever permission is looking at, the rules have passed.
PassedInv ==
    \A s \in Sessions :
        /\ at[s] = "rule asked" => ~broken /\ G!Act(call[s]) # "block"
        /\ at[s] \in {"permission", "asked"} => Passed(s)

GateInv == GateTypesInv /\ MemoryInv /\ PassedInv

\* A session's step moves no other session's call.
LEMMA OthersStay ==
    ASSUME GateTypesInv, NEW s \in Sessions, NEW stage \in G!Stages, G!Goes(s, stage)
    PROVE  /\ at' \in [Sessions -> G!Stages] /\ at'[s] = stage
           /\ \A t \in Sessions : t # s => at'[t] = at[t]
  BY DEF GateTypesInv, G!Goes

LEMMA PlaceTyped ==
    ASSUME NEW s \in Sessions
    PROVE  G!Place(s) \in G!Places
  BY DEF G!Place, G!Places

LEMMA KeyTyped ==
    ASSUME GateTypesInv, NEW s \in Sessions, at[s] # "idle"
    PROVE  call[s] \in Calls /\ call[s].key \in Keys
  BY GateAssumption DEF GateTypesInv

\* Between calls.
LEMMA CallStep ==
    ASSUME GateInv, NEW s \in Sessions,
           (\E c \in Calls : G!BeginCall(s, c)) \/ G!EndCall(s) \/ G!Retire(s)
    PROVE  GateInv'
<1> USE DEF GateInv
<1>1. ASSUME NEW c \in Calls, G!BeginCall(s, c)
      PROVE  GateInv'
  <2>1. at' = [at EXCEPT ![s] = "rules"] /\ call' = [call EXCEPT ![s] = c]
        /\ UNCHANGED <<broken, verdict, said, allowed>>
    BY <1>1 DEF G!BeginCall, G!Goes, G!config, G!memory
  <2>2. GateTypesInv'
    BY <2>1 DEF GateTypesInv, G!Stages
  <2>3. PassedInv'
    BY <2>1 DEF GateTypesInv, PassedInv, Passed
  <2> QED
    BY <2>1, <2>2, <2>3 DEF MemoryInv
<1>2. CASE G!EndCall(s)
  <2>1. at' = [at EXCEPT ![s] = "idle"] /\ call' = [call EXCEPT ![s] = G!NoCall]
        /\ allowed' = [allowed EXCEPT ![s] = {}] /\ UNCHANGED <<broken, verdict, said>>
    BY <1>2 DEF G!EndCall, G!Goes, G!config, G!memory
  <2>2. GateTypesInv'
    BY <2>1 DEF GateTypesInv, G!Stages
  <2>3. PassedInv'
    BY <2>1 DEF GateTypesInv, PassedInv, Passed
  <2> QED
    BY <2>1, <2>2, <2>3 DEF MemoryInv
<1>3. CASE G!Retire(s)
  <2>1. UNCHANGED <<broken, at, call, allowed>>
    BY <1>3 DEF G!Retire, G!config
  <2>2. \/ UNCHANGED <<verdict, said>>
        \/ verdict' = [verdict EXCEPT ![s] = G!Fresh("none")] /\ said' = [said EXCEPT ![s] = G!Fresh("none")]
    BY <1>3 DEF G!Retire, G!memory
  <2>3. GateTypesInv' /\ MemoryInv'
    <3>1. CASE UNCHANGED <<verdict, said>>
      BY <2>1, <3>1 DEF GateTypesInv, MemoryInv
    <3>2. CASE verdict' = [verdict EXCEPT ![s] = G!Fresh("none")] /\ said' = [said EXCEPT ![s] = G!Fresh("none")]
      <4> DEFINE clean == G!Fresh("none")
      <4>1. clean = [k \in Keys |-> "none"]
        BY DEF G!Fresh
      <4> HIDE DEF clean
      <4>2. /\ verdict' \in [G!Places -> [Keys -> {"none", "allow", "deny"}]]
            /\ said' \in [G!Places -> [Keys -> {"none", "always", "never"}]]
        BY <3>2, <4>1 DEF GateTypesInv, clean
      <4>3. \A p \in G!Places, k \in Keys : verdict'[p][k] = "allow" => verdict'[p] = verdict[p] /\ said'[p] = said[p]
        BY <3>2, <4>1 DEF GateTypesInv, clean
      <4> QED
        BY <2>1, <4>2, <4>3 DEF GateTypesInv, MemoryInv
    <3> QED
      BY <2>2, <3>1, <3>2
  <2> QED
    BY <2>1, <2>3 DEF PassedInv, Passed
<1> QED
  BY <1>1, <1>2, <1>3

\* The rules.
LEMMA RulesStep ==
    ASSUME GateInv, NEW s \in Sessions, G!Review(s) \/ \E a \in G!Answers : G!RuleAnswered(s, a)
    PROVE  GateInv' /\ at'[s] # "run" /\ \A t \in Sessions : t # s => at'[t] = at[t]
<1> USE DEF GateInv
<1>1. CASE G!Review(s)
  <2> DEFINE stage == CASE broken \/ G!Act(call[s]) = "block" -> "blocked"
                        [] ~broken /\ G!Act(call[s]) = "ask" -> "rule asked"
                        [] OTHER -> "permission"
  <2>1. at[s] = "rules" /\ G!Goes(s, stage) /\ UNCHANGED <<broken, verdict, call, said, allowed>>
    BY <1>1 DEF G!Review, G!config, G!memory
  <2>2. stage \in {"blocked", "rule asked", "permission"} /\
        (stage # "blocked" => ~broken /\ G!Act(call[s]) # "block") /\
        (stage = "permission" => G!Act(call[s]) # "ask")
    OBVIOUS
  <2> HIDE DEF stage
  <2>3. /\ at' \in [Sessions -> G!Stages] /\ at'[s] = stage
        /\ \A t \in Sessions : t # s => at'[t] = at[t]
    BY <2>1, <2>2, OthersStay DEF G!Stages
  <2>4. GateTypesInv'
    BY <2>1, <2>3 DEF GateTypesInv
  <2>5. PassedInv'
    BY <2>1, <2>2, <2>3 DEF PassedInv, Passed
  <2> QED
    BY <2>1, <2>2, <2>3, <2>4, <2>5 DEF MemoryInv
<1>2. ASSUME NEW a \in G!Answers, G!RuleAnswered(s, a)
      PROVE  GateInv' /\ at'[s] # "run" /\ \A t \in Sessions : t # s => at'[t] = at[t]
  <2> DEFINE stage == IF a = "yes" THEN "permission" ELSE "blocked"
  <2>1. /\ at[s] = "rule asked" /\ G!Goes(s, stage) /\ UNCHANGED <<broken, verdict, call, said>>
        /\ allowed' = [allowed EXCEPT ![s] = IF a = "yes" THEN @ \cup {"rule"} ELSE @]
    BY <1>2 DEF G!RuleAnswered, G!config, G!memory
  <2>2. /\ at' \in [Sessions -> G!Stages] /\ at'[s] = stage
        /\ \A t \in Sessions : t # s => at'[t] = at[t]
    BY <2>1, OthersStay DEF G!Stages
  <2>3. /\ allowed' \in [Sessions -> SUBSET {"rule", "call"}]
        /\ stage = "permission" => "rule" \in allowed'[s]
        /\ \A t \in Sessions : t # s => allowed'[t] = allowed[t]
    BY <2>1 DEF GateTypesInv
  <2>4. GateTypesInv'
    BY <2>1, <2>2, <2>3 DEF GateTypesInv
  <2>5. PassedInv'
    BY <2>1, <2>2, <2>3 DEF PassedInv, Passed
  <2> QED
    BY <2>1, <2>2, <2>4, <2>5 DEF MemoryInv
<1> QED
  BY <1>1, <1>2

\* What permission is concerned about.
LEMMA Unconcerned ==
    ASSUME NEW c, G!Concern(c) = "none"
    PROVE  c.key \in SafeKeys /\ ~c.escapes /\ ~c.credentials
  BY DEF G!Concern

LEMMA RememberedKinds ==
    ASSUME NEW c, G!Rememberable(c)
    PROVE  ~c.escapes /\ ~c.credentials
  BY DEF G!Rememberable, G!Concern

\* Why a call may run.
MayRun(c, answers, word) ==
    \/ c.key \in SafeKeys /\ ~c.escapes /\ ~c.credentials
    \/ "call" \in answers
    \/ word = "always" /\ ~c.escapes /\ ~c.credentials

\* What is remembered decides, or the user is asked.
LEMMA RecallStep ==
    ASSUME GateInv, NEW s \in Sessions, G!Recall(s)
    PROVE  /\ GateInv' /\ \A t \in Sessions : t # s => at'[t] = at[t]
           /\ at'[s] = "run" => Passed(s) /\ MayRun(call[s], allowed'[s], said[G!Place(s)][call[s].key])
<1> USE DEF GateInv
<1> DEFINE c == call[s]
           stage == CASE G!Concern(c) = "none" \/ G!Standing(s) = "allow" -> "run"
                      [] G!Standing(s) = "deny" -> "blocked"
                      [] OTHER -> "asked"
<1>1. at[s] = "permission" /\ G!Goes(s, stage) /\ UNCHANGED <<broken, verdict, call, said, allowed>>
  BY DEF G!Recall, G!config, G!memory
<1>2. G!Concern(c) = "none" => G!Standing(s) = "none"
  BY DEF G!Standing, G!Rememberable
<1>3. stage \in {"run", "blocked", "asked"} /\
      (stage = "run" => G!Concern(c) = "none" \/ G!Standing(s) = "allow")
  BY <1>2
<1> HIDE DEF stage
<1>4. at' \in [Sessions -> G!Stages] /\ at'[s] = stage /\ \A t \in Sessions : t # s => at'[t] = at[t]
  BY <1>1, <1>3, OthersStay DEF G!Stages
<1>5. GateTypesInv'
  BY <1>1, <1>4 DEF GateTypesInv
<1>6. PassedInv'
  BY <1>1, <1>3, <1>4 DEF PassedInv, Passed
<1>7. MemoryInv'
  BY <1>1 DEF MemoryInv
<1>8. Passed(s)
  BY <1>1 DEF PassedInv
<1>9. ASSUME stage = "run"
      PROVE  MayRun(c, allowed'[s], said[G!Place(s)][c.key])
  <2>1. CASE G!Concern(c) = "none"
    BY <2>1, Unconcerned DEF MayRun
  <2>2. CASE G!Standing(s) = "allow"
    <3>1. G!Rememberable(c) /\ verdict[G!Place(s)][c.key] = "allow"
      BY <2>2 DEF G!Standing
    <3>2. said[G!Place(s)][c.key] = "always"
      BY <1>1, <3>1, PlaceTyped, KeyTyped DEF MemoryInv
    <3> QED
      BY <3>1, <3>2, RememberedKinds DEF MayRun
  <2> QED
    BY <1>3, <1>9, <2>1, <2>2
<1> QED
  BY <1>4, <1>5, <1>6, <1>7, <1>8, <1>9

\* The user decides, and may have it remembered.
LEMMA AnsweredStep ==
    ASSUME GateInv, NEW s \in Sessions, NEW a \in G!Answers, G!Answered(s, a)
    PROVE  /\ GateInv' /\ \A t \in Sessions : t # s => at'[t] = at[t]
           /\ at'[s] = "run" => Passed(s) /\ "call" \in allowed'[s]
<1> USE DEF GateInv
<1> DEFINE c == call[s]
           p == G!Place(s)
           stage == CASE G!Approves(a) -> "run"
                      [] ~G!Approves(a) /\ G!Rememberable(c) -> "counting"
                      [] OTHER -> "blocked"
<1>1. /\ at[s] = "asked" /\ G!Goes(s, stage) /\ UNCHANGED <<broken, call>>
      /\ allowed' = [allowed EXCEPT ![s] = IF G!Approves(a) THEN @ \cup {"call"} ELSE @]
      /\ verdict' = G!Remembered(s, a)
  BY DEF G!Answered, G!config
<1>2. stage \in {"run", "counting", "blocked"} /\ (stage = "run" => G!Approves(a))
  OBVIOUS
<1>3. p \in G!Places /\ c \in Calls /\ c.key \in Keys
  BY <1>1, PlaceTyped, KeyTyped
<1>4. /\ said' \in [G!Places -> [Keys -> {"none", "always", "never"}]]
      /\ verdict' \in [G!Places -> [Keys -> {"none", "allow", "deny"}]]
      /\ MemoryInv'
  <2>1. CASE ~G!Rememberable(c) \/ a \in {"yes", "no"}
    <3>1. verdict' = verdict /\ said' = said
      BY <1>1, <2>1 DEF G!Remembered, G!Answered
    <3> QED
      BY <3>1 DEF GateTypesInv, MemoryInv
  <2>2. CASE G!Rememberable(c) /\ a = "always"
    <3>1. /\ verdict' = [verdict EXCEPT ![p][c.key] = "allow"]
          /\ said' = [said EXCEPT ![p][c.key] = "always"]
      BY <1>1, <2>2 DEF G!Remembered, G!Answered
    <3> QED
      BY <1>3, <3>1 DEF GateTypesInv, MemoryInv
  <2>3. CASE G!Rememberable(c) /\ a = "never"
    <3>1. /\ verdict' = [verdict EXCEPT ![p][c.key] = "deny"]
          /\ said' = [said EXCEPT ![p][c.key] = "never"]
      BY <1>1, <2>3 DEF G!Remembered, G!Answered
    <3> QED
      BY <1>3, <3>1 DEF GateTypesInv, MemoryInv
  <2> QED
    BY <2>1, <2>2, <2>3 DEF G!Answers
<1> HIDE DEF stage
<1>5. at' \in [Sessions -> G!Stages] /\ at'[s] = stage /\ \A t \in Sessions : t # s => at'[t] = at[t]
  BY <1>1, <1>2, OthersStay DEF G!Stages
<1>6. /\ allowed' \in [Sessions -> SUBSET {"rule", "call"}]
      /\ G!Approves(a) => "call" \in allowed'[s]
      /\ \A t \in Sessions : t # s => allowed'[t] = allowed[t]
  BY <1>1 DEF GateTypesInv
<1>7. GateTypesInv'
  BY <1>1, <1>4, <1>5, <1>6 DEF GateTypesInv
<1>8. PassedInv'
  BY <1>1, <1>2, <1>5, <1>6 DEF PassedInv, Passed
<1>9. Passed(s)
  BY <1>1 DEF PassedInv
<1> QED
  BY <1>2, <1>4, <1>5, <1>6, <1>7, <1>8, <1>9

\* Refusals are counted, and settle the kind after enough of them.
LEMMA CountStep ==
    ASSUME GateInv, NEW s \in Sessions, G!CountRead(s) \/ G!CountWrite(s) \/ G!StandingDeny(s)
    PROVE  GateInv' /\ at'[s] # "run" /\ \A t \in Sessions : t # s => at'[t] = at[t]
<1> USE DEF GateInv
<1>1. /\ \E stage \in {"counted", "standing", "blocked"} : G!Goes(s, stage)
      /\ UNCHANGED <<broken, call, said, allowed>> /\ at[s] # "idle"
      /\ verdict' = verdict \/ verdict' = [verdict EXCEPT ![G!Place(s)][call[s].key] = "deny"]
  BY DEF G!CountRead, G!CountWrite, G!StandingDeny, G!config, G!memory
<1>2. PICK stage \in {"counted", "standing", "blocked"} : G!Goes(s, stage)
  BY <1>1
<1>3. at' \in [Sessions -> G!Stages] /\ at'[s] = stage /\ \A t \in Sessions : t # s => at'[t] = at[t]
  BY <1>2, OthersStay DEF G!Stages
<1>4. GateTypesInv' /\ MemoryInv'
  <2>1. G!Place(s) \in G!Places /\ call[s].key \in Keys
    BY <1>1, PlaceTyped, KeyTyped
  <2>2. /\ verdict' \in [G!Places -> [Keys -> {"none", "allow", "deny"}]]
        /\ \A p \in G!Places, k \in Keys : verdict'[p][k] = "allow" => verdict[p][k] = "allow"
    <3>1. CASE verdict' = verdict
      BY <3>1 DEF GateTypesInv
    <3>2. CASE verdict' = [verdict EXCEPT ![G!Place(s)][call[s].key] = "deny"]
      BY <2>1, <3>2 DEF GateTypesInv
    <3> QED
      BY <1>1, <3>1, <3>2
  <2> QED
    BY <1>1, <1>3, <2>2 DEF GateTypesInv, MemoryInv
<1>5. PassedInv'
  BY <1>1, <1>2, <1>3 DEF PassedInv, Passed
<1> QED
  BY <1>2, <1>3, <1>4, <1>5

LEMMA GateInductive == G!Spec => []GateInv
<1>1. G!Init => GateInv
  BY DEF G!Init, GateInv, GateTypesInv, MemoryInv, PassedInv, G!Fresh, G!Stages
<1>2. GateInv /\ [G!Next]_(G!vars) => GateInv'
  <2>1. ASSUME GateInv, UNCHANGED G!vars
        PROVE  GateInv'
    BY <2>1 DEF G!vars, G!config, G!memory, GateInv, GateTypesInv, MemoryInv, PassedInv, Passed
  <2> QED
    BY <2>1, CallStep, RulesStep, RecallStep, AnsweredStep, CountStep DEF G!Next
<1> QED
  BY <1>1, <1>2, PTL DEF G!Spec

\* A call runs only as its user allowed, for any sessions that share a memory or do not,
\* any rules and any calls (interceptor-permission, interceptor-guardrails): no rule blocks
\* it, one that asks was answered for it, and an `always` covers neither an escape nor a
\* credential file.
THEOREM CallsAreAllowed == G!Spec => RunsAreAllowed
<1>1. ASSUME GateInv, [G!Next]_(G!vars), NEW s \in Sessions, at'[s] = "run", at[s] # "run"
      PROVE  Passed(s) /\ MayRun(call[s], allowed'[s], said[G!Place(s)][call[s].key])
  <2>1. PICK t \in Sessions :
          \/ \E c \in Calls : G!BeginCall(t, c)
          \/ G!EndCall(t) \/ G!Retire(t)
          \/ G!Review(t) \/ \E a \in G!Answers : G!RuleAnswered(t, a)
          \/ G!Recall(t) \/ \E a \in G!Answers : G!Answered(t, a)
          \/ G!CountRead(t) \/ G!CountWrite(t) \/ G!StandingDeny(t)
    BY <1>1 DEF G!Next, G!vars
  <2>2. ~((\E c \in Calls : G!BeginCall(t, c)) \/ G!EndCall(t) \/ G!Retire(t))
    BY <1>1 DEF G!BeginCall, G!EndCall, G!Retire, G!Goes, GateInv, GateTypesInv
  <2>3. CASE G!Review(t) \/ \E a \in G!Answers : G!RuleAnswered(t, a)
    BY <1>1, <2>3, RulesStep
  <2>4. CASE G!Recall(t)
    BY <1>1, <2>4, RecallStep
  <2>5. ASSUME NEW a \in G!Answers, G!Answered(t, a)
        PROVE  Passed(s) /\ MayRun(call[s], allowed'[s], said[G!Place(s)][call[s].key])
    BY <1>1, <2>5, AnsweredStep DEF MayRun
  <2>6. CASE G!CountRead(t) \/ G!CountWrite(t) \/ G!StandingDeny(t)
    BY <1>1, <2>6, CountStep
  <2> QED
    BY <2>1, <2>2, <2>3, <2>4, <2>5, <2>6
<1>2. GateInv /\ [G!Next]_(G!vars) =>
        [\A s \in Sessions : at'[s] = "run" /\ at[s] # "run" =>
            LET c == call[s] IN
            /\ ~broken /\ G!Act(c) # "block" /\ (G!Act(c) = "ask" => "rule" \in allowed[s])
            /\ \/ c.key \in SafeKeys /\ ~c.escapes /\ ~c.credentials
               \/ "call" \in allowed'[s]
               \/ said[G!Place(s)][c.key] = "always" /\ ~c.escapes /\ ~c.credentials]_(G!vars)
  BY <1>1 DEF Passed, MayRun
<1> QED
  BY <1>2, GateInductive, PTL DEF G!Spec, RunsAreAllowed, G!RunsAreAllowed

-----------------------------------------------------------------------------
(* A request.  What was sent is bounded by the hops begun, and what may be  *)
(* connected to was checked for the very target of this hop.               *)

Departed == [host : E!Targets, address : E!Classes, method : E!Methods, body : BOOLEAN,
              secret : SUBSET Secrets, hop : Nat]

HopTypes ==
    /\ hop \in Nat /\ sent \subseteq Departed /\ resolves \in [Hosts -> SUBSET E!Classes]
    /\ target \in E!Targets /\ method \in E!Methods /\ body \in BOOLEAN
    /\ secret \subseteq Secrets

\* A hop is counted when it is checked, and sends once.
HopsInv ==
    /\ \A r \in sent : r.hop <= hop /\ (hopAt = "connect" => r.hop < hop)
    /\ hopAt = "idle" => hop = 0 /\ sent = {}
    /\ hopAt \in {"connect", "wait"} => hop >= 1

\* The credentials a redirect strips are there for the first hop, and the body while nothing changed the method.
SecretInv ==
    /\ hopAt = "check" /\ secret \cap E!Stripped # {} => hop = 0
    /\ hopAt \in {"connect", "wait"} /\ secret \cap E!Stripped # {} => hop = 1
    /\ hopAt \in {"check", "connect", "wait"} /\ body => \A r \in sent : r.body /\ r.method = method

\* What may be connected to: public addresses that were checked, an address that is public
\* itself, or what the operator named.
PinnedInv ==
    hopAt = "connect" =>
        \/ pinned \subseteq {"public"}
        \/ pinned = E!AsNamed /\ target \in Allowed
        \/ pinned = E!AsNamed /\ target \in DOMAIN Literals /\ Literals[target] = "public"

HopInv == HopTypes /\ HopsInv /\ SecretInv /\ PinnedInv /\ SentAsAllowed

\* What the check of a hop lets through.
LEMMA Destined ==
    ASSUME HopTypes, E!Destination # {}
    PROVE  \/ E!Destination \subseteq {"public"}
           \/ E!Destination = E!AsNamed /\ target \in Allowed
           \/ E!Destination = E!AsNamed /\ target \in DOMAIN Literals /\ Literals[target] = "public"
<1>1. CASE target \in Allowed
  <2>1. E!Destination \in {{}, E!AsNamed}
    BY <1>1 DEF E!Destination
  <2> QED
    BY <1>1, <2>1
<1>2. CASE target \notin Allowed /\ target = "none"
  <2>1. E!Destination = {} \/ (E!Destination = E!AsNamed /\ target \in DOMAIN Literals /\ Literals[target] = "public")
    BY <1>2 DEF E!Destination
  <2> QED
    BY <2>1
<1>3. CASE target \notin Allowed /\ target # "none" /\ target \in DOMAIN Literals
  BY <1>3 DEF E!Destination
<1>4. CASE target \notin Allowed /\ target # "none" /\ target \notin DOMAIN Literals
  <2>1. target \in Hosts /\ resolves[target] \subseteq E!Classes
    BY <1>4 DEF HopTypes, E!Targets
  <2>2. E!Destination = IF "private" \in resolves[target] THEN {} ELSE resolves[target]
    BY <1>4 DEF E!Destination
  <2> QED
    BY <2>1, <2>2 DEF E!Classes
<1> QED
  BY <1>1, <1>2, <1>3, <1>4

\* What a hop connects to is public, or the operator's.
LEMMA Reached ==
    ASSUME HopTypes, PinnedInv, hopAt = "connect", NEW address, address \in E!Reachable
    PROVE  address = "public" \/ target \in Allowed
<1>1. CASE pinned \subseteq {"public"}
  <2>1. pinned # E!AsNamed
    BY <1>1 DEF E!AsNamed
  <2> QED
    BY <1>1, <2>1 DEF E!Reachable
<1>2. CASE pinned = E!AsNamed /\ target \in DOMAIN Literals /\ Literals[target] = "public"
  BY <1>2 DEF E!Reachable, E!Resolved
<1> QED
  BY <1>1, <1>2 DEF PinnedInv

LEMMA ConnectStep ==
    ASSUME HopInv, NEW address \in E!Classes, E!Connect(address)
    PROVE  HopInv'
<1> USE DEF HopInv
<1> DEFINE new == [host |-> target, address |-> address, method |-> method, body |-> body,
                   secret |-> secret, hop |-> hop]
<1>1. /\ hopAt = "connect" /\ hopAt' = "wait" /\ sent' = sent \cup {new}
      /\ UNCHANGED <<resolves, target, method, body, secret, hop>>
  BY DEF E!Connect, E!request
<1>2. /\ new \in Departed /\ new.host = target /\ new.address = address /\ new.method = method
      /\ new.body = body /\ new.secret = secret /\ new.hop = hop
  BY DEF HopTypes, Departed
<1>3. address = "public" \/ target \in Allowed
  BY <1>1, Reached DEF E!Connect
<1>4. \A r \in sent : r.hop \in Nat /\ r.hop < hop
  BY <1>1 DEF HopTypes, HopsInv, Departed
<1> HIDE DEF new
<1>5. HopTypes'
  BY <1>1, <1>2 DEF HopTypes
<1>6. HopsInv'
  BY <1>1, <1>2, <1>4 DEF HopsInv, HopTypes
<1>7. SecretInv'
  <2>1. hopAt' \in {"connect", "wait"} /\ secret' \cap E!Stripped # {} => hop' = 1
    BY <1>1 DEF SecretInv
  <2>2. body' => \A r \in sent' : r.body /\ r.method = method'
    BY <1>1, <1>2 DEF SecretInv
  <2> QED
    BY <1>1, <2>1, <2>2 DEF SecretInv
<1>8. SentAsAllowed'
  <2>1. ASSUME NEW r \in sent'
        PROVE  (r.address = "public" \/ r.host \in Allowed) /\ (r.secret \cap E!Stripped # {} => r.hop = 1)
    <3>1. CASE r \in sent
      BY <3>1 DEF SentAsAllowed, E!SentAsAllowed
    <3>2. CASE r = new
      BY <1>1, <1>2, <1>3, <3>2 DEF SecretInv
    <3> QED
      BY <1>1, <3>1, <3>2
  <2>2. ASSUME NEW r \in sent', NEW q \in sent', r.body, q.hop < r.hop
        PROVE  q.body /\ q.method = r.method
    <3>1. CASE r \in sent /\ q \in sent
      BY <2>2, <3>1 DEF SentAsAllowed, E!SentAsAllowed
    <3>2. CASE r = new /\ q \in sent
      BY <1>1, <1>2, <2>2, <3>2 DEF SecretInv
    <3>3. CASE q = new
      <4>1. r.hop \in Nat /\ r.hop <= hop /\ hop \in Nat
        BY <1>1, <1>2, <1>4 DEF HopTypes
      <4> QED
        BY <1>2, <2>2, <3>3, <4>1
    <3> QED
      BY <1>1, <3>1, <3>2, <3>3
  <2> QED
    BY <2>1, <2>2 DEF SentAsAllowed, E!SentAsAllowed
<1> QED
  BY <1>1, <1>5, <1>6, <1>7, <1>8 DEF PinnedInv

\* The other steps send nothing.
LEMMA SilentStep ==
    ASSUME HopInv, [E!Next]_(E!vars), ~\E a \in E!Classes : E!Connect(a)
    PROVE  HopInv'
<1> USE DEF HopInv
<1>1. sent' = sent
  BY DEF E!Next, E!Host, E!vars, E!Rebind, E!Fetch, E!Check, E!TooManyRedirects, E!ExchangeFails,
         E!Answered, E!Redirect, E!Fails
<1>2. SentAsAllowed'
  BY <1>1 DEF SentAsAllowed, E!SentAsAllowed
<1>3. ASSUME NEW h \in Hosts, NEW classes \in SUBSET E!Classes, E!Rebind(h, classes)
      PROVE  HopInv'
  BY <1>1, <1>2, <1>3 DEF E!Rebind, E!request, HopTypes, HopsInv, SecretInv, PinnedInv
<1>4. ASSUME NEW h \in E!Targets, NEW m \in E!Methods, NEW b \in BOOLEAN, E!Fetch(h, m, b)
      PROVE  HopInv'
  BY <1>1, <1>2, <1>4 DEF E!Fetch, HopTypes, HopsInv, SecretInv, PinnedInv
<1>5. CASE E!Check
  <2>1. hopAt = "check" /\ hop' = hop + 1 /\ UNCHANGED <<resolves, target, method, body, secret, sent>>
    BY <1>5 DEF E!Check, E!Fails, E!request
  <2>2. \/ hopAt' = "failed"
        \/ hopAt' = "connect" /\ pinned' = E!Destination /\ E!Destination # {}
    BY <1>5 DEF E!Check, E!Fails
  <2>3. HopTypes'
    BY <2>1 DEF HopTypes
  <2>4. HopsInv' /\ SecretInv'
    BY <2>1, <2>2 DEF HopTypes, HopsInv, SecretInv, Departed
  <2>5. PinnedInv'
    BY <2>1, <2>2, Destined DEF PinnedInv
  <2> QED
    BY <1>2, <2>3, <2>4, <2>5
<1>6. CASE E!TooManyRedirects \/ E!ExchangeFails \/ E!Answered
  <2>1. /\ hopAt' \in {"failed", "ok"} /\ hopAt # "idle"
        /\ UNCHANGED <<resolves, target, method, body, secret, hop, sent>>
    BY <1>6 DEF E!TooManyRedirects, E!ExchangeFails, E!Answered, E!Fails, E!request
  <2> QED
    BY <1>2, <2>1 DEF HopTypes, HopsInv, SecretInv, PinnedInv
<1>7. ASSUME NEW h \in E!Targets, NEW seeOther \in BOOLEAN, E!Redirect(h, seeOther)
      PROVE  HopInv'
  <2>1. /\ hopAt = "wait" /\ hopAt' = "check" /\ target' = h /\ secret' = secret \ E!Stripped
        /\ UNCHANGED <<resolves, hop, sent>>
        /\ (method' = "GET" /\ body' = FALSE) \/ UNCHANGED <<method, body>>
    BY <1>7 DEF E!Redirect
  <2>2. HopTypes'
    BY <2>1 DEF HopTypes, E!Methods
  <2>3. SecretInv'
    BY <2>1 DEF SecretInv
  <2> QED
    BY <1>2, <2>1, <2>2, <2>3 DEF HopsInv, PinnedInv
<1>8. CASE UNCHANGED E!vars
  BY <1>2, <1>8 DEF E!vars, HopTypes, HopsInv, SecretInv, PinnedInv
<1> QED
  BY <1>3, <1>4, <1>5, <1>6, <1>7, <1>8 DEF E!Next, E!Host

\* A request leaves only for a public address or an origin the operator named, however many
\* names there are and whenever they change what they resolve to; what it carries in one
\* of the three headers that a redirect strips goes to its first target alone, and its
\* body while the method is the one it was given for (http.rs, fetch_within; egress.rs,
\* EgressPolicy::check).
THEOREM RequestsGoWhereTheyMay == E!Spec => []SentAsAllowed
<1>1. E!Init => HopInv
  <2> SUFFICES ASSUME E!Init
               PROVE  HopInv
    OBVIOUS
  <2> QED
    BY DEF E!Init, HopInv, HopTypes, HopsInv, SecretInv, PinnedInv, SentAsAllowed, E!SentAsAllowed,
           E!Targets, E!Methods, E!Classes
<1>2. HopInv /\ [E!Next]_(E!vars) => HopInv'
  BY ConnectStep, SilentStep
<1> QED
  BY <1>1, <1>2, PTL DEF E!Spec, HopInv

-----------------------------------------------------------------------------
(* The guest that calls MCP servers. *)

MadeTypes ==
    /\ request = [id |-> request.id, named |-> request.named, at |-> request.at, tool |-> request.tool,
                  waited |-> request.waited, part |-> request.part]
    /\ nextId \in Nat \ {0} /\ request.id \in 0..nextId - 1
    /\ request.waited \in 0..Budget - 1 /\ request.part \in BOOLEAN
    /\ reply \in [is : {"pending", "failed", "ok"}, id : Nat, of : M!Methods \cup {"note"}]
    /\ reply.is = "pending" => reply = M!Pending
    /\ callAt \in M!Methods <=> request.id # 0
    /\ request.id = 0 => request = M!NoCall
    /\ M!Reading => request.at \in M!Servers

GuestTypesInv ==
    /\ callAt \in {"connect", "idle"} \cup M!Methods
    /\ known \in [M!Servers -> [up : BOOLEAN, tools : SUBSET Tools]]
    /\ place \in 0..Len(Configured) /\ calls \in 0..MaxToolCalls /\ notes \in 0..MaxNotes
    /\ Http \subseteq alive /\ alive \subseteq M!Servers /\ strayed \subseteq M!Servers
    /\ inbox \in [M!Servers -> SUBSET [id : Nat, of : M!Methods]]
    /\ pipe \in [M!Servers -> Seq(M!Line)]

\* A server that never strayed owes what is being asked of it, once, or nothing.
Owes(s) ==
    IF M!Reading /\ request.at = s
      THEN /\ \A r \in inbox[s] : r = [id |-> request.id, of |-> callAt]
           /\ inbox[s] # {} => pipe[s] = <<>>
           /\ pipe[s] # <<>> =>
                pipe[s] = <<pipe[s][1]>> /\ pipe[s][1].id = request.id /\ pipe[s][1].of = callAt
      ELSE s \in alive => inbox[s] = {} /\ pipe[s] = <<>>

InStep == \A s \in M!Servers \ (Http \cup strayed) : Owes(s)

\* A server that init has not come to has neither run nor been asked.
Untouched(i) ==
    (i > place + 1 \/ (i = place + 1 /\ callAt = "connect")) /\ Configured[i] \notin Http =>
        /\ Configured[i] \notin alive
        /\ inbox[Configured[i]] = {} /\ pipe[Configured[i]] = <<>>

InOrderInv ==
    /\ \A i \in DOMAIN Configured : Untouched(i)
    /\ callAt \in {"initialize", "tools/list"} => place < Len(Configured)
    /\ callAt \in {"idle", "tools/call"} => place = Len(Configured)

\* The reply that was taken is the request's, or its server has strayed.
OwnTaken == M!Done => (reply.id = request.id /\ reply.of = callAt) \/ request.at \in strayed

GuestInv == MadeTypes /\ GuestTypesInv /\ InStep /\ InOrderInv /\ OwnTaken

LEMMA ConfiguredFacts ==
    /\ Configured \in Seq(M!Servers) /\ DOMAIN Configured = 1..Len(Configured)
    /\ \A i \in DOMAIN Configured : Configured[i] \in M!Servers
    /\ \A i, j \in DOMAIN Configured : Configured[i] = Configured[j] => i = j
BY GuestAssumption DEF M!Servers, M!ToSet

\* A request is made of a server that owes nothing, or of one that is gone.
LEMMA AskStep ==
    ASSUME GuestInv, NEW m \in M!Methods, NEW named, NEW to, NEW tool, NEW running \in SUBSET M!Servers,
           M!Ask(m, named, to, tool, running), ~M!Reading,
           running = alive \/ (running = alive \cup {to} /\ to \in M!Servers /\ inbox[to] = {} /\ pipe[to] = <<>>),
           UNCHANGED <<pipe, strayed>>, alive' = running
    PROVE  MadeTypes' /\ InStep' /\ OwnTaken'
           /\ inbox' \in [M!Servers -> SUBSET [id : Nat, of : M!Methods]]
           /\ \A s \in M!Servers : s # to => inbox'[s] = inbox[s]
<1>1. /\ callAt' = m /\ nextId' = nextId + 1
      /\ request' = [id |-> nextId, named |-> named, at |-> to, tool |-> tool, waited |-> 0, part |-> FALSE]
      /\ reply' = IF to \in running THEN M!Pending ELSE M!Failed
      /\ inbox' = IF to \in running
                  THEN [inbox EXCEPT ![to] = @ \cup {[id |-> nextId, of |-> m]}] ELSE inbox
  BY DEF M!Ask
<1>2. MadeTypes'
  <2>1. Budget \in Nat \ {0} /\ nextId \in Nat \ {0}
    BY GuestAssumption DEF GuestInv, MadeTypes
  <2>2. M!Reading' => to \in running
    BY <1>1 DEF M!Reading, M!Failed, M!Pending
  <2>3. M!Reading' => request'.at \in M!Servers
    BY <1>1, <2>2
  <2>4. /\ reply' \in [is : {"pending", "failed", "ok"}, id : Nat, of : M!Methods \cup {"note"}]
        /\ reply'.is = "pending" => reply' = M!Pending
    BY <1>1 DEF M!Failed, M!Pending
  <2>5. /\ request' = [id |-> request'.id, named |-> request'.named, at |-> request'.at,
                       tool |-> request'.tool, waited |-> request'.waited, part |-> request'.part]
        /\ request'.id \in 0..nextId' - 1 /\ nextId' \in Nat \ {0} /\ request'.id # 0
        /\ request'.waited \in 0..Budget - 1 /\ request'.part \in BOOLEAN
    BY <1>1, <2>1
  <2> QED
    BY <1>1, <2>3, <2>4, <2>5 DEF MadeTypes
<1>3. inbox' \in [M!Servers -> SUBSET [id : Nat, of : M!Methods]]
  <2>1. inbox \in [M!Servers -> SUBSET [id : Nat, of : M!Methods]] /\ nextId \in Nat
    BY DEF GuestInv, GuestTypesInv, MadeTypes
  <2> QED
    BY <1>1, <2>1
<1>4. \A s \in M!Servers : s # to => inbox'[s] = inbox[s]
  BY <1>1 DEF GuestInv, GuestTypesInv
<1>5. OwnTaken'
  BY <1>1 DEF OwnTaken, M!Done, M!Pending, M!Failed
<1>6. InStep'
  <2> SUFFICES ASSUME NEW s \in M!Servers, s \notin Http, s \notin strayed
               PROVE  Owes(s)'
    BY DEF InStep
  <2>0. Owes(s) /\ ~M!Reading
    BY DEF GuestInv, InStep
  <2>1. CASE s = to /\ to \in running
    <3>1. inbox[s] = {} /\ pipe[s] = <<>>
      BY <2>0, <2>1 DEF Owes
    <3>2. inbox'[s] = {[id |-> nextId, of |-> m]}
      BY <1>1, <2>1, <3>1 DEF GuestInv, GuestTypesInv
    <3>3. M!Reading' /\ request'.at = s /\ request'.id = nextId
      BY <1>1, <2>1 DEF M!Reading
    <3> QED
      BY <1>1, <3>1, <3>2, <3>3 DEF Owes
  <2>2. CASE s # to
    BY <1>1, <1>4, <2>0, <2>2 DEF Owes
  <2>3. CASE s = to /\ to \notin running
    <3>1. ~M!Reading'
      BY <1>1, <2>3 DEF M!Reading, M!Pending, M!Failed
    <3> QED
      BY <2>3, <3>1 DEF Owes
  <2> QED
    BY <2>1, <2>2, <2>3
<1> QED
  BY <1>2, <1>3, <1>4, <1>5, <1>6

\* What is left behind a line is lines; and behind the only one there is nothing.
LEMMA BehindFacts ==
    ASSUME NEW lines \in Seq(M!Line), lines # <<>>
    PROVE  /\ Head(lines) \in M!Line /\ Head(lines) = lines[1]
           /\ M!Behind(lines) \subseteq Seq(M!Line)
           /\ lines = <<lines[1]>> => M!Behind(lines) = {<<>>}
<1> DEFINE whole == {SubSeq(lines, n + 1, Len(lines)) : n \in 1..Len(lines)}
<1>1. whole \subseteq Seq(M!Line)
  OBVIOUS
<1>2. ASSUME NEW rest \in Seq(M!Line), rest # <<>>
      PROVE  [rest EXCEPT ![1].cut = TRUE] \in Seq(M!Line)
  <2>1. 1 \in 1..Len(rest) /\ rest[1] \in M!Line
    BY <1>2
  <2>2. [rest[1] EXCEPT !.cut = TRUE] \in M!Line
    BY <2>1 DEF M!Line
  <2> QED
    BY <1>2, <2>1, <2>2
<1>3. M!Behind(lines) = whole \cup {[rest EXCEPT ![1].cut = TRUE] : rest \in whole \ {<<>>}}
  BY DEF M!Behind
<1>4. lines = <<lines[1]>> => whole = {<<>>}
  <2> SUFFICES ASSUME lines = <<lines[1]>> PROVE whole = {<<>>}
    OBVIOUS
  <2>1. Len(lines) = 1
    OBVIOUS
  <2>2. SubSeq(lines, 2, 1) = <<>>
    OBVIOUS
  <2>3. whole = {SubSeq(lines, 2, 1)}
    <3>1. 1..Len(lines) = {1}
      BY <2>1
    <3> QED
      BY <2>1, <3>1
  <2> QED
    BY <2>2, <2>3
<1> HIDE DEF whole
<1> QED
  BY <1>1, <1>2, <1>3, <1>4

\* A server that init has not come to is not one that runs or is read from.
LEMMA NotUntouched ==
    ASSUME GuestInv, NEW s \in M!Servers, s \in alive \/ inbox[s] # {} \/ pipe[s] # <<>>,
           NEW i \in DOMAIN Configured, Configured[i] = s
    PROVE  Configured[i] \in Http \/ ~(i > place + 1 \/ (i = place + 1 /\ callAt = "connect"))
BY DEF GuestInv, InOrderInv, Untouched

LEMMA ReadPartStep == GuestInv /\ M!ReadPart => GuestInv'
<1> SUFFICES ASSUME GuestInv, M!ReadPart PROVE GuestInv'
  OBVIOUS
<1>1. /\ request' = [id |-> request.id, named |-> request.named, at |-> request.at, tool |-> request.tool,
                     waited |-> request.waited, part |-> TRUE]
      /\ UNCHANGED <<callAt, known, place, reply, nextId, alive, inbox, pipe, notes, calls, strayed>>
  BY DEF M!ReadPart, M!server, GuestInv, MadeTypes
<1>2. M!Reading /\ M!Reading' /\ ~M!Done /\ ~M!Done'
  BY <1>1 DEF M!ReadPart, M!Child, M!Reading, M!Done, M!Pending
<1>3. MadeTypes'
  BY <1>1, <1>2 DEF GuestInv, MadeTypes, M!Reading, M!Pending, M!Methods
<1>4. InStep'
  BY <1>1, <1>2 DEF GuestInv, InStep, Owes
<1> QED
  BY <1>1, <1>2, <1>3, <1>4 DEF GuestInv, GuestTypesInv, InOrderInv, Untouched, OwnTaken

\* Once a request is over nothing is read: every server that has not strayed is in step.
LEMMA OverStep ==
    ASSUME GuestInv, M!Reading, ~M!Reading', NEW to, to = request.at,
           strayed \subseteq strayed', alive' = alive,
           \A s \in M!Servers : s # to => inbox'[s] = inbox[s] /\ pipe'[s] = pipe[s],
           to \in Http \/ to \in strayed' \/ to \notin alive \/ (inbox'[to] = {} /\ pipe'[to] = <<>>)
    PROVE  InStep'
<1> SUFFICES ASSUME NEW s \in M!Servers, s \notin Http, s \notin strayed' PROVE Owes(s)'
  BY DEF InStep
<1>1. Owes(s)
  BY DEF GuestInv, InStep
<1> QED
  BY <1>1 DEF Owes

LEMMA ReadLineStep == GuestInv /\ M!ReadLine => GuestInv'
<1> SUFFICES ASSUME GuestInv, M!ReadLine PROVE GuestInv'
  OBVIOUS
<1> DEFINE s == request.at
<1>0. /\ M!Reading /\ s \in M!Servers /\ s \notin Http /\ pipe[s] # <<>> /\ pipe[s] \in Seq(M!Line)
      /\ MadeTypes /\ GuestTypesInv /\ InStep /\ InOrderInv
  BY DEF M!ReadLine, M!Child, M!Lines, GuestInv, MadeTypes, GuestTypesInv
<1>1. /\ UNCHANGED <<callAt, known, place, request, nextId, alive, inbox, calls, notes, strayed>>
      /\ reply' = IF Head(pipe[s]).cut THEN M!Failed
                  ELSE [is |-> "ok", id |-> Head(pipe[s]).id, of |-> Head(pipe[s]).of]
  BY DEF M!ReadLine, M!Lines
<1>2. PICK rest \in M!Behind(pipe[s]) : pipe' = [pipe EXCEPT ![s] = rest]
  BY DEF M!ReadLine, M!Lines
<1> HIDE DEF s
<1>3. /\ Head(pipe[s]) \in M!Line /\ Head(pipe[s]) = pipe[s][1]
      /\ M!Behind(pipe[s]) \subseteq Seq(M!Line)
      /\ pipe[s] = <<pipe[s][1]>> => M!Behind(pipe[s]) = {<<>>}
  BY <1>0, BehindFacts
<1>4. pipe' \in [M!Servers -> Seq(M!Line)] /\ \A r \in M!Servers : r # s => pipe'[r] = pipe[r]
  BY <1>0, <1>2, <1>3 DEF GuestTypesInv
<1>5. ~M!Reading' /\ reply' \in [is : {"pending", "failed", "ok"}, id : Nat, of : M!Methods \cup {"note"}]
      /\ reply'.is # "pending"
  BY <1>1, <1>3 DEF M!Reading, M!Pending, M!Failed, M!Line
<1>6. s \notin strayed => inbox[s] = {} /\ pipe[s] = <<pipe[s][1]>>
                          /\ pipe[s][1].id = request.id /\ pipe[s][1].of = callAt
  <2>1. s \notin strayed => Owes(s)
    BY <1>0 DEF InStep
  <2> QED
    BY <1>0, <2>1 DEF Owes, s
<1>7. InStep'
  <2>1. s \in strayed \/ (inbox'[s] = {} /\ pipe'[s] = <<>>)
    BY <1>0, <1>1, <1>2, <1>3, <1>6 DEF GuestTypesInv
  <2> QED
    BY <1>0, <1>1, <1>4, <1>5, <2>1, OverStep DEF s
<1>8. OwnTaken'
  <2> SUFFICES ASSUME M!Done', s \notin strayed PROVE reply'.id = request.id /\ reply'.of = callAt
    BY <1>1 DEF OwnTaken, s
  <2> QED
    BY <1>1, <1>3, <1>6 DEF M!Done, M!Failed
<1>9. InOrderInv'
  <2>1. ASSUME NEW i \in DOMAIN Configured PROVE Untouched(i)'
    <3>1. CASE Configured[i] = s
      <4>1. Configured[i] \in Http \/ ~(i > place + 1 \/ (i = place + 1 /\ callAt = "connect"))
        BY <1>0, <3>1, NotUntouched
      <4> QED
        BY <1>1, <4>1 DEF Untouched
    <3>2. CASE Configured[i] # s
      <4>1. Configured[i] \in M!Servers
        BY <2>1, ConfiguredFacts
      <4> QED
        BY <1>0, <1>1, <1>4, <2>1, <3>2, <4>1 DEF InOrderInv, Untouched
    <3> QED
      BY <3>1, <3>2
  <2> QED
    BY <1>0, <1>1, <2>1 DEF InOrderInv
<1>10. MadeTypes'
  BY <1>0, <1>1, <1>5 DEF MadeTypes
<1>11. GuestTypesInv'
  BY <1>0, <1>1, <1>4 DEF GuestTypesInv
<1> QED
  BY <1>7, <1>8, <1>9, <1>10, <1>11 DEF GuestInv

LEMMA ReadNothingStep == GuestInv /\ M!ReadNothing => GuestInv'
<1> SUFFICES ASSUME GuestInv, M!ReadNothing PROVE GuestInv'
  OBVIOUS
<1> DEFINE s == request.at
           left == s \in alive /\ ~M!Spent
           owed == s \in alive /\ M!Spent
<1>0. /\ M!Reading /\ s \in M!Servers /\ s \notin Http /\ pipe[s] \in Seq(M!Line)
      /\ MadeTypes /\ GuestTypesInv /\ InStep /\ InOrderInv
  BY DEF M!ReadNothing, M!Child, GuestInv, MadeTypes, GuestTypesInv
<1>1. /\ UNCHANGED <<callAt, known, place, nextId, alive, inbox, calls, notes>>
      /\ request' = IF left THEN [request EXCEPT !.waited = M!Waited] ELSE request
      /\ reply' = IF left THEN M!Pending ELSE M!Failed
      /\ strayed' = IF owed THEN strayed \cup {s} ELSE strayed
      /\ pipe' = IF ~left /\ request.part THEN [pipe EXCEPT ![s][1].cut = TRUE] ELSE pipe
  BY DEF M!ReadNothing
<1>2. /\ Budget \in Nat \ {0} /\ request.waited \in 0..Budget - 1
      /\ M!Waited = request.waited + 1 /\ (M!Spent <=> M!Waited = Budget)
  BY <1>0, GuestAssumption DEF MadeTypes, M!Waited, M!Spent
<1>3. [pipe[s] EXCEPT ![1].cut = TRUE] \in Seq(M!Line)
  <2>1. CASE pipe[s] = <<>>
    <3>1. [pipe[s] EXCEPT ![1].cut = TRUE] = pipe[s]
      BY <2>1
    <3> QED
      BY <1>0, <3>1
  <2>2. CASE pipe[s] # <<>>
    <3>1. 1 \in 1..Len(pipe[s]) /\ pipe[s][1] \in M!Line
      BY <1>0, <2>2
    <3>2. [pipe[s][1] EXCEPT !.cut = TRUE] \in M!Line
      BY <3>1 DEF M!Line
    <3> QED
      BY <1>0, <3>1, <3>2
  <2> QED
    BY <2>1, <2>2
<1>4. /\ pipe' \in [M!Servers -> Seq(M!Line)] /\ \A r \in M!Servers : r # s => pipe'[r] = pipe[r]
      /\ pipe[s] = <<>> => pipe'[s] = <<>>
  <2>1. CASE ~left /\ request.part
    <3>1. pipe' = [pipe EXCEPT ![s] = [pipe[s] EXCEPT ![1].cut = TRUE]]
      BY <1>0, <1>1, <2>1 DEF GuestTypesInv
    <3>2. pipe[s] = <<>> => [pipe[s] EXCEPT ![1].cut = TRUE] = <<>>
      OBVIOUS
    <3> QED
      BY <1>0, <1>3, <3>1, <3>2 DEF GuestTypesInv
  <2>2. CASE ~(~left /\ request.part)
    BY <1>0, <1>1, <2>2 DEF GuestTypesInv
  <2> QED
    BY <2>1, <2>2
<1>5. /\ request' = [id |-> request'.id, named |-> request'.named, at |-> request'.at, tool |-> request'.tool,
                     waited |-> request'.waited, part |-> request'.part]
      /\ request'.id = request.id /\ request'.at = request.at /\ request'.part = request.part
      /\ request'.waited \in 0..Budget - 1
  <2>1. request = [id |-> request.id, named |-> request.named, at |-> request.at, tool |-> request.tool,
                   waited |-> request.waited, part |-> request.part]
    BY <1>0 DEF MadeTypes
  <2>2. CASE left
    <3>1. M!Waited \in 0..Budget - 1
      BY <1>2, <2>2
    <3>2. request' = [request EXCEPT !.waited = M!Waited]
      BY <1>1, <2>2
    <3>3. request' = [id |-> request.id, named |-> request.named, at |-> request.at, tool |-> request.tool,
                      waited |-> M!Waited, part |-> request.part]
      BY <2>1, <3>2
    <3> QED
      BY <3>1, <3>3
  <2>3. CASE ~left
    BY <1>1, <1>2, <2>1, <2>3
  <2> QED
    BY <2>2, <2>3
<1> DEFINE stays == left
<1>6. /\ stays => reply' = reply /\ strayed' = strayed /\ pipe' = pipe /\ M!Reading'
      /\ ~stays => reply' = M!Failed /\ ~M!Reading' /\ (s \in strayed' \/ s \notin alive)
      /\ strayed \subseteq strayed' /\ strayed' \subseteq M!Servers /\ ~M!Done'
  <2>1. CASE stays
    BY <1>0, <1>1, <2>1 DEF GuestTypesInv, M!Reading, M!Done, M!Pending
  <2>2. CASE ~stays
    BY <1>0, <1>1, <2>2 DEF GuestTypesInv, M!Reading, M!Done, M!Pending, M!Failed
  <2> QED
    BY <2>1, <2>2
<1> HIDE DEF s, left, owed, stays
<1>7. InStep'
  <2>1. CASE stays
    BY <1>0, <1>1, <1>5, <1>6, <2>1 DEF InStep, Owes
  <2>2. CASE ~stays
    BY <1>0, <1>1, <1>4, <1>6, <2>2, OverStep DEF s
  <2> QED
    BY <2>1, <2>2
<1>8. InOrderInv'
  <2>1. ASSUME NEW i \in DOMAIN Configured PROVE Untouched(i)'
    <3>1. Configured[i] \in M!Servers /\ Untouched(i)
      BY <1>0, <2>1, ConfiguredFacts DEF InOrderInv
    <3>2. CASE Configured[i] = s
      BY <1>1, <1>4, <3>1, <3>2 DEF Untouched
    <3>3. CASE Configured[i] # s
      BY <1>1, <1>4, <3>1, <3>3 DEF Untouched
    <3> QED
      BY <3>2, <3>3
  <2> QED
    BY <1>0, <1>1, <2>1 DEF InOrderInv
<1>9. MadeTypes'
  <2>1. reply' \in [is : {"pending", "failed", "ok"}, id : Nat, of : M!Methods \cup {"note"}]
        /\ (reply'.is = "pending" => reply' = M!Pending)
    BY <1>1 DEF M!Pending, M!Failed
  <2>2. request.id # 0
    BY <1>0 DEF MadeTypes, M!Reading
  <2>3. M!Reading' => request'.at \in M!Servers
    BY <1>0, <1>5 DEF s
  <2> QED
    BY <1>0, <1>1, <1>5, <2>1, <2>2, <2>3 DEF MadeTypes
<1>10. GuestTypesInv'
  BY <1>0, <1>1, <1>4, <1>6 DEF GuestTypesInv
<1> QED
  BY <1>6, <1>7, <1>8, <1>9, <1>10 DEF GuestInv, OwnTaken

LEMMA PostStep == GuestInv /\ M!Post => GuestInv'
<1> SUFFICES ASSUME GuestInv, M!Post PROVE GuestInv'
  OBVIOUS
<1> DEFINE s == request.at
<1>0. /\ M!Reading /\ s \in M!Servers /\ s \in Http
      /\ MadeTypes /\ GuestTypesInv /\ InStep /\ InOrderInv
  BY DEF M!Post, GuestInv, MadeTypes
<1>1. /\ UNCHANGED <<callAt, known, place, request, nextId, alive, pipe, calls, notes, strayed>>
      /\ reply' \in {M!Failed, [is |-> "ok", id |-> request.id, of |-> callAt]}
      /\ inbox' = [inbox EXCEPT ![s] = {}]
  BY DEF M!Post
<1> HIDE DEF s
<1>2. ~M!Reading' /\ reply' \in [is : {"pending", "failed", "ok"}, id : Nat, of : M!Methods \cup {"note"}]
      /\ reply'.is # "pending"
  <2>1. request.id \in Nat /\ callAt \in M!Methods
    BY <1>0 DEF MadeTypes, M!Reading
  <2> QED
    BY <1>1, <2>1 DEF M!Reading, M!Pending, M!Failed
<1>3. /\ inbox' \in [M!Servers -> SUBSET [id : Nat, of : M!Methods]]
      /\ \A r \in M!Servers : r # s => inbox'[r] = inbox[r]
  BY <1>0, <1>1 DEF GuestTypesInv
<1>4. InStep'
  BY <1>0, <1>1, <1>2, <1>3, OverStep DEF s
<1>5. InOrderInv'
  <2>1. ASSUME NEW i \in DOMAIN Configured PROVE Untouched(i)'
    <3>1. Configured[i] \in M!Servers /\ Untouched(i)
      BY <1>0, <2>1, ConfiguredFacts DEF InOrderInv
    <3> QED
      BY <1>0, <1>1, <1>3, <3>1 DEF Untouched
  <2> QED
    BY <1>0, <1>1, <2>1 DEF InOrderInv
<1>6. OwnTaken'
  BY <1>1 DEF OwnTaken, M!Done, M!Failed
<1>7. MadeTypes'
  BY <1>0, <1>1, <1>2 DEF MadeTypes
<1>8. GuestTypesInv'
  BY <1>0, <1>1, <1>3 DEF GuestTypesInv
<1> QED
  BY <1>4, <1>5, <1>6, <1>7, <1>8 DEF GuestInv

LEMMA ConnectServerStep == GuestInv /\ M!Connect => GuestInv'
<1> SUFFICES ASSUME GuestInv, M!Connect PROVE GuestInv'
  OBVIOUS
<1> DEFINE s == Configured[place + 1]
<1>0. /\ MadeTypes /\ GuestTypesInv /\ InStep /\ InOrderInv /\ callAt = "connect"
      /\ place \in 0..Len(Configured) /\ place # Len(Configured) /\ ~M!Reading
      /\ UNCHANGED <<known, pipe, calls, notes, strayed>>
  BY DEF M!Connect, M!ConnectedAll, M!Reading, M!Methods, GuestInv, GuestTypesInv
<1>1. place + 1 \in DOMAIN Configured /\ s \in M!Servers /\ Len(Configured) \in Nat
  <2>1. Len(Configured) \in Nat
    BY ConfiguredFacts
  <2>2. place + 1 \in 1..Len(Configured)
    BY <1>0, <2>1
  <2> QED
    BY <2>1, <2>2, ConfiguredFacts
<1>2. CASE s \in Http \cup Granted
  <2> DEFINE m == IF s \in Http THEN "tools/list" ELSE "initialize"
  <2>1. alive' = alive \cup {s} /\ place' = place /\ M!Ask(m, s, s, "none", alive')
    BY <1>2 DEF M!Connect, M!Connecting
  <2>2. alive' = alive \/ (inbox[s] = {} /\ pipe[s] = <<>>)
    <3>1. CASE s \in Http
      BY <1>0, <2>1, <3>1 DEF GuestTypesInv
    <3>2. CASE s \notin Http
      BY <1>0, <1>1, <3>2 DEF InOrderInv, Untouched
    <3> QED
      BY <3>1, <3>2
  <2>3. m \in M!Methods /\ callAt' = m /\ m # "connect" /\ m # "idle" /\ m # "tools/call"
    BY <2>1 DEF M!Methods, M!Ask
  <2>4. alive' \subseteq M!Servers /\ Http \subseteq alive'
    BY <1>0, <1>1, <2>1 DEF GuestTypesInv
  <2> HIDE DEF m, s
  <2>5. /\ MadeTypes' /\ InStep' /\ OwnTaken'
        /\ inbox' \in [M!Servers -> SUBSET [id : Nat, of : M!Methods]]
        /\ \A r \in M!Servers : r # s => inbox'[r] = inbox[r]
    <3> DEFINE running == alive'
    <3>1. M!Ask(m, s, s, "none", running)
      BY <2>1
    <3>2. running = alive \/ (running = alive \cup {s} /\ s \in M!Servers /\ inbox[s] = {} /\ pipe[s] = <<>>)
      BY <1>1, <2>1, <2>2
    <3>3. running \in SUBSET M!Servers /\ alive' = running
      BY <2>4
    <3> HIDE DEF running
    <3> QED
      BY <1>0, <2>3, <3>1, <3>2, <3>3, AskStep
  <2>6. InOrderInv'
    <3>1. ASSUME NEW i \in DOMAIN Configured PROVE Untouched(i)'
      <4>1. SUFFICES ASSUME i > place + 1, Configured[i] \notin Http
                     PROVE  /\ Configured[i] \notin alive'
                            /\ inbox'[Configured[i]] = {} /\ pipe'[Configured[i]] = <<>>
        BY <2>1, <2>3 DEF Untouched
      <4>2. Configured[i] # s /\ Configured[i] \in M!Servers
        <5>1. i # place + 1
          BY <1>0, <4>1
        <5> QED
          BY <1>1, <3>1, <5>1, ConfiguredFacts DEF s
      <4>3. Untouched(i)
        BY <1>0, <3>1 DEF InOrderInv
      <4> QED
        BY <1>0, <2>1, <2>5, <4>1, <4>2, <4>3 DEF Untouched
    <3>2. place' < Len(Configured)
      BY <1>0, <1>1, <2>1
    <3> QED
      BY <2>3, <3>1, <3>2 DEF InOrderInv
  <2>7. GuestTypesInv'
    BY <1>0, <2>1, <2>3, <2>4, <2>5 DEF GuestTypesInv
  <2> QED
    BY <2>5, <2>6, <2>7 DEF GuestInv
<1>3. CASE s \notin Http \cup Granted
  <2>1. place' = place + 1 /\ UNCHANGED <<callAt, request, reply, nextId, alive, inbox>>
    BY <1>3 DEF M!Connect, M!Connecting
  <2>2. place' \in 0..Len(Configured)
    BY <1>0, <1>1, <2>1
  <2>3. ASSUME NEW i \in DOMAIN Configured PROVE Untouched(i)'
    <3>1. i > place' + 1 \/ (i = place' + 1 /\ callAt' = "connect") => i > place + 1
      <4>1. i \in Int
        BY ConfiguredFacts
      <4>2. place \in Int
        BY <1>0, <1>1
      <4> QED
        BY <2>1, <4>1, <4>2
    <3>2. Untouched(i)
      BY <1>0, <2>3 DEF InOrderInv
    <3> QED
      BY <1>0, <2>1, <3>1, <3>2 DEF Untouched
  <2>4. MadeTypes' /\ InStep' /\ OwnTaken'
    BY <1>0, <2>1 DEF GuestInv, MadeTypes, InStep, Owes, OwnTaken, M!Reading, M!Done
  <2>5. InOrderInv' /\ GuestTypesInv'
    BY <1>0, <2>1, <2>2, <2>3 DEF InOrderInv, GuestTypesInv
  <2> QED
    BY <2>4, <2>5 DEF GuestInv
<1> HIDE DEF s
<1> QED
  BY <1>2, <1>3

\* A request to one that may or may not run, when init is not between two servers.
LEMMA AskAgainStep ==
    ASSUME GuestInv, ~M!Reading, callAt # "connect", NEW m \in {"tools/list", "tools/call"}, NEW named, NEW to, NEW tool,
           M!Ask(m, named, to, tool, alive),
           m = "tools/list" => place < Len(Configured), m = "tools/call" => place = Len(Configured),
           calls' \in 0..MaxToolCalls, UNCHANGED <<known, place, alive, pipe, notes, strayed>>
    PROVE  GuestInv'
<1>0. MadeTypes /\ GuestTypesInv /\ InStep /\ InOrderInv /\ alive \in SUBSET M!Servers
      /\ m \in M!Methods
  BY DEF GuestInv, GuestTypesInv, M!Methods
<1>1. /\ MadeTypes' /\ InStep' /\ OwnTaken'
      /\ inbox' \in [M!Servers -> SUBSET [id : Nat, of : M!Methods]]
      /\ \A r \in M!Servers : r # to => inbox'[r] = inbox[r]
  BY <1>0, AskStep
<1>2. callAt' = m /\ (to \notin alive => inbox' = inbox)
  BY DEF M!Ask
<1>3. ASSUME NEW i \in DOMAIN Configured PROVE Untouched(i)'
  <2>1. Configured[i] \in M!Servers /\ Untouched(i) /\ i \in 1..Len(Configured) /\ Len(Configured) \in Nat
    BY <1>0, <1>3, ConfiguredFacts DEF InOrderInv
  <2>2. CASE Configured[i] = to /\ to \in alive
    <3>1. i <= place + 1 \/ Configured[i] \in Http
      BY <1>0, <2>1, <2>2 DEF Untouched, GuestTypesInv
    <3> QED
      BY <1>0, <1>2, <2>1, <3>1 DEF Untouched, GuestTypesInv, M!Methods
  <2>3. CASE ~(Configured[i] = to /\ to \in alive)
    <3>1. inbox'[Configured[i]] = inbox[Configured[i]]
      BY <1>1, <1>2, <2>1, <2>3
    <3> QED
      BY <1>2, <2>1, <3>1 DEF Untouched, M!Methods
  <2> QED
    BY <2>2, <2>3
<1>4. InOrderInv'
  BY <1>2, <1>3 DEF InOrderInv
<1>5. GuestTypesInv'
  BY <1>0, <1>1, <1>2 DEF GuestTypesInv
<1> QED
  BY <1>1, <1>4, <1>5 DEF GuestInv

LEMMA InitializedStep == GuestInv /\ M!Initialized => GuestInv'
<1> SUFFICES ASSUME GuestInv, M!Initialized PROVE GuestInv'
  OBVIOUS
<1>1. /\ callAt = "initialize" /\ reply.is = "ok"
      /\ M!Ask("tools/list", request.at, request.at, "none", alive)
      /\ UNCHANGED <<known, place, alive, pipe, calls, notes, strayed>>
  BY DEF M!Initialized, M!Greeted
<1>2. ~M!Reading /\ "tools/list" \in M!Methods
  BY <1>1 DEF M!Reading, M!Pending, M!Methods
<1>3. place < Len(Configured)
  BY <1>1 DEF GuestInv, InOrderInv
<1>4. calls' \in 0..MaxToolCalls
  BY <1>1 DEF GuestInv, GuestTypesInv
<1> DEFINE to == request.at
           m == "tools/list"
           tool == "none"
<1>5. M!Ask(m, to, to, tool, alive)
  BY <1>1
<1>6. callAt # "connect" /\ UNCHANGED <<known, place, alive, pipe, notes, strayed>>
  BY <1>1
<1>7. m \in {"tools/list", "tools/call"} /\ m = "tools/list" /\ m # "tools/call"
  OBVIOUS
<1>8. ~M!Reading
  BY <1>2
<1> HIDE DEF to, m, tool
<1> QED
  BY <1>3, <1>4, <1>5, <1>6, <1>7, <1>8, AskAgainStep

LEMMA InvokeToolStep ==
    ASSUME GuestInv, NEW s \in M!Servers, NEW t \in Tools, M!InvokeTool(s, t)
    PROVE  GuestInv'
<1>1. /\ callAt = "idle" /\ calls < MaxToolCalls /\ calls' = calls + 1
      /\ M!Ask("tools/call", s, M!FirstWith(t), t, alive)
      /\ UNCHANGED <<known, place, alive, pipe, notes, strayed>>
  BY DEF M!InvokeTool
<1>2. ~M!Reading /\ "tools/call" \in M!Methods
  BY <1>1 DEF M!Reading, M!Methods
<1>3. place = Len(Configured)
  BY <1>1 DEF GuestInv, InOrderInv
<1>4. calls' \in 0..MaxToolCalls
  <2>1. calls \in 0..MaxToolCalls
    BY DEF GuestInv, GuestTypesInv
  <2> QED
    BY <1>1, <2>1, GuestAssumption
<1> DEFINE to == M!FirstWith(t)
<1>5. M!Ask("tools/call", s, to, t, alive)
  BY <1>1
<1> HIDE DEF to
<1> QED
  BY <1>1, <1>2, <1>3, <1>4, <1>5, AskAgainStep

\* A request that is over is dropped: what the servers owe stays as it was.
LEMMA DropStep ==
    ASSUME GuestInv, reply # M!Pending, callAt' \in {"connect", "idle"},
           place' \in 0..Len(Configured), place' >= place,
           callAt' = "connect" => place' > place,
           callAt' = "idle" => place' = Len(Configured),
           known' \in [M!Servers -> [up : BOOLEAN, tools : SUBSET Tools]],
           request' = M!NoCall, UNCHANGED <<reply, nextId, alive, inbox, pipe, calls, notes, strayed>>
    PROVE  GuestInv'
<1>0. MadeTypes /\ GuestTypesInv /\ InStep /\ InOrderInv /\ place \in 0..Len(Configured)
  BY DEF GuestInv, GuestTypesInv
<1>1. ~M!Reading /\ ~M!Reading' /\ ~M!Done' /\ callAt' \notin M!Methods
  BY DEF M!Reading, M!Done, M!Methods
<1>2. InStep'
  BY <1>0, <1>1 DEF InStep, Owes
<1>3. ASSUME NEW i \in DOMAIN Configured PROVE Untouched(i)'
  <2>1. i \in Int /\ place \in Int /\ place' \in Int /\ i <= Len(Configured) /\ Len(Configured) \in Nat
    BY <1>0, <1>3, ConfiguredFacts
  <2>2. Untouched(i)
    BY <1>0, <1>3 DEF InOrderInv
  <2>3. i > place' + 1 \/ (i = place' + 1 /\ callAt' = "connect") => i > place + 1
    BY <2>1
  <2> QED
    BY <2>2, <2>3 DEF Untouched
<1>4. MadeTypes'
  <2>1. Budget \in Nat \ {0} /\ nextId' \in Nat \ {0}
    BY <1>0, GuestAssumption DEF MadeTypes
  <2>2. 0 \in 0..nextId' - 1 /\ 0 \in 0..Budget - 1
    BY <2>1
  <2>3. /\ request' = [id |-> request'.id, named |-> request'.named, at |-> request'.at, tool |-> request'.tool,
                       waited |-> request'.waited, part |-> request'.part]
        /\ request'.id = 0 /\ request'.waited = 0 /\ request'.part = FALSE /\ (request'.id = 0 => request' = M!NoCall)
    BY DEF M!NoCall
  <2>4. /\ reply' \in [is : {"pending", "failed", "ok"}, id : Nat, of : M!Methods \cup {"note"}]
        /\ (reply'.is = "pending" => reply' = M!Pending)
    BY <1>0 DEF MadeTypes
  <2> QED
    BY <1>1, <2>1, <2>2, <2>3, <2>4 DEF MadeTypes
<1>5. GuestTypesInv' /\ OwnTaken' /\ InOrderInv'
  BY <1>0, <1>1, <1>3 DEF GuestTypesInv, OwnTaken, InOrderInv
<1> QED
  BY <1>2, <1>4, <1>5 DEF GuestInv

LEMMA OverSteps == GuestInv /\ (M!InitializeFailed \/ M!Listed \/ M!Invoked) => GuestInv'
<1> SUFFICES ASSUME GuestInv, M!InitializeFailed \/ M!Listed \/ M!Invoked PROVE GuestInv'
  OBVIOUS
<1>1. /\ reply # M!Pending /\ request' = M!NoCall
      /\ UNCHANGED <<reply, nextId, alive, inbox, pipe, calls, notes, strayed>>
  BY DEF M!InitializeFailed, M!Listed, M!Invoked, M!server, M!Failed, M!Pending
<1>2. known \in [M!Servers -> [up : BOOLEAN, tools : SUBSET Tools]]
      /\ place \in 0..Len(Configured) /\ Len(Configured) \in Nat
  BY ConfiguredFacts DEF GuestInv, GuestTypesInv
<1>3. known' \in [M!Servers -> [up : BOOLEAN, tools : SUBSET Tools]]
  <2>1. CASE M!Listed
    <3>1. ASSUME NEW s \in M!Servers PROVE Offers[s] \in SUBSET Tools
      BY GuestAssumption DEF M!Servers, M!ToSet
    <3> DEFINE now == [up |-> reply.is = "ok",
                       tools |-> IF reply.of = "tools/list" THEN Offers[request.at] ELSE {}]
    <3>2. known' = [known EXCEPT ![request.at] = now]
      BY <2>1 DEF M!Listed
    <3>3. request.at \in M!Servers => now \in [up : BOOLEAN, tools : SUBSET Tools]
      BY <3>1
    <3> HIDE DEF now
    <3> QED
      BY <1>2, <3>2, <3>3
  <2>2. CASE M!InitializeFailed \/ M!Invoked
    BY <1>2, <2>2 DEF M!InitializeFailed, M!Invoked
  <2> QED
    BY <2>1, <2>2
<1>4. CASE M!InitializeFailed \/ M!Listed
  <2>1. callAt' = "connect" /\ place' = place + 1 /\ callAt \in {"initialize", "tools/list"}
    BY <1>4 DEF M!InitializeFailed, M!Listed
  <2>2. place < Len(Configured)
    BY <2>1 DEF GuestInv, InOrderInv
  <2>3. place' \in 0..Len(Configured) /\ place' >= place /\ place' > place
    BY <1>2, <2>1, <2>2
  <2> QED
    BY <1>1, <1>3, <2>1, <2>3, DropStep
<1>5. CASE M!Invoked
  <2>1. callAt' = "idle" /\ place' = place /\ callAt = "tools/call"
    BY <1>5 DEF M!Invoked
  <2>2. place = Len(Configured)
    BY <2>1 DEF GuestInv, InOrderInv
  <2>3. place' >= place
    BY <1>2, <2>1
  <2> QED
    BY <1>1, <1>2, <1>3, <2>1, <2>2, <2>3, DropStep
<1> QED
  BY <1>4, <1>5

LEMMA StartedStep == GuestInv /\ M!Started => GuestInv'
<1> SUFFICES ASSUME GuestInv, M!Started PROVE GuestInv'
  OBVIOUS
<1>1. /\ callAt = "connect" /\ place = Len(Configured) /\ callAt' = "idle"
      /\ UNCHANGED <<known, place, request, reply, nextId, alive, inbox, pipe, notes, calls, strayed>>
  BY DEF M!Started, M!ConnectedAll, M!server
<1>2. ~M!Reading /\ ~M!Reading' /\ ~M!Done' /\ callAt' \notin M!Methods /\ callAt \notin M!Methods
  BY <1>1 DEF M!Reading, M!Done, M!Methods
<1> QED
  BY <1>1, <1>2 DEF GuestInv, MadeTypes, GuestTypesInv, InStep, Owes, InOrderInv, Untouched, OwnTaken

LEMMA AnswerStep ==
    ASSUME GuestInv, NEW s \in M!Servers, M!Answer(s)
    PROVE  GuestInv'
<1>0. MadeTypes /\ GuestTypesInv /\ InStep /\ InOrderInv
  BY DEF GuestInv
<1>1. PICK r \in inbox[s] :
        /\ inbox' = [inbox EXCEPT ![s] = @ \ {r}]
        /\ pipe' = [pipe EXCEPT ![s] = Append(@, [id |-> r.id, of |-> r.of, cut |-> FALSE])]
  BY DEF M!Answer
<1>2. /\ s \in alive /\ s \notin Http
      /\ UNCHANGED <<callAt, known, place, request, reply, nextId, alive, calls, notes, strayed>>
  BY DEF M!Answer
<1> DEFINE line == [id |-> r.id, of |-> r.of, cut |-> FALSE]
<1>3. line \in M!Line /\ line.id = r.id /\ line.of = r.of
  BY <1>0 DEF GuestTypesInv, M!Line
<1>4. pipe' = [pipe EXCEPT ![s] = Append(pipe[s], line)]
  BY <1>0, <1>1 DEF GuestTypesInv
<1> HIDE DEF line
<1>5. /\ inbox' \in [M!Servers -> SUBSET [id : Nat, of : M!Methods]]
      /\ pipe' \in [M!Servers -> Seq(M!Line)]
      /\ \A t \in M!Servers : t # s => inbox'[t] = inbox[t] /\ pipe'[t] = pipe[t]
      /\ inbox'[s] = inbox[s] \ {r} /\ pipe'[s] = Append(pipe[s], line)
  BY <1>0, <1>1, <1>3, <1>4 DEF GuestTypesInv
<1>6. (M!Reading' <=> M!Reading) /\ (M!Done' <=> M!Done)
  BY <1>2 DEF M!Reading, M!Done
<1>7. InStep'
  <2> SUFFICES ASSUME NEW t \in M!Servers, t \notin Http, t \notin strayed PROVE Owes(t)'
    BY <1>2 DEF InStep
  <2>1. Owes(t)
    BY <1>0 DEF InStep
  <2>2. CASE t # s
    BY <1>2, <1>5, <1>6, <2>1, <2>2 DEF Owes
  <2>3. CASE t = s
    <3>1. M!Reading /\ request.at = s /\ r = [id |-> request.id, of |-> callAt] /\ pipe[s] = <<>>
      BY <1>1, <1>2, <2>1, <2>3 DEF Owes
    <3>2. inbox'[s] = {}
      BY <1>5, <2>1, <2>3, <3>1 DEF Owes
    <3>3. pipe'[s] = <<line>> /\ pipe'[s][1] = line
      BY <1>5, <3>1
    <3>4. line.id = request.id /\ line.of = callAt
      BY <1>3, <3>1
    <3> QED
      BY <1>2, <1>6, <2>3, <3>1, <3>2, <3>3, <3>4 DEF Owes
  <2> QED
    BY <2>2, <2>3
<1>8. InOrderInv'
  <2>1. ASSUME NEW i \in DOMAIN Configured PROVE Untouched(i)'
    <3>1. Configured[i] \in M!Servers /\ Untouched(i)
      BY <1>0, <2>1, ConfiguredFacts DEF InOrderInv
    <3> QED
      BY <1>2, <1>5, <3>1 DEF Untouched
  <2> QED
    BY <1>0, <1>2, <2>1 DEF InOrderInv
<1>9. MadeTypes' /\ GuestTypesInv' /\ OwnTaken'
  BY <1>0, <1>2, <1>5, <1>6 DEF GuestInv, MadeTypes, GuestTypesInv, OwnTaken
<1> QED
  BY <1>7, <1>8, <1>9 DEF GuestInv

LEMMA NoteStep ==
    ASSUME GuestInv, NEW s \in M!Servers, M!Note(s)
    PROVE  GuestInv'
<1>0. MadeTypes /\ GuestTypesInv /\ InStep /\ InOrderInv
  BY DEF GuestInv
<1> DEFINE line == [id |-> 0, of |-> "note", cut |-> FALSE]
<1>1. /\ pipe' = [pipe EXCEPT ![s] = Append(@, line)]
      /\ s \in alive /\ s \notin Http /\ notes < MaxNotes /\ notes' = notes + 1 /\ strayed' = strayed \cup {s}
      /\ UNCHANGED <<callAt, known, place, request, reply, nextId, alive, inbox, calls>>
  BY DEF M!Note
<1>2. line \in M!Line
  BY DEF M!Line
<1> HIDE DEF line
<1>3. /\ pipe' \in [M!Servers -> Seq(M!Line)]
      /\ \A t \in M!Servers : t # s => pipe'[t] = pipe[t]
  BY <1>0, <1>1, <1>2 DEF GuestTypesInv
<1>4. notes' \in 0..MaxNotes
  <2>1. notes \in 0..MaxNotes
    BY <1>0 DEF GuestTypesInv
  <2> QED
    BY <1>1, <2>1, GuestAssumption
<1>5. (M!Reading' <=> M!Reading) /\ (M!Done' <=> M!Done)
  BY <1>1 DEF M!Reading, M!Done
<1>6. InStep'
  BY <1>0, <1>1, <1>3, <1>5 DEF InStep, Owes
<1>7. InOrderInv'
  <2>1. ASSUME NEW i \in DOMAIN Configured PROVE Untouched(i)'
    <3>1. Configured[i] \in M!Servers /\ Untouched(i)
      BY <1>0, <2>1, ConfiguredFacts DEF InOrderInv
    <3> QED
      BY <1>1, <1>3, <3>1 DEF Untouched
  <2> QED
    BY <1>0, <1>1, <2>1 DEF InOrderInv
<1>8. MadeTypes' /\ OwnTaken'
  BY <1>0, <1>1, <1>5 DEF GuestInv, MadeTypes, OwnTaken
<1>9. GuestTypesInv'
  BY <1>0, <1>1, <1>3, <1>4 DEF GuestTypesInv
<1> QED
  BY <1>6, <1>7, <1>8, <1>9 DEF GuestInv

LEMMA ExitStep ==
    ASSUME GuestInv, NEW s \in M!Servers, M!Exit(s)
    PROVE  GuestInv'
<1>0. MadeTypes /\ GuestTypesInv /\ InStep /\ InOrderInv
  BY DEF GuestInv
<1>1. /\ s \in alive /\ s \notin Http /\ alive' = alive \ {s} /\ inbox' = [inbox EXCEPT ![s] = {}]
      /\ UNCHANGED <<callAt, known, place, request, reply, nextId, pipe, calls, notes, strayed>>
  BY DEF M!Exit
<1>2. /\ inbox' \in [M!Servers -> SUBSET [id : Nat, of : M!Methods]] /\ inbox'[s] = {}
      /\ \A t \in M!Servers : t # s => inbox'[t] = inbox[t]
  BY <1>0, <1>1 DEF GuestTypesInv
<1>3. (M!Reading' <=> M!Reading) /\ (M!Done' <=> M!Done)
  BY <1>1 DEF M!Reading, M!Done
<1>4. InStep'
  BY <1>0, <1>1, <1>2, <1>3 DEF InStep, Owes
<1>5. InOrderInv'
  <2>1. ASSUME NEW i \in DOMAIN Configured PROVE Untouched(i)'
    <3>1. Configured[i] \in M!Servers /\ Untouched(i)
      BY <1>0, <2>1, ConfiguredFacts DEF InOrderInv
    <3> QED
      BY <1>1, <1>2, <3>1 DEF Untouched
  <2> QED
    BY <1>0, <1>1, <2>1 DEF InOrderInv
<1>6. MadeTypes' /\ GuestTypesInv' /\ OwnTaken'
  BY <1>0, <1>1, <1>2, <1>3 DEF GuestInv, MadeTypes, GuestTypesInv, OwnTaken
<1> QED
  BY <1>4, <1>5, <1>6 DEF GuestInv

LEMMA GuestStep == GuestInv /\ [M!Next]_(M!vars) => GuestInv'
<1> SUFFICES ASSUME GuestInv, [M!Next]_(M!vars) PROVE GuestInv'
  OBVIOUS
<1>1. CASE UNCHANGED M!vars
  BY <1>1 DEF M!vars, GuestInv, MadeTypes, GuestTypesInv, InStep, Owes, InOrderInv, Untouched, OwnTaken,
              M!Reading, M!Done
<1>2. CASE M!Guest
  BY <1>2, ReadPartStep, ReadLineStep, ReadNothingStep, PostStep, ConnectServerStep, InitializedStep,
     OverSteps, StartedStep DEF M!Guest
<1>3. ASSUME NEW s \in M!Servers, NEW t \in Tools, M!InvokeTool(s, t) PROVE GuestInv'
  BY <1>3, InvokeToolStep
<1>4. ASSUME NEW s \in M!Servers, M!Answer(s) \/ M!Note(s) \/ M!Exit(s) PROVE GuestInv'
  BY <1>4, AnswerStep, NoteStep, ExitStep
<1> QED
  BY <1>1, <1>2, <1>3, <1>4 DEF M!Next

LEMMA GuestInit == M!Init => GuestInv
<1> SUFFICES ASSUME M!Init PROVE GuestInv
  OBVIOUS
<1>1. /\ callAt = "connect" /\ place = 0
      /\ known = [s \in M!Servers |-> [up |-> FALSE, tools |-> {}]]
      /\ request = M!NoCall /\ reply = M!Failed
      /\ nextId = 1 /\ calls = 0 /\ notes = 0 /\ alive = Http /\ strayed = {}
      /\ inbox = [s \in M!Servers |-> {}] /\ pipe = [s \in M!Servers |-> <<>>]
  BY DEF M!Init
<1>2. Http \subseteq M!Servers /\ Len(Configured) \in Nat
  BY GuestAssumption, ConfiguredFacts DEF M!Servers, M!ToSet
<1>3. callAt \notin M!Methods /\ ~M!Reading /\ ~M!Done
  BY <1>1 DEF M!Methods, M!Reading, M!Done
<1>4. GuestTypesInv
  BY <1>1, <1>2, GuestAssumption DEF GuestTypesInv
<1>5. MadeTypes
  BY <1>1, <1>3, GuestAssumption DEF MadeTypes, M!NoCall, M!Failed
<1>6. InStep
  BY <1>1, <1>3 DEF InStep, Owes
<1>7. InOrderInv
  BY <1>1, ConfiguredFacts DEF InOrderInv, Untouched
<1> QED
  BY <1>3, <1>4, <1>5, <1>6, <1>7 DEF GuestInv, OwnTaken

\* known changes where a list was taken for a server that is in step, or that strayed.
LEMMA CatalogueStep == GuestInv /\ WholeCatalogue /\ [M!Next]_(M!vars) => WholeCatalogue'
<1> SUFFICES ASSUME GuestInv, WholeCatalogue, [M!Next]_(M!vars) PROVE WholeCatalogue'
  OBVIOUS
<1>1. CASE M!Listed
  <2> DEFINE now == [up |-> reply.is = "ok",
                     tools |-> IF reply.of = "tools/list" THEN Offers[request.at] ELSE {}]
  <2>1. known' = [known EXCEPT ![request.at] = now] /\ callAt = "tools/list" /\ UNCHANGED strayed
    BY <1>1 DEF M!Listed
  <2>2. now.up /\ now.tools # Offers[request.at] => request.at \in strayed
    <3>1. ASSUME now.up, now.tools # Offers[request.at] PROVE request.at \in strayed
      <4>1. reply.is = "ok" /\ reply.of # "tools/list"
        BY <3>1
      <4>2. M!Done
        BY <2>1, <4>1 DEF M!Done, M!Methods
      <4> QED
        BY <2>1, <4>1, <4>2 DEF GuestInv, OwnTaken
    <3> QED
      BY <3>1
  <2> HIDE DEF now
  <2>3. \A s \in M!Servers : known'[s] = IF s = request.at THEN now ELSE known[s]
    BY <2>1 DEF GuestInv, GuestTypesInv
  <2> QED
    BY <2>1, <2>2, <2>3 DEF WholeCatalogue, M!WholeCatalogue
<1>2. CASE ~M!Listed
  <2>1. known' = known /\ strayed \subseteq strayed'
    BY <1>2 DEF M!vars, M!Next, M!Guest, M!ReadPart, M!ReadLine, M!ReadNothing, M!Post, M!Connect,
                M!Initialized, M!InitializeFailed, M!Started, M!Invoked, M!InvokeTool,
                M!Answer, M!Note, M!Exit, M!server
  <2> QED
    BY <2>1 DEF WholeCatalogue, M!WholeCatalogue
<1> QED
  BY <1>1, <1>2

\* McpStdio.tla's typing: the guest's own record of a request, and what is in the pipes.
THEOREM GuestTypesHold == M!Spec => []GuestTypes
<1>1. GuestInv => GuestTypes
  <2> SUFFICES ASSUME GuestInv PROVE M!TypeOK
    BY DEF GuestTypes
  <2>0. MadeTypes /\ GuestTypesInv
    BY DEF GuestInv
  <2>1. request.id \in 0..nextId /\ request.waited \in 0..Budget /\ request.part \in BOOLEAN
    BY <2>0, GuestAssumption DEF MadeTypes
  <2>2. callAt \in M!Methods <=> request # M!NoCall
    BY <2>0 DEF MadeTypes, M!NoCall
  <2>3. \A s \in M!Servers : M!ToSet(pipe[s]) \subseteq M!Line
    <3> SUFFICES ASSUME NEW s \in M!Servers PROVE M!ToSet(pipe[s]) \subseteq M!Line
      OBVIOUS
    <3>1. pipe[s] \in Seq(M!Line)
      BY <2>0 DEF GuestTypesInv
    <3> QED
      BY <3>1 DEF M!ToSet
  <2>4. reply.is \in {"pending", "failed", "ok"}
    BY <2>0 DEF MadeTypes
  <2> QED
    BY <2>0, <2>1, <2>2, <2>3, <2>4 DEF GuestTypesInv, M!TypeOK
<1> QED
  BY <1>1, GuestInit, GuestStep, PTL DEF M!Spec

\* Nothing compares ids (registry-mcp's json_rpc): a call has its own reply because guest
\* and server keep step, unless that server once spoke unasked or was given up on.
THEOREM OwnReplyHolds == M!Spec => []OwnReply
<1>1. GuestInv => OwnReply
  BY DEF GuestInv, OwnTaken, OwnReply, M!OwnReply
<1> QED
  BY <1>1, GuestInit, GuestStep, PTL DEF M!Spec

\* A server that is up without its tools took another line for its list, which only one
\* that strayed can have sent.
THEOREM WholeCatalogueHolds == M!Spec => []WholeCatalogue
<1>1. M!Init => WholeCatalogue
  BY DEF M!Init, WholeCatalogue, M!WholeCatalogue
<1> QED
  BY <1>1, GuestInit, GuestStep, CatalogueStep, PTL DEF M!Spec

-----------------------------------------------------------------------------
(* The gateway as an MCP server. *)

Told == [no : Nat, is : {"unreadable", "answer", "ask", "list", "get"},
         session : Sessions \cup {"none"}, shows : SUBSET (Nat \cup Sessions)]

ServerTypesInv ==
    /\ readAt \in {"read", "turn", "stopped", "down"}
    /\ input \in Seq(S!Frame) /\ open \in BOOLEAN /\ listening \in BOOLEAN
    /\ taking \in S!Frame \cup {S!NoFrame} /\ (taking # S!NoFrame <=> readAt = "turn")
    /\ log \in [Sessions -> Seq(S!Turn)] /\ told \in Seq(Told)
    /\ written \in 0..MaxFrames /\ cut \subseteq 1..MaxFrames /\ starts \in 0..MaxKills

\* Whatever has this number comes after what was answered, and what was logged.
After(n) ==
    /\ \A i \in DOMAIN told : told[i].no < n
    /\ \A s \in Sessions : \A k \in DOMAIN log[s] : log[s][k].no < n

\* The frames wait in the order they were written; and the one whose turn runs is
\* newer than every answer.
NumberedInv ==
    /\ \A i \in DOMAIN input : After(input[i].no) /\ taking.no < input[i].no
    /\ \A i, j \in DOMAIN input : i < j => input[i].no < input[j].no
    /\ \A i \in DOMAIN input : input[i].no <= written
    /\ After(written + 1) /\ taking.no <= written
    /\ readAt = "turn" => \A i \in DOMAIN told : told[i].no < taking.no

\* The turn that runs is the last of its session's.
TurnInv ==
    readAt = "turn" =>
        LET s == S!SessionOf(taking) IN
        log[s] # <<>> /\ log[s][Len(log[s])].no = taking.no

\* A turn that has not ended was cut short, or runs.
HalfInv ==
    \A s \in Sessions : \A i \in DOMAIN log[s] : ~log[s][i].ended =>
        \/ log[s][i].no \in cut
        \/ readAt = "turn" /\ s = S!SessionOf(taking) /\ i = Len(log[s])

\* What was answered is in its session's log.
LoggedInv ==
    \A i \in DOMAIN told : told[i].is = "ask" =>
        /\ told[i].session \in Sessions
        /\ \E k \in DOMAIN log[told[i].session] : log[told[i].session][k].no = told[i].no

ServerInv ==
    ServerTypesInv /\ NumberedInv /\ TurnInv /\ HalfInv /\ LoggedInv /\ AnswersInOrder /\ AskedIsShown

LEMMA SequenceFacts ==
    ASSUME NEW Items, NEW q \in Seq(Items)
    PROVE  /\ Len(q) \in Nat /\ DOMAIN q = 1..Len(q)
           /\ \A i \in DOMAIN q : i \in Nat /\ q[i] \in Items
           /\ \A a \in Items :
                 /\ Append(q, a) \in Seq(Items) /\ Len(Append(q, a)) = Len(q) + 1
                 /\ \A i \in DOMAIN q : i \in DOMAIN Append(q, a) /\ Append(q, a)[i] = q[i]
                 /\ \A i \in DOMAIN Append(q, a) :
                      i \in DOMAIN q \/ (i = Len(q) + 1 /\ Append(q, a)[i] = a)
                 /\ Len(q) + 1 \in DOMAIN Append(q, a) /\ Append(q, a)[Len(q) + 1] = a
           /\ q # <<>> => /\ Head(q) = q[1] /\ 1 \in DOMAIN q /\ Tail(q) \in Seq(Items)
                          /\ \A i \in DOMAIN Tail(q) : i + 1 \in DOMAIN q /\ Tail(q)[i] = q[i + 1] /\ i \in Nat
                          /\ Len(q) \in DOMAIN q
<1>1. /\ Len(q) \in Nat /\ DOMAIN q = 1..Len(q)
      /\ \A i \in DOMAIN q : i \in Nat /\ q[i] \in Items
  OBVIOUS
<1>2. ASSUME NEW a \in Items
      PROVE  /\ Append(q, a) \in Seq(Items) /\ Len(Append(q, a)) = Len(q) + 1
             /\ \A i \in DOMAIN q : i \in DOMAIN Append(q, a) /\ Append(q, a)[i] = q[i]
             /\ \A i \in DOMAIN Append(q, a) :
                  i \in DOMAIN q \/ (i = Len(q) + 1 /\ Append(q, a)[i] = a)
             /\ Len(q) + 1 \in DOMAIN Append(q, a) /\ Append(q, a)[Len(q) + 1] = a
  OBVIOUS
<1>3. ASSUME q # <<>>
      PROVE  /\ Head(q) = q[1] /\ 1 \in DOMAIN q /\ Tail(q) \in Seq(Items)
             /\ \A i \in DOMAIN Tail(q) : i + 1 \in DOMAIN q /\ Tail(q)[i] = q[i + 1] /\ i \in Nat
             /\ Len(q) \in DOMAIN q
  BY <1>3
<1> QED
  BY <1>1, <1>2, <1>3

\* What is left of the input once its first frame is taken.
LEMMA TakenFacts ==
    ASSUME ServerInv, input # <<>>, S!Taken
    PROVE  /\ Head(input) \in S!Frame /\ Head(input).no \in 1..MaxFrames
           /\ After(Head(input).no) /\ Head(input).no <= written /\ taking.no < Head(input).no
           /\ input' \in Seq(S!Frame)
           /\ \A i \in DOMAIN input' :
                 \E k \in DOMAIN input : input'[i] = input[k] /\ Head(input).no < input[k].no
           /\ \A i, j \in DOMAIN input' : i < j => input'[i].no < input'[j].no
<1>0. input \in Seq(S!Frame) /\ NumberedInv /\ input' = Tail(input)
  BY DEF ServerInv, ServerTypesInv, S!Taken
<1>1. /\ Head(input) = input[1] /\ 1 \in DOMAIN input /\ Tail(input) \in Seq(S!Frame)
      /\ \A i \in DOMAIN Tail(input) : i + 1 \in DOMAIN input /\ Tail(input)[i] = input[i + 1] /\ i \in Nat
      /\ \A i \in DOMAIN input : input[i] \in S!Frame
  BY <1>0, SequenceFacts
<1>2. /\ Head(input) \in S!Frame /\ Head(input).no \in 1..MaxFrames
      /\ After(Head(input).no) /\ Head(input).no <= written /\ taking.no < Head(input).no
  BY <1>0, <1>1 DEF NumberedInv, S!Frame
<1>3. ASSUME NEW i \in DOMAIN input'
      PROVE  i + 1 \in DOMAIN input /\ input'[i] = input[i + 1] /\ Head(input).no < input[i + 1].no
  <2>1. i + 1 \in DOMAIN input /\ input'[i] = input[i + 1] /\ i \in DOMAIN Tail(input)
    BY <1>0, <1>1, <1>3
  <2>2. i \in Nat /\ i \in 1..Len(Tail(input))
    BY <1>1, <2>1, SequenceFacts
  <2>3. 1 < i + 1
    BY <2>2
  <2> QED
    BY <1>0, <1>1, <2>1, <2>3 DEF NumberedInv
<1>4. ASSUME NEW i \in DOMAIN input', NEW j \in DOMAIN input', i < j
      PROVE  input'[i].no < input'[j].no
  <2>1. i \in Nat /\ j \in Nat /\ i + 1 < j + 1
    BY <1>0, <1>1, <1>4
  <2> QED
    BY <1>0, <1>3, <2>1 DEF NumberedInv
<1> QED
  BY <1>0, <1>1, <1>2, <1>3, <1>4

\* An answer to the frame of this number, or one without a number, is the last.
LEMMA WriteFacts ==
    ASSUME ServerInv, NEW a \in Told, S!WriteFrame(a)
    PROVE  /\ told' \in Seq(Told) /\ readAt' \in {"read", "stopped"}
           /\ \A i \in DOMAIN told : i \in DOMAIN told' /\ told'[i] = told[i] /\ i < Len(told) + 1
           /\ \A i \in DOMAIN told' : i \in DOMAIN told \/ (i = Len(told) + 1 /\ told'[i] = a)
<1>1. told \in Seq(Told)
  BY DEF ServerInv, ServerTypesInv
<1>2. (told' = Append(told, a) /\ readAt' = "read") \/ (told' = told /\ readAt' = "stopped")
  BY DEF S!WriteFrame
<1>3. \A i \in DOMAIN told : i < Len(told) + 1
  BY <1>1
<1> QED
  BY <1>1, <1>2, <1>3, SequenceFacts

\* Every answer but a turn's: the frame it is to was the oldest, and nothing is logged.
LEMMA TellStep ==
    ASSUME ServerInv, readAt = "read", input # <<>>, S!Taken, NEW a \in Told, S!WriteFrame(a),
           a.no \in {0, Head(input).no}, a.is # "ask",
           a.is = "get" => a.session \in Sessions /\ a.no = Head(input).no /\ a.shows = S!TurnsOf(a.session),
           UNCHANGED <<listening, taking, log, cut, starts>>
    PROVE  ServerInv'
<1>0. /\ ServerTypesInv /\ NumberedInv /\ TurnInv /\ HalfInv /\ LoggedInv /\ AnswersInOrder /\ AskedIsShown
      /\ told \in Seq(Told) /\ DOMAIN told = 1..Len(told) /\ Len(told) \in Nat
  BY SequenceFacts DEF ServerInv, ServerTypesInv
<1>1. /\ told' \in Seq(Told) /\ readAt' \in {"read", "stopped"}
      /\ \A i \in DOMAIN told : i \in DOMAIN told' /\ told'[i] = told[i] /\ i < Len(told) + 1
      /\ \A i \in DOMAIN told' : i \in DOMAIN told \/ (i = Len(told) + 1 /\ told'[i] = a)
  BY WriteFacts
<1> DEFINE n == Head(input).no
<1>2. /\ n \in 1..MaxFrames /\ After(n) /\ n <= written /\ taking.no < n
      /\ input' \in Seq(S!Frame)
      /\ \A i \in DOMAIN input' : \E k \in DOMAIN input : input'[i] = input[k] /\ n < input[k].no
      /\ \A i, j \in DOMAIN input' : i < j => input'[i].no < input'[j].no
  BY TakenFacts
<1>3. a.no \in {0, n} /\ a.no <= n /\ UNCHANGED <<open, written, listening, taking, log, cut, starts>>
      /\ written \in Nat
  BY <1>0, <1>2, ServerAssumption DEF S!Taken, ServerTypesInv
<1> HIDE DEF n
<1>4. ASSUME NEW m \in Nat, After(m), n < m
      PROVE  After(m)'
  <2>1. a.no < m
    BY <1>2, <1>3, <1>4
  <2> QED
    BY <1>1, <1>3, <1>4, <2>1 DEF After
<1>5. NumberedInv'
  <2>1. ASSUME NEW i \in DOMAIN input'
        PROVE  After(input[i].no)' /\ taking.no < input'[i].no /\ input'[i].no <= written
    <3>1. PICK k \in DOMAIN input : input'[i] = input[k] /\ n < input[k].no
      BY <1>2
    <3>2. input[k] \in S!Frame /\ MaxFrames \in Nat
      BY <1>0, SequenceFacts, ServerAssumption DEF ServerTypesInv
    <3>3. PICK m \in Nat : m = input[k].no
      BY <3>2 DEF S!Frame
    <3>4. After(m) /\ n < m /\ taking.no < m /\ m <= written /\ input'[i].no = m
      BY <1>0, <3>1, <3>3 DEF NumberedInv
    <3>5. After(m)'
      BY <1>4, <3>4
    <3> QED
      BY <3>4, <3>5 DEF After
  <2>2. After(written + 1)'
    <3>1. After(written + 1) /\ n < written + 1 /\ written + 1 \in Nat
      BY <1>0, <1>2, <1>3 DEF NumberedInv
    <3>2. a.no < written + 1
      BY <1>2, <1>3, <3>1
    <3> QED
      BY <1>1, <1>3, <3>1, <3>2 DEF After
  <2>3. taking.no <= written
    BY <1>0 DEF NumberedInv
  <2> QED
    BY <1>1, <1>2, <1>3, <2>1, <2>2, <2>3 DEF NumberedInv
<1>6. AnswersInOrder'
  <2> SUFFICES ASSUME NEW i \in DOMAIN told', NEW j \in DOMAIN told', i < j, told'[i].no # 0, told'[j].no # 0
               PROVE  told'[i].no < told'[j].no
    BY DEF AnswersInOrder, S!AnswersInOrder
  <2>1. i \in DOMAIN told
    BY <1>0, <1>1
  <2>2. CASE j \in DOMAIN told
    BY <1>0, <1>1, <2>1, <2>2 DEF AnswersInOrder, S!AnswersInOrder
  <2>3. CASE told'[j] = a
    BY <1>1, <1>2, <1>3, <2>1, <2>3 DEF After
  <2> QED
    BY <1>1, <2>2, <2>3
<1>7. AskedIsShown'
  <2> SUFFICES ASSUME NEW j \in DOMAIN told', told'[j].is = "get"
               PROVE  /\ \A i \in 1..j - 1 :
                           told'[i].is = "ask" /\ told'[i].session = told'[j].session =>
                              told'[i].no \in told'[j].shows
                      /\ \A no \in told'[j].shows : no < told'[j].no
    BY DEF AskedIsShown, S!AskedIsShown
  <2>1. \A i \in 1..j - 1 : i \in DOMAIN told
    BY <1>0, <1>1
  <2>2. CASE j \in DOMAIN told
    BY <1>0, <1>1, <2>1, <2>2 DEF AskedIsShown, S!AskedIsShown
  <2>3. CASE told'[j] = a
    <3>1. a.session \in Sessions /\ a.no = n /\ a.shows = S!TurnsOf(a.session)
      BY <2>3 DEF n
    <3>2. \A no \in a.shows : no < n
      BY <1>2, <3>1 DEF After, S!TurnsOf
    <3>3. ASSUME NEW i \in DOMAIN told, told[i].is = "ask", told[i].session = a.session
          PROVE  told[i].no \in a.shows
      BY <1>0, <3>1, <3>3 DEF LoggedInv, S!TurnsOf
    <3> QED
      BY <1>0, <1>1, <2>1, <2>3, <3>1, <3>2, <3>3
  <2> QED
    BY <1>1, <2>2, <2>3
<1>8. LoggedInv'
  BY <1>0, <1>1, <1>3 DEF LoggedInv
<1>9. TurnInv' /\ HalfInv'
  BY <1>0, <1>1, <1>3 DEF TurnInv, HalfInv
<1>10. ServerTypesInv'
  <2>1. taking = S!NoFrame
    BY <1>0 DEF ServerTypesInv
  <2> QED
    BY <1>0, <1>1, <1>2, <1>3, <2>1 DEF ServerTypesInv
<1> QED
  BY <1>5, <1>6, <1>7, <1>8, <1>9, <1>10 DEF ServerInv

\* The frame whose turn begins is newer than everything answered, or logged.
LEMMA BeginAskStep == ServerInv /\ S!BeginAsk => ServerInv'
<1> SUFFICES ASSUME ServerInv, S!BeginAsk PROVE ServerInv'
  OBVIOUS
<1> DEFINE frame == Head(input)
           s == S!SessionOf(Head(input))
           turned == [no |-> Head(input).no, named |-> Head(input).session # "none", ended |-> FALSE]
<1>0. /\ ServerTypesInv /\ NumberedInv /\ TurnInv /\ HalfInv /\ LoggedInv /\ AnswersInOrder /\ AskedIsShown
  BY DEF ServerInv
<1>1. /\ readAt = "read" /\ input # <<>> /\ S!Taken /\ taking' = frame /\ readAt' = "turn"
      /\ log' = [log EXCEPT ![s] = Append(@, turned)]
      /\ UNCHANGED <<open, written, listening, told, cut, starts>>
  BY DEF S!BeginAsk, S!Reads, S!Taken
<1>2. /\ frame \in S!Frame /\ frame.no \in 1..MaxFrames /\ After(frame.no) /\ frame.no <= written
      /\ taking.no < frame.no /\ input' \in Seq(S!Frame)
      /\ \A i \in DOMAIN input' : \E k \in DOMAIN input : input'[i] = input[k] /\ frame.no < input[k].no
      /\ \A i, j \in DOMAIN input' : i < j => input'[i].no < input'[j].no
  BY <1>1, TakenFacts
<1>3. s \in Sessions /\ turned \in S!Turn /\ turned.no = frame.no /\ ~turned.ended
  <2>1. frame.session \in Sessions \cup {"none"}
    BY <1>2 DEF S!Frame
  <2> QED
    BY <1>2, <2>1, ServerAssumption DEF S!SessionOf, S!Turn
<1>4. s = S!SessionOf(frame)
  OBVIOUS
<1> HIDE DEF frame, s, turned
<1>5. /\ log[s] \in Seq(S!Turn) /\ log' = [log EXCEPT ![s] = Append(log[s], turned)]
      /\ log' \in [Sessions -> Seq(S!Turn)]
      /\ \A r \in Sessions : r # s => log'[r] = log[r]
      /\ log'[s] = Append(log[s], turned)
  <2>1. log \in [Sessions -> Seq(S!Turn)]
    BY <1>0 DEF ServerTypesInv
  <2>2. Append(log[s], turned) \in Seq(S!Turn)
    BY <1>3, <2>1, SequenceFacts
  <2> QED
    BY <1>1, <1>3, <2>1, <2>2
<1>6. /\ Len(log'[s]) = Len(log[s]) + 1 /\ Len(log[s]) \in Nat
      /\ \A i \in DOMAIN log[s] : i \in DOMAIN log'[s] /\ log'[s][i] = log[s][i]
      /\ \A i \in DOMAIN log'[s] : i \in DOMAIN log[s] \/ (i = Len(log[s]) + 1 /\ log'[s][i] = turned)
      /\ Len(log[s]) + 1 \in DOMAIN log'[s] /\ log'[s][Len(log[s]) + 1] = turned
  BY <1>3, <1>5, SequenceFacts
<1>7. ASSUME NEW m \in Nat, After(m), frame.no < m
      PROVE  After(m)'
  <2>1. ASSUME NEW r \in Sessions, NEW k \in DOMAIN log'[r]
        PROVE  log'[r][k].no < m
    BY <1>3, <1>5, <1>6, <1>7, <2>1 DEF After
  <2> QED
    BY <1>1, <1>7, <2>1 DEF After
<1>8. NumberedInv'
  <2>0. frame.no \in Nat /\ written \in Nat
    BY <1>0, <1>2, ServerAssumption DEF ServerTypesInv
  <2>1. ASSUME NEW i \in DOMAIN input'
        PROVE  After(input[i].no)' /\ frame.no < input'[i].no /\ input'[i].no <= written
    <3>1. PICK k \in DOMAIN input : input'[i] = input[k] /\ frame.no < input[k].no
      BY <1>2
    <3>2. input[k] \in S!Frame /\ MaxFrames \in Nat
      BY <1>0, SequenceFacts, ServerAssumption DEF ServerTypesInv
    <3>3. PICK m \in Nat : m = input[k].no
      BY <3>2 DEF S!Frame
    <3>4. After(m) /\ frame.no < m /\ m <= written /\ input'[i].no = m
      BY <1>0, <3>1, <3>3 DEF NumberedInv
    <3>5. After(m)'
      BY <1>7, <3>4
    <3> QED
      BY <3>4, <3>5 DEF After
  <2>2. After(written + 1)'
    <3>1. After(written + 1) /\ frame.no < written + 1 /\ written + 1 \in Nat
      BY <1>0, <1>2, <2>0 DEF NumberedInv
    <3>2. PICK m \in Nat : m = written + 1
      BY <3>1
    <3>3. After(m)' /\ written' = written
      BY <1>1, <1>7, <3>1, <3>2
    <3> QED
      BY <3>2, <3>3 DEF After
  <2>3. \A i \in DOMAIN told : told[i].no < frame.no
    BY <1>2 DEF After
  <2> QED
    BY <1>1, <1>2, <2>1, <2>2, <2>3 DEF NumberedInv
<1>9. HalfInv'
  <2> SUFFICES ASSUME NEW r \in Sessions, NEW i \in DOMAIN log'[r], ~log'[r][i].ended
               PROVE  log'[r][i].no \in cut \/ (r = s /\ i = Len(log'[s]))
    BY <1>1, <1>4 DEF HalfInv
  <2>1. ASSUME i \in DOMAIN log[r], log'[r][i] = log[r][i]
        PROVE  log'[r][i].no \in cut
    BY <1>0, <1>1, <2>1 DEF HalfInv
  <2> QED
    BY <1>5, <1>6, <2>1
<1>10. TurnInv'
  <2>1. log'[s] # <<>> /\ log'[s][Len(log'[s])].no = frame.no
    BY <1>3, <1>6
  <2> QED
    BY <1>1, <1>4, <2>1 DEF TurnInv
<1>11. LoggedInv'
  <2> SUFFICES ASSUME NEW i \in DOMAIN told, told[i].is = "ask"
               PROVE  /\ told[i].session \in Sessions
                      /\ \E k \in DOMAIN log'[told[i].session] : log'[told[i].session][k].no = told[i].no
    BY <1>1 DEF LoggedInv
  <2>1. /\ told[i].session \in Sessions
        /\ \E k \in DOMAIN log[told[i].session] : log[told[i].session][k].no = told[i].no
    BY <1>0 DEF LoggedInv
  <2> QED
    BY <1>5, <1>6, <2>1
<1>12. AnswersInOrder' /\ AskedIsShown'
  BY <1>0, <1>1 DEF AnswersInOrder, S!AnswersInOrder, AskedIsShown, S!AskedIsShown
<1>13. ServerTypesInv'
  <2>1. frame # S!NoFrame
    BY <1>2, ServerAssumption DEF S!NoFrame
  <2> QED
    BY <1>0, <1>1, <1>2, <1>5, <2>1 DEF ServerTypesInv
<1> QED
  BY <1>8, <1>9, <1>10, <1>11, <1>12, <1>13 DEF ServerInv

\* The turn ends in the log, and its answer is the newest.
LEMMA EndAskStep == ServerInv /\ S!EndAsk => ServerInv'
<1> SUFFICES ASSUME ServerInv, S!EndAsk PROVE ServerInv'
  OBVIOUS
<1> DEFINE s == S!SessionOf(taking)
           last == Len(log[s])
           a == S!Answer(taking.no, "ask", s, {})
<1>0. /\ ServerTypesInv /\ NumberedInv /\ TurnInv /\ HalfInv /\ LoggedInv /\ AnswersInOrder /\ AskedIsShown
      /\ told \in Seq(Told) /\ DOMAIN told = 1..Len(told) /\ Len(told) \in Nat
  BY SequenceFacts DEF ServerInv, ServerTypesInv
<1>1. /\ readAt = "turn" /\ log' = [log EXCEPT ![s][last].ended = TRUE] /\ S!WriteFrame(a)
      /\ taking' = S!NoFrame /\ UNCHANGED <<input, open, written, listening, cut, starts>>
  BY DEF S!EndAsk, S!client
<1>2. /\ taking \in S!Frame /\ s \in Sessions /\ taking.no \in 1..MaxFrames /\ taking.no \in Nat
      /\ a \in Told /\ a.no = taking.no /\ a.is = "ask" /\ a.session = s /\ taking.no <= written
      /\ written \in Nat
  <2>1. taking \in S!Frame /\ taking.no <= written /\ written \in Nat /\ MaxFrames \in Nat
    BY <1>0, <1>1, ServerAssumption DEF ServerTypesInv, NumberedInv
  <2>2. s \in Sessions
    BY <2>1, ServerAssumption DEF S!SessionOf, S!Frame
  <2>3. taking.no \in 1..MaxFrames /\ taking.no \in Nat
    BY <2>1 DEF S!Frame
  <2> QED
    BY <2>1, <2>2, <2>3 DEF S!Answer, Told
<1>3. /\ told' \in Seq(Told) /\ readAt' \in {"read", "stopped"}
      /\ \A i \in DOMAIN told : i \in DOMAIN told' /\ told'[i] = told[i] /\ i < Len(told) + 1
      /\ \A i \in DOMAIN told' : i \in DOMAIN told \/ (i = Len(told) + 1 /\ told'[i] = a)
  BY <1>1, <1>2, WriteFacts
<1>4. /\ log[s] \in Seq(S!Turn) /\ last \in DOMAIN log[s] /\ log[s][last].no = taking.no
      /\ log \in [Sessions -> Seq(S!Turn)] /\ log[s][last] \in S!Turn
  <2>1. log[s] \in Seq(S!Turn) /\ log[s] # <<>> /\ log[s][last].no = taking.no
        /\ log \in [Sessions -> Seq(S!Turn)]
    BY <1>0, <1>1, <1>2 DEF TurnInv, ServerTypesInv
  <2> QED
    BY <2>1, SequenceFacts
<1> HIDE DEF s, last, a
<1>5. /\ log' \in [Sessions -> Seq(S!Turn)]
      /\ \A r \in Sessions : DOMAIN log'[r] = DOMAIN log[r]
                             /\ \A k \in DOMAIN log[r] : log'[r][k].no = log[r][k].no
      /\ \A r \in Sessions : r # s => log'[r] = log[r]
      /\ \A k \in DOMAIN log[s] : log'[s][k] = IF k = last THEN [log[s][last] EXCEPT !.ended = TRUE] ELSE log[s][k]
  <2> DEFINE turned == [log[s][last] EXCEPT !.ended = TRUE]
             marked == [log[s] EXCEPT ![last] = turned]
  <2>1. turned \in S!Turn /\ turned.no = log[s][last].no /\ turned.ended
    BY <1>4 DEF S!Turn
  <2>2. log' = [log EXCEPT ![s] = marked]
    BY <1>1
  <2>3. turned = [log[s][last] EXCEPT !.ended = TRUE]
    OBVIOUS
  <2> HIDE DEF turned
  <2>4. /\ marked \in Seq(S!Turn) /\ DOMAIN marked = DOMAIN log[s]
        /\ \A k \in DOMAIN log[s] : marked[k] = IF k = last THEN turned ELSE log[s][k]
    BY <1>4, <2>1
  <2> HIDE DEF marked
  <2>5. log'[s] = marked /\ \A r \in Sessions : r # s => log'[r] = log[r]
    BY <1>2, <1>4, <2>2
  <2>6. log' \in [Sessions -> Seq(S!Turn)]
    BY <1>2, <1>4, <2>2, <2>4
  <2> QED
    BY <2>1, <2>3, <2>4, <2>5, <2>6
<1>6. ASSUME NEW m \in Nat, After(m), taking.no < m
      PROVE  After(m)'
  <2>1. ASSUME NEW i \in DOMAIN told' PROVE told'[i].no < m
    BY <1>2, <1>3, <1>6, <2>1 DEF After
  <2>2. ASSUME NEW r \in Sessions, NEW k \in DOMAIN log'[r] PROVE log'[r][k].no < m
    BY <1>5, <1>6, <2>2 DEF After
  <2> QED
    BY <2>1, <2>2 DEF After
<1>7. NumberedInv'
  <2>1. ASSUME NEW i \in DOMAIN input
        PROVE  After(input[i].no)' /\ 0 < input'[i].no /\ input'[i].no <= written
    <3>1. input[i] \in S!Frame /\ MaxFrames \in Nat
      BY <1>0, <2>1, SequenceFacts, ServerAssumption DEF ServerTypesInv
    <3>2. PICK m \in Nat : m = input[i].no /\ 0 < m
      BY <3>1 DEF S!Frame
    <3>3. After(m) /\ taking.no < m /\ m <= written /\ input'[i].no = m
      BY <1>0, <1>1, <2>1, <3>2 DEF NumberedInv
    <3>4. After(m)'
      BY <1>6, <3>3
    <3> QED
      BY <3>2, <3>3, <3>4 DEF After
  <2>2. After(written + 1)'
    <3>1. After(written + 1) /\ taking.no < written + 1 /\ written + 1 \in Nat
      BY <1>0, <1>2 DEF NumberedInv
    <3>2. PICK m \in Nat : m = written + 1
      BY <3>1
    <3>3. After(m)' /\ written' = written
      BY <1>1, <1>6, <3>1, <3>2
    <3> QED
      BY <3>2, <3>3 DEF After
  <2>3. taking'.no = 0 /\ 0 <= written
    BY <1>1, <1>2 DEF S!NoFrame
  <2>4. \A i, j \in DOMAIN input' : i < j => input'[i].no < input'[j].no
    BY <1>0, <1>1 DEF NumberedInv
  <2> QED
    BY <1>1, <1>3, <2>1, <2>2, <2>3, <2>4 DEF NumberedInv
<1>8. AnswersInOrder'
  <2> SUFFICES ASSUME NEW i \in DOMAIN told', NEW j \in DOMAIN told', i < j, told'[i].no # 0, told'[j].no # 0
               PROVE  told'[i].no < told'[j].no
    BY DEF AnswersInOrder, S!AnswersInOrder
  <2>1. i \in DOMAIN told
    BY <1>0, <1>3
  <2>2. CASE j \in DOMAIN told
    BY <1>0, <1>3, <2>1, <2>2 DEF AnswersInOrder, S!AnswersInOrder
  <2>3. CASE told'[j] = a
    BY <1>0, <1>1, <1>2, <1>3, <2>1, <2>3 DEF NumberedInv
  <2> QED
    BY <1>3, <2>2, <2>3
<1>9. AskedIsShown'
  <2> SUFFICES ASSUME NEW j \in DOMAIN told', told'[j].is = "get"
               PROVE  /\ \A i \in 1..j - 1 :
                           told'[i].is = "ask" /\ told'[i].session = told'[j].session =>
                              told'[i].no \in told'[j].shows
                      /\ \A no \in told'[j].shows : no < told'[j].no
    BY DEF AskedIsShown, S!AskedIsShown
  <2>1. \A i \in 1..j - 1 : i \in DOMAIN told
    BY <1>0, <1>3
  <2>2. j \in DOMAIN told
    BY <1>2, <1>3
  <2> QED
    BY <1>0, <1>3, <2>1, <2>2 DEF AskedIsShown, S!AskedIsShown
<1>10. LoggedInv'
  <2> SUFFICES ASSUME NEW i \in DOMAIN told', told'[i].is = "ask"
               PROVE  /\ told'[i].session \in Sessions
                      /\ \E k \in DOMAIN log'[told'[i].session] : log'[told'[i].session][k].no = told'[i].no
    BY DEF LoggedInv
  <2>1. CASE i \in DOMAIN told
    <3>1. /\ told[i].session \in Sessions
          /\ \E k \in DOMAIN log[told[i].session] : log[told[i].session][k].no = told[i].no
      BY <1>0, <1>3, <2>1 DEF LoggedInv
    <3> QED
      BY <1>3, <1>5, <2>1, <3>1
  <2>2. CASE told'[i] = a
    BY <1>2, <1>4, <1>5, <2>2
  <2> QED
    BY <1>3, <2>1, <2>2
<1>11. HalfInv'
  <2> SUFFICES ASSUME NEW r \in Sessions, NEW i \in DOMAIN log'[r], ~log'[r][i].ended
               PROVE  log'[r][i].no \in cut
    BY <1>1 DEF HalfInv
  <2>1. i \in DOMAIN log[r] /\ log'[r][i].no = log[r][i].no
    BY <1>5
  <2>2. ~(r = s /\ i = last) /\ ~log[r][i].ended
    <3>1. [log[s][last] EXCEPT !.ended = TRUE].ended
      BY <1>4 DEF S!Turn
    <3> QED
      BY <1>4, <1>5, <2>1, <3>1
  <2> QED
    BY <1>0, <1>1, <2>1, <2>2 DEF HalfInv, s, last
<1>12. TurnInv'
  BY <1>3 DEF TurnInv
<1>13. ServerTypesInv'
  BY <1>0, <1>1, <1>3, <1>5 DEF ServerTypesInv
<1> QED
  BY <1>7, <1>8, <1>9, <1>10, <1>11, <1>12, <1>13 DEF ServerInv

LEMMA LoggedTyped == ServerTypesInv => \A s \in Sessions : \A k \in DOMAIN log[s] : log[s][k].no \in Nat
<1> SUFFICES ASSUME ServerTypesInv, NEW s \in Sessions, NEW k \in DOMAIN log[s]
             PROVE  log[s][k].no \in Nat
  OBVIOUS
<1>1. log[s] \in Seq(S!Turn)
  BY DEF ServerTypesInv
<1>2. log[s][k] \in S!Turn
  BY <1>1, SequenceFacts
<1> QED
  BY <1>2, ServerAssumption DEF S!Turn

\* What the client does, and a frame that is not answered: the input may grow at its end,
\* or shrink at its front.
LEMMA InputStep ==
    ASSUME ServerInv, UNCHANGED <<readAt, taking, log, told, cut, starts>>,
           open' \in BOOLEAN, listening' \in BOOLEAN, input' \in Seq(S!Frame),
           written' \in 0..MaxFrames, written <= written',
           \A i \in DOMAIN input' :
              \/ \E k \in DOMAIN input : input'[i] = input[k]
              \/ input'[i].no = written + 1 /\ written + 1 <= written',
           \A i, j \in DOMAIN input' : i < j => input'[i].no < input'[j].no
    PROVE  ServerInv'
<1>0. /\ ServerTypesInv /\ NumberedInv /\ TurnInv /\ HalfInv /\ LoggedInv /\ AnswersInOrder /\ AskedIsShown
      /\ written \in Nat /\ written' \in Nat
  BY ServerAssumption DEF ServerInv, ServerTypesInv
<1>1. \A i \in DOMAIN told : told[i].no \in Nat
  <2>1. \A i \in DOMAIN told : told[i] \in Told
    BY <1>0, SequenceFacts DEF ServerTypesInv
  <2> QED
    BY <2>1 DEF Told
<1>2. \A s \in Sessions : \A k \in DOMAIN log[s] : log[s][k].no \in Nat
  BY <1>0, LoggedTyped
<1>3. taking.no \in Nat
  BY <1>0, ServerAssumption DEF ServerTypesInv, S!Frame, S!NoFrame
<1>4. After(written' + 1)
  BY <1>0, <1>1, <1>2 DEF NumberedInv, After
<1>5. ASSUME NEW i \in DOMAIN input'
      PROVE  /\ \A k \in DOMAIN told : told[k].no < input'[i].no
             /\ \A s \in Sessions : \A k \in DOMAIN log[s] : log[s][k].no < input'[i].no
             /\ taking.no < input'[i].no /\ input'[i].no <= written'
  <2>1. CASE \E k \in DOMAIN input : input'[i] = input[k]
    <3>1. PICK k \in DOMAIN input : input'[i] = input[k]
      BY <2>1
    <3>2. input[k] \in S!Frame /\ MaxFrames \in Nat
      BY <1>0, SequenceFacts, ServerAssumption DEF ServerTypesInv
    <3>3. input[k].no \in Nat
      BY <3>2 DEF S!Frame
    <3> QED
      BY <1>0, <3>1, <3>3 DEF NumberedInv, After
  <2>2. CASE input'[i].no = written + 1 /\ written + 1 <= written'
    BY <1>0, <1>3, <2>2 DEF NumberedInv, After
  <2> QED
    BY <1>5, <2>1, <2>2
<1>6. NumberedInv'
  <2>1. taking.no <= written'
    BY <1>0, <1>3 DEF NumberedInv
  <2>2. readAt = "turn" => \A i \in DOMAIN told : told[i].no < taking.no
    BY <1>0 DEF NumberedInv
  <2>3. After(written + 1)'
    BY <1>4 DEF After
  <2>4. \A i \in DOMAIN input' : After(input[i].no)'
    BY <1>5 DEF After
  <2> QED
    BY <1>5, <2>1, <2>2, <2>3, <2>4 DEF NumberedInv
<1> QED
  BY <1>0, <1>6 DEF ServerInv, ServerTypesInv, TurnInv, HalfInv, LoggedInv, AnswersInOrder, S!AnswersInOrder,
                    AskedIsShown, S!AskedIsShown

LEMMA ClientStep ==
    ServerInv /\ ((\E kind \in S!Kinds, s \in Sessions \cup {"none"} : S!Send(kind, s)) \/ S!HangUp \/ S!StopReading)
      => ServerInv'
<1>0. ASSUME ServerInv
      PROVE  /\ input \in Seq(S!Frame) /\ written \in 0..MaxFrames /\ open \in BOOLEAN /\ listening \in BOOLEAN
             /\ \A i, j \in DOMAIN input : i < j => input[i].no < input[j].no
             /\ \A i \in DOMAIN input : input[i].no <= written
             /\ MaxFrames \in Nat /\ written \in Nat
  BY <1>0, ServerAssumption DEF ServerInv, ServerTypesInv, NumberedInv
<1>1. ASSUME ServerInv, NEW kind \in S!Kinds, NEW s \in Sessions \cup {"none"}, S!Send(kind, s)
      PROVE  ServerInv'
  <2> DEFINE frame == [no |-> written + 1, kind |-> kind, session |-> s]
  <2>1. /\ written < MaxFrames /\ written' = written + 1 /\ input' = Append(input, frame)
        /\ UNCHANGED <<readAt, open, listening, taking, log, told, cut, starts>>
    BY <1>1 DEF S!Send
  <2>2. frame \in S!Frame /\ frame.no = written + 1 /\ written' \in 0..MaxFrames /\ written <= written'
        /\ written + 1 <= written'
    BY <1>0, <1>1, <2>1 DEF S!Frame
  <2> HIDE DEF frame
  <2>3. /\ input' \in Seq(S!Frame) /\ Len(input) \in Nat
        /\ \A i \in DOMAIN input : input'[i] = input[i] /\ input[i] \in S!Frame /\ i \in 1..Len(input)
        /\ \A i \in DOMAIN input' : i \in DOMAIN input \/ (i = Len(input) + 1 /\ input'[i] = frame)
    BY <1>0, <1>1, <2>1, <2>2, SequenceFacts
  <2>4. ASSUME NEW i \in DOMAIN input', NEW j \in DOMAIN input', i < j
        PROVE  input'[i].no < input'[j].no
    <3>1. i \in DOMAIN input
      BY <2>3, <2>4
    <3>2. input[i].no <= written /\ input[i].no \in Nat
      BY <1>0, <1>1, <2>3, <3>1 DEF S!Frame
    <3> QED
      BY <1>0, <1>1, <2>2, <2>3, <2>4, <3>1, <3>2
  <2>5. \A i \in DOMAIN input' :
           \/ \E k \in DOMAIN input : input'[i] = input[k]
           \/ input'[i].no = written + 1 /\ written + 1 <= written'
    BY <2>2, <2>3
  <2> QED
    BY <1>0, <1>1, <2>1, <2>2, <2>3, <2>4, <2>5, InputStep
<1>2. ASSUME ServerInv, S!HangUp \/ S!StopReading
      PROVE  ServerInv'
  <2>1. /\ UNCHANGED <<readAt, input, written, taking, log, told, cut, starts>>
        /\ open' \in BOOLEAN /\ listening' \in BOOLEAN
    BY <1>0, <1>2 DEF S!HangUp, S!StopReading, S!client
  <2>2. written <= written' /\ input' = input
    BY <1>0, <1>2, <2>1
  <2> QED
    BY <1>0, <1>2, <2>1, <2>2, InputStep
<1> QED
  BY <1>1, <1>2

LEMMA SkipStep == ServerInv /\ S!Skip => ServerInv'
<1> SUFFICES ASSUME ServerInv, S!Skip PROVE ServerInv'
  OBVIOUS
<1>1. /\ input # <<>> /\ S!Taken
      /\ UNCHANGED <<readAt, open, written, listening, taking, log, told, cut, starts>>
  BY DEF S!Skip, S!Reads, S!Taken
<1>2. /\ input' \in Seq(S!Frame)
      /\ \A i \in DOMAIN input' : \E k \in DOMAIN input : input'[i] = input[k]
      /\ \A i, j \in DOMAIN input' : i < j => input'[i].no < input'[j].no
  BY <1>1, TakenFacts
<1>3. /\ open \in BOOLEAN /\ listening \in BOOLEAN /\ written \in 0..MaxFrames
      /\ open' = open /\ listening' = listening /\ written' = written /\ written <= written
  BY <1>1, ServerAssumption DEF ServerInv, ServerTypesInv
<1> QED
  BY <1>1, <1>2, <1>3, InputStep

LEMMA TellSteps == ServerInv /\ (S!AnswerAtOnce \/ S!CallSessions) => ServerInv'
<1> SUFFICES ASSUME ServerInv, S!AnswerAtOnce \/ S!CallSessions PROVE ServerInv'
  OBVIOUS
<1> DEFINE frame == Head(input)
           s == Head(input).session
<1>1. /\ readAt = "read" /\ input # <<>> /\ S!Taken
      /\ UNCHANGED <<listening, taking, log, cut, starts>>
  BY DEF S!AnswerAtOnce, S!CallSessions, S!Reads
<1>2. frame \in S!Frame /\ frame.no \in Nat /\ s \in Sessions \cup {"none"}
  <2>1. frame \in S!Frame /\ frame.no \in 1..MaxFrames
    BY <1>1, TakenFacts
  <2> QED
    BY <2>1, ServerAssumption DEF S!Frame
<1>3. \A r \in Sessions : S!TurnsOf(r) \subseteq Nat
  BY LoggedTyped DEF ServerInv, S!TurnsOf
<1>4. \E a \in Told :
        /\ S!WriteFrame(a) /\ a.no \in {0, frame.no} /\ a.is # "ask"
        /\ a.is = "get" => a.session \in Sessions /\ a.no = frame.no /\ a.shows = S!TurnsOf(a.session)
  <2>1. CASE S!AnswerAtOnce
    <3> DEFINE a == S!Answer(IF frame.kind = "answer" THEN frame.no ELSE 0, frame.kind, "none", {})
    <3>1. S!WriteFrame(a)
      BY <2>1 DEF S!AnswerAtOnce
    <3>2. frame.kind \in {"unreadable", "answer"}
      BY <2>1 DEF S!AnswerAtOnce, S!Reads
    <3>3. a \in Told /\ a.no \in {0, frame.no} /\ a.is = frame.kind
      BY <1>2, <3>2 DEF S!Answer, Told
    <3> HIDE DEF a
    <3> QED
      BY <3>1, <3>2, <3>3
  <2>2. CASE S!CallSessions
    <3> DEFINE a == IF frame.kind = "list"
                      THEN S!Answer(frame.no, "list", "none", S!SessionsListed)
                    ELSE IF s = "none" THEN S!Answer(frame.no, "answer", "none", {})
                    ELSE S!Answer(frame.no, "get", s, S!TurnsOf(s))
    <3>1. S!WriteFrame(a)
      BY <2>2 DEF S!CallSessions
    <3>2. /\ a \in Told /\ a.no = frame.no /\ a.is \in {"list", "answer", "get"}
          /\ a.is = "get" => a.session \in Sessions /\ a.shows = S!TurnsOf(a.session)
      <4>1. CASE frame.kind = "list"
        BY <1>2, <4>1 DEF S!Answer, S!SessionsListed, Told
      <4>2. CASE frame.kind # "list" /\ s = "none"
        BY <1>2, <4>2 DEF S!Answer, Told
      <4>3. CASE frame.kind # "list" /\ s # "none"
        <5>1. s \in Sessions
          BY <1>2, <4>3
        <5> QED
          BY <1>2, <1>3, <4>3, <5>1 DEF S!Answer, Told
      <4> QED
        BY <4>1, <4>2, <4>3
    <3> HIDE DEF a
    <3> QED
      BY <3>1, <3>2
  <2> QED
    BY <2>1, <2>2
<1> QED
  BY <1>1, <1>4, TellStep

\* A kill empties the pipes, and whatever turn runs is cut short.
LEMMA StopSteps == ServerInv /\ (S!Ends \/ S!Kill \/ S!Start) => ServerInv'
<1> SUFFICES ASSUME ServerInv, S!Ends \/ S!Kill \/ S!Start PROVE ServerInv'
  OBVIOUS
<1>0. /\ ServerTypesInv /\ NumberedInv /\ TurnInv /\ HalfInv /\ LoggedInv /\ AnswersInOrder /\ AskedIsShown
  BY DEF ServerInv
<1>1. UNCHANGED <<log, told, written>> /\ readAt' # "turn"
  BY DEF S!Ends, S!Kill, S!Start, S!client
<1>2. TurnInv' /\ LoggedInv' /\ AnswersInOrder' /\ AskedIsShown'
  BY <1>0, <1>1 DEF TurnInv, LoggedInv, AnswersInOrder, S!AnswersInOrder, AskedIsShown, S!AskedIsShown
<1>3. CASE S!Kill
  <2>1. /\ taking' = S!NoFrame /\ input' = <<>> /\ open' = FALSE /\ starts < MaxKills /\ starts' = starts + 1
        /\ readAt' = "down" /\ UNCHANGED listening
        /\ cut' = IF readAt = "turn" THEN cut \cup {taking.no} ELSE cut
    BY <1>3 DEF S!Kill
  <2>2. HalfInv'
    <3> SUFFICES ASSUME NEW s \in Sessions, NEW i \in DOMAIN log[s], ~log[s][i].ended
                 PROVE  log[s][i].no \in cut'
      BY <1>1 DEF HalfInv
    <3> QED
      BY <1>0, <2>1 DEF HalfInv, TurnInv
  <2>3. NumberedInv'
    <3>1. S!NoFrame.no = 0 /\ 0 <= written
      BY <1>0, ServerAssumption DEF ServerTypesInv, S!NoFrame
    <3> QED
      BY <1>0, <1>1, <2>1, <3>1 DEF NumberedInv, After
  <2>4. cut' \subseteq 1..MaxFrames
    <3>1. readAt = "turn" => taking.no \in 1..MaxFrames
      BY <1>0 DEF ServerTypesInv, S!Frame
    <3> QED
      BY <1>0, <2>1, <3>1 DEF ServerTypesInv
  <2>5. starts' \in 0..MaxKills
    <3>1. starts \in 0..MaxKills
      BY <1>0 DEF ServerTypesInv
    <3> QED
      BY <2>1, <3>1, ServerAssumption
  <2>6. ServerTypesInv'
    <3>1. input' \in Seq(S!Frame) /\ open' \in BOOLEAN /\ listening' \in BOOLEAN
      <4>1. input' \in Seq(S!Frame)
        BY <2>1
      <4>2. open' \in BOOLEAN
        BY <2>1
      <4>3. listening' \in BOOLEAN
        BY <1>0, <2>1 DEF ServerTypesInv
      <4> QED
        BY <4>1, <4>2, <4>3
    <3>2. /\ log' \in [Sessions -> Seq(S!Turn)] /\ told' \in Seq(Told) /\ written' \in 0..MaxFrames
      BY <1>0, <1>1 DEF ServerTypesInv
    <3>3. taking' = S!NoFrame /\ readAt' = "down"
      BY <2>1
    <3> QED
      BY <2>4, <2>5, <3>1, <3>2, <3>3 DEF ServerTypesInv
  <2> QED
    BY <1>2, <2>2, <2>3, <2>6 DEF ServerInv
<1>4. CASE S!Ends \/ S!Start
  <2>1. /\ readAt # "turn" /\ readAt' \in {"read", "stopped"} /\ UNCHANGED <<input, taking, cut, starts>>
        /\ open' \in BOOLEAN /\ listening' \in BOOLEAN
    BY <1>0, <1>4 DEF S!Ends, S!Start, S!client, ServerTypesInv
  <2>2. HalfInv' /\ NumberedInv'
    BY <1>0, <1>1, <2>1 DEF HalfInv, NumberedInv, After
  <2>3. ServerTypesInv'
    BY <1>0, <1>1, <2>1 DEF ServerTypesInv
  <2> QED
    BY <1>2, <2>2, <2>3 DEF ServerInv
<1> QED
  BY <1>3, <1>4

LEMMA ServerInductive == S!Spec => []ServerInv
<1>1. S!Init => ServerInv
  <2> SUFFICES ASSUME S!Init PROVE ServerInv
    OBVIOUS
  <2>1. /\ readAt = "read" /\ input = <<>> /\ open = TRUE /\ listening = TRUE /\ taking = S!NoFrame
        /\ log = [s \in Sessions |-> <<>>] /\ told = <<>> /\ written = 0 /\ cut = {} /\ starts = 0
    BY DEF S!Init
  <2>2. ServerTypesInv
    BY <2>1, ServerAssumption DEF ServerTypesInv
  <2>3. NumberedInv
    BY <2>1 DEF NumberedInv, After, S!NoFrame
  <2> QED
    BY <2>1, <2>2, <2>3 DEF ServerInv, TurnInv, HalfInv, LoggedInv, AnswersInOrder, S!AnswersInOrder,
                            AskedIsShown, S!AskedIsShown
<1>2. ServerInv /\ [S!Next]_(S!vars) => ServerInv'
  <2>1. ASSUME ServerInv, UNCHANGED S!vars PROVE ServerInv'
    BY <2>1 DEF S!vars, S!client, ServerInv, ServerTypesInv, NumberedInv, After, TurnInv, HalfInv, LoggedInv,
                AnswersInOrder, S!AnswersInOrder, AskedIsShown, S!AskedIsShown
  <2> QED
    BY <2>1, ClientStep, SkipStep, TellSteps, BeginAskStep, EndAskStep, StopSteps DEF S!Next
<1> QED
  BY <1>1, <1>2, PTL DEF S!Spec

THEOREM ServerTypesHold == S!Spec => []ServerTypes
<1>1. ServerInv => ServerTypes
  BY DEF ServerInv, ServerTypesInv, ServerTypes, S!TypeOK
<1> QED
  BY <1>1, ServerInductive, PTL

\* One thread answers what it reads, in that order (mcp.rs, serve).
THEOREM AnswersAreInOrder == S!Spec => []AnswersInOrder
  BY ServerInductive, PTL DEF ServerInv

\* An answered `ask` is in what a later `sessions.get` shows (mcp.rs, call_ask and
\* call_sessions), across any number of kills.
THEOREM AskedAreShown == S!Spec => []AskedIsShown
  BY ServerInductive, PTL DEF ServerInv

\* Only a kill leaves a turn half done; a pipe the client closed does not.
THEOREM NoneIsHalfDone == S!Spec => []NoneHalfDone
<1>1. ServerInv => NoneHalfDone
  BY DEF ServerInv, HalfInv, TurnInv, NoneHalfDone, S!NoneHalfDone
<1> QED
  BY <1>1, ServerInductive, PTL

-----------------------------------------------------------------------------
(* The bot.  What is in memory is what a cycle fetched and has not run, in   *)
(* the order of Telegram; everything before the cycle's cursor was used, is  *)
(* in memory, or was dropped by a cut that a waiting turn's fetch preceded.  *)

\* Numbers in order.
Rising(ids) == \A i, j \in 1..Len(ids) : i < j => ids[i] < ids[j]

\* Telegram's part and the loop's: the rest of the types.
BotTyped ==
    /\ updates \in Seq(Sorts) /\ Len(updates) <= MaxUpdates
    /\ confirmed \in 0..Len(updates) /\ offset \in 1..Len(updates) + 1
    /\ cursor \in offset..Len(updates) + 1
    /\ queue \in Seq(Nat \ {0}) /\ deferred \in Seq(Nat \ {0})
    /\ current \in 0..Len(updates) /\ polls \in 0..AnswerPolls /\ errors \in 0..MaxErrors
    /\ turns \in [Tg!Ids -> Nat] /\ replies \in [Tg!Ids -> Nat] /\ cuts \in Nat

\* Where the loop is, and what it then has.
PlaceInv ==
    /\ pc \in {"poll", "next", "turn", "wait", "stopped"}
    /\ (current # 0) <=> (pc \in {"turn", "wait"})
    /\ pc = "wait" => polls > 0
    /\ pc # "stopped" => errors < MaxErrors
    /\ pc \in {"poll", "stopped"} => cursor = offset /\ queue = <<>>
    /\ pc \notin {"turn", "wait"} => deferred = <<>>

Memory == queue \o deferred

\* What is in memory is of this cycle, and stands in the order it was sent in.
OrderInv == Rising(Memory) /\ \A i \in 1..Len(Memory) : Memory[i] < cursor

InMemory(u) == \E i \in 1..Len(Memory) : Memory[i] = u

\* What a cycle's end makes of the offset: everything before it was used, or lost.
BehindInv == \A u \in 1..offset - 1 : Tg!Message(u) => Tg!Used(u) \/ Tg!MayBeLost(u)

\* What a waiting turn's fetch confirms.
CycleInv == \A u \in 1..cursor - 1 : Tg!Message(u) => Tg!Used(u) \/ InMemory(u) \/ Tg!MayBeLost(u)

\* A cut loses of what is confirmed only what a waiting turn's fetch has confirmed.
AheadInv == \A u \in 1..confirmed : InMemory(u) => u \in waited

HandledInv == \A u \in 1..confirmed : Tg!Message(u) => Tg!Used(u) \/ InMemory(u) \/ Tg!MayBeLost(u)

\* What is to come, or to be run, was used once per cycle cut at most.
OnceInv ==
    \A u \in Tg!Ids :
        /\ turns[u] + replies[u] <= 1 + cuts
        /\ InMemory(u) \/ u >= cursor => turns[u] + replies[u] <= cuts

BotInv ==
    /\ BotTyped /\ PlaceInv /\ OrderInv /\ BehindInv /\ CycleInv /\ AheadInv
    /\ HandledInv /\ OnceInv

---------------------------------------------------------------------------
(* What a fetch brings.                                                    *)

\* Induction over the naturals, for a set of them.
LEMMA NatSet ==
  ASSUME NEW P \in SUBSET Nat, 0 \in P, \A n \in P : n + 1 \in P
  PROVE  P = Nat
<1> DEFINE Less == {ss \in Nat \X Nat : ss[1] < ss[2]}
<1>1. IsWellFoundedOn(Less, Nat)
  BY NatLessThanWellFounded, Zenon DEF OpToRel
<1> SUFFICES ASSUME P # Nat PROVE FALSE
  OBVIOUS
<1> DEFINE Others == Nat \ P
<1>2. Others \subseteq Nat /\ Others # {}
  OBVIOUS
<1> HIDE DEF Less
<1>3. PICK m \in Others : \A y \in Others : ~ (<<y, m>> \in Less)
  BY <1>1, <1>2, WFMin
<1>4. m - 1 \in Nat /\ m - 1 < m
  BY <1>3
<1>5. <<m - 1, m>> \in Less
  BY <1>3, <1>4 DEF Less
<1>6. m - 1 \in P
  BY <1>3, <1>4, <1>5
<1> QED
  BY <1>3, <1>6

Lists(ids, messages) ==
    /\ Tg!ToSet(ids) = messages
    /\ \A i, j \in DOMAIN ids : i < j => ids[i] < ids[j]

\* Every set of numbers in a window can be listed in order.
LEMMA Listing ==
  ASSUME NEW first \in Nat
  PROVE  \A n \in Nat : \A messages \in SUBSET (first..first + n - 1) :
           \E ids \in Tg!BoundedSeq(messages, n) : Lists(ids, messages)
<1> DEFINE P == {n \in Nat : \A messages \in SUBSET (first..first + n - 1) :
                    \E ids \in Tg!BoundedSeq(messages, n) : Lists(ids, messages)}
<1>1. 0 \in P
  <2> SUFFICES ASSUME NEW messages \in SUBSET (first..first + 0 - 1)
               PROVE  \E ids \in Tg!BoundedSeq(messages, 0) : Lists(ids, messages)
    OBVIOUS
  <2>1. messages = {}
    OBVIOUS
  <2> DEFINE ids == [i \in 1..0 |-> 0]
  <2>2. ids \in [1..0 -> messages]
    OBVIOUS
  <2>3. ids \in Tg!BoundedSeq(messages, 0)
    BY <2>2 DEF Tg!BoundedSeq, Tg!SeqOf
  <2>4. Lists(ids, messages)
    BY <2>1 DEF Lists, Tg!ToSet
  <2> QED
    BY <2>3, <2>4
<1>2. ASSUME NEW n \in P PROVE n + 1 \in P
  <2> SUFFICES ASSUME NEW messages \in SUBSET (first..first + (n + 1) - 1)
               PROVE  \E ids \in Tg!BoundedSeq(messages, n + 1) : Lists(ids, messages)
    OBVIOUS
  <2> DEFINE last == first + n
             others == messages \ {last}
  <2>1. others \in SUBSET (first..first + n - 1)
    OBVIOUS
  <2>2. PICK ids \in Tg!BoundedSeq(others, n) : Lists(ids, others)
    BY <2>1
  <2>3. PICK m \in 0..n : ids \in [1..m -> others]
    BY <2>2 DEF Tg!BoundedSeq, Tg!SeqOf
  <2>4. CASE last \notin messages
    <3>1. others = messages
      BY <2>4
    <3>2. ids \in Tg!BoundedSeq(messages, n + 1)
      <4>1. m \in 0..n + 1
        OBVIOUS
      <4> QED
        BY <2>3, <3>1, <4>1 DEF Tg!BoundedSeq, Tg!SeqOf
    <3> QED
      BY <2>2, <3>1, <3>2
  <2>5. CASE last \in messages
    <3> DEFINE more == [i \in 1..m + 1 |-> IF i = m + 1 THEN last ELSE ids[i]]
    <3>1. more \in [1..m + 1 -> messages]
      BY <2>3, <2>5
    <3>2. more \in Tg!BoundedSeq(messages, n + 1)
      <4>1. m + 1 \in 0..n + 1
        OBVIOUS
      <4> HIDE DEF more
      <4> QED
        BY <3>1, <4>1 DEF Tg!BoundedSeq, Tg!SeqOf
    <3>3. Tg!ToSet(more) = messages
      <4>1. ASSUME NEW u \in messages PROVE \E i \in 1..m + 1 : more[i] = u
        <5>1. CASE u = last
          BY <5>1
        <5>2. CASE u # last
          <6>1. PICK i \in 1..m : ids[i] = u
            BY <2>2, <2>3, <5>2 DEF Lists, Tg!ToSet
          <6> QED
            BY <6>1
        <5> QED
          BY <5>1, <5>2
      <4>2. DOMAIN more = 1..m + 1
        OBVIOUS
      <4> HIDE DEF more
      <4> QED
        BY <3>1, <4>1, <4>2 DEF Tg!ToSet
    <3>4. ASSUME NEW i \in DOMAIN more, NEW j \in DOMAIN more, i < j PROVE more[i] < more[j]
      <4>1. i \in 1..m /\ ids[i] \in others
        BY <2>3, <3>4
      <4>2. CASE j = m + 1
        <5>1. ids[i] < last
          <6>1. ids[i] \in first..first + n - 1 /\ n \in Nat
            BY <2>1, <4>1
          <6> QED
            BY <6>1
        <5>2. i # m + 1 /\ i \in 1..m + 1 /\ j \in 1..m + 1
          BY <4>1, <4>2
        <5> QED
          BY <4>2, <5>1, <5>2
      <4>3. CASE j # m + 1
        <5>1. j \in DOMAIN ids /\ i \in DOMAIN ids
          BY <2>3, <4>1, <4>3
        <5> QED
          BY <2>2, <3>4, <4>1, <4>3, <5>1 DEF Lists
      <4> QED
        BY <4>2, <4>3
    <3> HIDE DEF more
    <3> QED
      BY <3>2, <3>3, <3>4 DEF Lists
  <2> QED
    BY <2>4, <2>5
<1>3. P = Nat
  <2> HIDE DEF P
  <2>1. P \in SUBSET Nat
    BY DEF P
  <2> QED
    BY <1>1, <1>2, <2>1, NatSet
<1> QED
  BY <1>3

\* The greater and the lesser of two numbers.
LEMMA TwoMax ==
  ASSUME NEW a \in Int, NEW b \in Int
  PROVE  Tg!Max({a, b}) = IF a >= b THEN a ELSE b
<1> DEFINE g == IF a >= b THEN a ELSE b
<1>1. g \in {a, b} /\ \A y \in {a, b} : g >= y
  OBVIOUS
<1>2. \A x \in {a, b} : (\A y \in {a, b} : x >= y) => x = g
  OBVIOUS
<1> HIDE DEF g
<1>3. Tg!Max({a, b}) = g
  BY <1>1, <1>2 DEF Tg!Max
<1> QED
  BY <1>3 DEF g

LEMMA TwoMin ==
  ASSUME NEW a \in Int, NEW b \in Int
  PROVE  Tg!Min({a, b}) = IF a <= b THEN a ELSE b
<1> DEFINE g == IF a <= b THEN a ELSE b
<1>1. g \in {a, b} /\ \A y \in {a, b} : g <= y
  OBVIOUS
<1>2. \A x \in {a, b} : (\A y \in {a, b} : x <= y) => x = g
  OBVIOUS
<1> HIDE DEF g
<1>3. Tg!Min({a, b}) = g
  BY <1>1, <1>2 DEF Tg!Min
<1> QED
  BY <1>3 DEF g

\* An answer to getUpdates: its messages, in order, from the offset on; what they make of the
\* offset is behind all of them, and no message before it but those and what is confirmed.
LEMMA FetchOf ==
  ASSUME BotTyped, NEW from \in 1..Len(updates) + 1
  PROVE  LET ids  == Tg!Fetched(from)
             mine == Tg!Texts(ids)
             next == Tg!NextOffset(ids, from)
             upto == Tg!ConfirmedBy(from)
         IN /\ mine \in Seq(Nat \ {0}) /\ Rising(mine)
            /\ upto \in 0..Len(updates) /\ upto >= confirmed /\ upto >= from - 1
            /\ upto = confirmed \/ upto = from - 1
            /\ next \in from..Len(updates) + 1
            /\ \A i \in 1..Len(mine) : mine[i] \in upto + 1..next - 1
            /\ \A u \in upto + 1..next - 1 : Tg!Message(u) => \E i \in 1..Len(mine) : mine[i] = u
<1> DEFINE ids  == Tg!Fetched(from)
           mine == Tg!Texts(ids)
           next == Tg!NextOffset(ids, from)
           upto == Tg!ConfirmedBy(from)
           last == Tg!Min({Len(updates), (upto + 1) + Limit - 1})
           messages == {u \in ids : updates[u].kind # "other"}
<1>1. /\ Limit \in Nat \ {0} /\ Len(updates) \in Nat /\ confirmed \in 0..Len(updates)
  BY BotAssumption DEF BotTyped
<1>2. /\ upto \in 0..Len(updates) /\ upto >= confirmed /\ upto >= from - 1
      /\ upto = confirmed \/ upto = from - 1
  <2>1. upto = IF confirmed >= from - 1 THEN confirmed ELSE from - 1
    BY <1>1, TwoMax DEF Tg!ConfirmedBy
  <2> QED
    BY <1>1, <2>1
<1> HIDE DEF upto
<1>3. /\ last \in Nat /\ last <= Len(updates) /\ last <= upto + Limit
  <2>1. last = IF Len(updates) <= (upto + 1) + Limit - 1 THEN Len(updates) ELSE (upto + 1) + Limit - 1
    BY <1>1, <1>2, TwoMin
  <2> HIDE DEF last
  <2> QED
    BY <1>1, <1>2, <2>1
<1>4. ids = (upto + 1)..last
  BY DEF Tg!Fetched, upto
<1> HIDE DEF last, ids
<1>5. messages \in SUBSET (upto + 1..(upto + 1) + Limit - 1)
  BY <1>1, <1>2, <1>3, <1>4
<1>6. /\ mine \in Tg!BoundedSeq(messages, Limit)
      /\ Tg!ToSet(mine) = messages
      /\ \A i, j \in DOMAIN mine : i < j => mine[i] < mine[j]
  <2>1. upto + 1 \in Nat
    BY <1>1, <1>2
  <2>2. \E texts \in Tg!BoundedSeq(messages, Limit) : Lists(texts, messages)
    BY <1>1, <1>5, <2>1, Listing
  <2>3. mine = CHOOSE texts \in Tg!BoundedSeq(messages, Limit) :
                  /\ Tg!ToSet(texts) = messages
                  /\ \A i, j \in DOMAIN texts : i < j => texts[i] < texts[j]
    BY DEF Tg!Texts
  <2> HIDE DEF mine, messages
  <2> QED
    BY <2>2, <2>3 DEF Lists
<1>7. PICK m \in 0..Limit : mine \in [1..m -> messages]
  <2> HIDE DEF mine, messages
  <2> QED
    BY <1>6 DEF Tg!BoundedSeq, Tg!SeqOf
<1>8. \A u \in messages : u \in upto + 1..last /\ u \in Nat \ {0}
  BY <1>1, <1>2, <1>3, <1>4
<1>9. \A u \in upto + 1..last : Tg!Message(u) => u \in messages
  BY <1>4 DEF Tg!Message
<1>10. next = IF mine = <<>> THEN from ELSE Tg!Last(mine) + 1
  BY DEF Tg!NextOffset
<1> HIDE DEF mine, messages, next
<1>11. m \in Nat /\ mine \in Seq(Nat \ {0}) /\ Len(mine) = m /\ DOMAIN mine = 1..m
  BY <1>1, <1>7, <1>8
<1>12. Rising(mine)
  BY <1>6, <1>11 DEF Rising
<1>13. \A i \in 1..m : mine[i] \in messages
  BY <1>7
<1>14. \A u \in messages : \E i \in 1..m : mine[i] = u
  BY <1>6, <1>11 DEF Tg!ToSet
<1>15. CASE m = 0
  <2>1. mine = <<>>
    BY <1>11, <1>15
  <2>2. next = from
    BY <1>10, <2>1
  <2> QED
    BY <1>1, <1>2, <1>11, <1>12, <1>15, <2>2 DEF mine, next, upto, ids
<1>16. CASE m # 0
  <2>1. next = mine[m] + 1
    <3>1. mine # <<>>
      BY <1>11, <1>16
    <3> QED
      BY <1>10, <1>11, <3>1 DEF Tg!Last
  <2>2. mine[m] \in upto + 1..last
    BY <1>8, <1>11, <1>13, <1>16
  <2>3. next \in from..Len(updates) + 1
    BY <1>1, <1>2, <1>3, <2>1, <2>2
  <2>4. ASSUME NEW i \in 1..m PROVE mine[i] \in upto + 1..next - 1
    <3>1. mine[i] \in upto + 1..last
      BY <1>8, <1>13
    <3>2. i < m => mine[i] < mine[m]
      BY <1>11, <1>12, <1>16 DEF Rising
    <3>3. mine[i] <= mine[m]
      BY <1>11, <2>2, <3>1, <3>2
    <3> QED
      BY <1>1, <1>2, <1>3, <2>1, <2>2, <3>1, <3>3
  <2>5. ASSUME NEW u \in upto + 1..next - 1, Tg!Message(u)
        PROVE  \E i \in 1..m : mine[i] = u
    <3>1. u \in upto + 1..last
      BY <1>1, <1>2, <1>3, <2>1, <2>2, <2>5
    <3> QED
      BY <1>9, <1>14, <2>5, <3>1
  <2> QED
    BY <1>2, <1>11, <1>12, <2>3, <2>4, <2>5 DEF mine, next, upto, ids
<1> QED
  BY <1>11, <1>15, <1>16

\* What taking the first, leaving one out and putting behind do to numbers in order.
LEMMA RisingTail ==
  ASSUME NEW ids \in Seq(Nat \ {0}), ids # <<>>, Rising(ids)
  PROVE  /\ Tail(ids) \in Seq(Nat \ {0}) /\ Rising(Tail(ids))
         /\ Head(ids) \in Nat \ {0} /\ 1 \in 1..Len(ids) /\ Head(ids) = ids[1]
         /\ \A i \in 1..Len(Tail(ids)) :
              i + 1 \in 1..Len(ids) /\ Tail(ids)[i] = ids[i + 1] /\ Tail(ids)[i] > Head(ids)
         /\ \A i \in 1..Len(ids) : ids[i] = Head(ids) \/ \E j \in 1..Len(Tail(ids)) : Tail(ids)[j] = ids[i]
<1>1. Tail(ids) \in Seq(Nat \ {0}) /\ Len(Tail(ids)) = Len(ids) - 1 /\ Len(ids) \in Nat \ {0}
  OBVIOUS
<1>2. \A i \in 1..Len(Tail(ids)) : Tail(ids)[i] = ids[i + 1]
  OBVIOUS
<1>3. Head(ids) = ids[1] /\ ids[1] \in Nat \ {0}
  OBVIOUS
<1> DEFINE rest == Tail(ids)
<1>4. \A i \in 1..Len(rest) : i + 1 \in 1..Len(ids) /\ rest[i] = ids[i + 1] /\ rest[i] > ids[1]
  <2> TAKE i \in 1..Len(rest)
  <2>1. i + 1 \in 1..Len(ids) /\ 1 \in 1..Len(ids) /\ 1 < i + 1
    BY <1>1
  <2>2. ids[1] < ids[i + 1] /\ ids[1] \in Nat /\ ids[i + 1] \in Nat
    BY <2>1 DEF Rising
  <2> QED
    BY <1>2, <2>1, <2>2
<1>5. Rising(rest)
  <2> SUFFICES ASSUME NEW i \in 1..Len(rest), NEW j \in 1..Len(rest), i < j PROVE rest[i] < rest[j]
    BY DEF Rising
  <2>1. i + 1 \in 1..Len(ids) /\ j + 1 \in 1..Len(ids) /\ i + 1 < j + 1
    BY <1>1
  <2> QED
    BY <1>2, <2>1 DEF Rising
<1>6. ASSUME NEW i \in 1..Len(ids) PROVE ids[i] = ids[1] \/ \E j \in 1..Len(rest) : rest[j] = ids[i]
  <2>1. CASE i # 1
    <3>1. i - 1 \in 1..Len(rest)
      BY <1>1, <2>1
    <3>2. rest[i - 1] = ids[(i - 1) + 1]
      BY <1>2, <3>1
    <3>3. (i - 1) + 1 = i
      OBVIOUS
    <3> HIDE DEF rest
    <3> QED
      BY <3>1, <3>2, <3>3
  <2> QED
    BY <2>1
<1> QED
  BY <1>1, <1>3, <1>4, <1>5, <1>6

LEMMA Joined ==
  ASSUME NEW a \in Seq(Nat \ {0}), NEW b \in Seq(Nat \ {0})
  PROVE  /\ a \o b \in Seq(Nat \ {0}) /\ Len(a \o b) = Len(a) + Len(b)
         /\ \A i \in 1..Len(a \o b) : (a \o b)[i] = IF i <= Len(a) THEN a[i] ELSE b[i - Len(a)]
  OBVIOUS

LEMMA RisingWithout ==
  ASSUME NEW ids \in Seq(Nat \ {0}), Rising(ids), NEW k \in 1..Len(ids)
  PROVE  LET rest == Tg!RemoveAt(ids, k)
         IN /\ rest \in Seq(Nat \ {0}) /\ Rising(rest)
            /\ \A i \in 1..Len(rest) : \E j \in 1..Len(ids) : j # k /\ rest[i] = ids[j]
            /\ \A i \in 1..Len(rest) : rest[i] # ids[k]
            /\ \A j \in 1..Len(ids) : j # k => \E i \in 1..Len(rest) : rest[i] = ids[j]
<1> DEFINE rest == Tg!RemoveAt(ids, k)
           Of(i) == IF i < k THEN i ELSE i + 1
<1>1. Len(ids) \in Nat /\ k \in Nat /\ \A i \in 1..Len(ids) : ids[i] \in Nat \ {0}
  OBVIOUS
<1>2. /\ SubSeq(ids, 1, k - 1) \in Seq(Nat \ {0}) /\ Len(SubSeq(ids, 1, k - 1)) = k - 1
      /\ \A i \in 1..k - 1 : SubSeq(ids, 1, k - 1)[i] = ids[i]
  OBVIOUS
<1>3. /\ SubSeq(ids, k + 1, Len(ids)) \in Seq(Nat \ {0}) /\ Len(SubSeq(ids, k + 1, Len(ids))) = Len(ids) - k
      /\ \A i \in 1..Len(ids) - k : SubSeq(ids, k + 1, Len(ids))[i] = ids[k + i]
  OBVIOUS
<1>4. /\ rest \in Seq(Nat \ {0}) /\ Len(rest) = Len(ids) - 1
      /\ \A i \in 1..Len(rest) : rest[i] = ids[Of(i)]
  <2> DEFINE a == SubSeq(ids, 1, k - 1)
             b == SubSeq(ids, k + 1, Len(ids))
  <2>1. rest = a \o b
    BY DEF Tg!RemoveAt
  <2> HIDE DEF a, b, rest
  <2>2. a \in Seq(Nat \ {0}) /\ b \in Seq(Nat \ {0}) /\ Len(a) = k - 1 /\ Len(b) = Len(ids) - k
    BY <1>2, <1>3 DEF a, b
  <2>3. rest \in Seq(Nat \ {0}) /\ Len(rest) = Len(a) + Len(b)
    BY <2>1, <2>2, Joined
  <2>4. \A i \in 1..Len(rest) : rest[i] = IF i <= Len(a) THEN a[i] ELSE b[i - Len(a)]
    BY <2>1, <2>2, Joined
  <2>5. Len(rest) = Len(ids) - 1
    BY <1>1, <2>2, <2>3
  <2>6. ASSUME NEW i \in 1..Len(rest) PROVE rest[i] = ids[Of(i)]
    <3>1. CASE i < k
      <4>1. i \in 1..k - 1 /\ i <= Len(a)
        BY <1>1, <2>2, <3>1
      <4>2. a[i] = ids[i]
        BY <1>2, <4>1 DEF a
      <4> QED
        BY <2>4, <3>1, <4>1, <4>2
    <3>2. CASE ~(i < k)
      <4>1. i - Len(a) \in 1..Len(ids) - k /\ ~(i <= Len(a)) /\ k + (i - Len(a)) = i + 1
        BY <1>1, <2>2, <2>5, <3>2
      <4>2. b[i - Len(a)] = ids[k + (i - Len(a))]
        BY <1>3, <4>1 DEF b
      <4> QED
        BY <2>4, <3>2, <4>1, <4>2
    <3> QED
      BY <3>1, <3>2
  <2> QED
    BY <2>3, <2>5, <2>6
<1> HIDE DEF rest
<1>5. \A i \in 1..Len(rest) : Of(i) \in 1..Len(ids) /\ Of(i) # k
  BY <1>1, <1>4
<1>6. \A i, j \in 1..Len(rest) : i < j => Of(i) < Of(j)
  BY <1>1, <1>4
<1>7. \A j \in 1..Len(ids) : j # k => \E i \in 1..Len(rest) : Of(i) = j
  <2> SUFFICES ASSUME NEW j \in 1..Len(ids), j # k PROVE \E i \in 1..Len(rest) : Of(i) = j
    OBVIOUS
  <2>1. CASE j < k
    <3>1. j \in 1..Len(rest) /\ Of(j) = j
      BY <1>1, <1>4, <2>1
    <3> QED
      BY <3>1
  <2>2. CASE j > k
    <3>1. j - 1 \in 1..Len(rest) /\ Of(j - 1) = j
      BY <1>1, <1>4, <2>2
    <3> QED
      BY <3>1
  <2> QED
    BY <1>1, <2>1, <2>2
<1> HIDE DEF Of
<1>8. Rising(rest)
  BY <1>4, <1>5, <1>6 DEF Rising
<1>9. \A i \in 1..Len(ids) : i # k => ids[i] # ids[k]
  <2> TAKE i \in 1..Len(ids)
  <2>1. i < k => ids[i] < ids[k]
    BY DEF Rising
  <2>2. k < i => ids[k] < ids[i]
    BY DEF Rising
  <2> QED
    BY <1>1, <2>1, <2>2
<1> QED
  BY <1>4, <1>5, <1>7, <1>8, <1>9 DEF rest

LEMMA RisingBehind ==
  ASSUME NEW a \in Seq(Nat \ {0}), NEW b \in Seq(Nat \ {0}), Rising(a), Rising(b), NEW c \in Nat,
         \A i \in 1..Len(a) : a[i] < c, \A i \in 1..Len(b) : b[i] >= c
  PROVE  /\ a \o b \in Seq(Nat \ {0}) /\ Rising(a \o b)
         /\ \A i \in 1..Len(a \o b) :
              (\E j \in 1..Len(a) : (a \o b)[i] = a[j]) \/ (\E j \in 1..Len(b) : (a \o b)[i] = b[j])
         /\ \A j \in 1..Len(a) : \E i \in 1..Len(a \o b) : (a \o b)[i] = a[j]
         /\ \A j \in 1..Len(b) : \E i \in 1..Len(a \o b) : (a \o b)[i] = b[j]
<1> DEFINE ab == a \o b
<1>1. ab \in Seq(Nat \ {0}) /\ Len(ab) = Len(a) + Len(b) /\ Len(a) \in Nat /\ Len(b) \in Nat
  OBVIOUS
<1>2. \A i \in 1..Len(ab) : ab[i] = IF i <= Len(a) THEN a[i] ELSE b[i - Len(a)]
  OBVIOUS
<1>3. /\ \A i \in 1..Len(a) : a[i] \in Nat /\ i \in 1..Len(ab) /\ ab[i] = a[i]
      /\ \A i \in 1..Len(b) : b[i] \in Nat /\ i + Len(a) \in 1..Len(ab) /\ ab[i + Len(a)] = b[i]
  OBVIOUS
<1> HIDE DEF ab
<1>4. \A i \in 1..Len(ab) : i \in 1..Len(a) \/ i - Len(a) \in 1..Len(b)
  BY <1>1
<1>5. Rising(ab)
  <2> SUFFICES ASSUME NEW i \in 1..Len(ab), NEW j \in 1..Len(ab), i < j PROVE ab[i] < ab[j]
    BY DEF Rising
  <2>1. CASE j <= Len(a)
    <3>1. i \in 1..Len(a) /\ j \in 1..Len(a)
      BY <1>1, <2>1
    <3>2. a[i] < a[j]
      BY <3>1 DEF Rising
    <3> QED
      BY <1>3, <3>1, <3>2
  <2>2. CASE i <= Len(a) /\ ~(j <= Len(a))
    <3>1. i \in 1..Len(a) /\ j - Len(a) \in 1..Len(b)
      BY <1>1, <2>2
    <3>2. a[i] < c /\ b[j - Len(a)] >= c /\ ab[i] = a[i] /\ ab[j] = b[j - Len(a)]
      BY <1>2, <1>3, <2>2, <3>1
    <3> QED
      BY <1>3, <3>1, <3>2
  <2>3. CASE ~(i <= Len(a)) /\ ~(j <= Len(a))
    <3>1. i - Len(a) \in 1..Len(b) /\ j - Len(a) \in 1..Len(b) /\ i - Len(a) < j - Len(a)
      BY <1>1, <2>3
    <3>2. b[i - Len(a)] < b[j - Len(a)]
      BY <3>1 DEF Rising
    <3> QED
      BY <1>2, <2>3, <3>2
  <2> QED
    BY <1>1, <2>1, <2>2, <2>3
<1>6. ASSUME NEW i \in 1..Len(ab)
      PROVE  (\E j \in 1..Len(a) : ab[i] = a[j]) \/ (\E j \in 1..Len(b) : ab[i] = b[j])
  <2>1. CASE i <= Len(a)
    <3>1. i \in 1..Len(a) /\ ab[i] = a[i]
      BY <1>1, <1>3, <2>1
    <3> QED
      BY <3>1
  <2>2. CASE ~(i <= Len(a))
    <3>1. i - Len(a) \in 1..Len(b) /\ ab[i] = b[i - Len(a)]
      BY <1>1, <1>2, <2>2
    <3> QED
      BY <3>1
  <2> QED
    BY <2>1, <2>2
<1> QED
  BY <1>1, <1>3, <1>5, <1>6 DEF ab

\* A set of naturals has a least member.
LEMMA Least ==
  ASSUME NEW I \in SUBSET Nat, I # {}
  PROVE  Tg!Min(I) \in I /\ \A i \in I : Tg!Min(I) <= i
<1> DEFINE Less == {ss \in Nat \X Nat : ss[1] < ss[2]}
<1>1. IsWellFoundedOn(Less, Nat)
  BY NatLessThanWellFounded, Zenon DEF OpToRel
<1> HIDE DEF Less
<1>2. PICK m \in I : \A y \in I : ~ (<<y, m>> \in Less)
  BY <1>1, WFMin
<1>3. \A y \in I : m <= y
  <2> SUFFICES ASSUME NEW y \in I, ~(m <= y) PROVE FALSE
    OBVIOUS
  <2>1. y \in Nat /\ m \in Nat /\ y < m
    BY <1>2
  <2>2. <<y, m>> \in Less
    BY <2>1 DEF Less
  <2> QED
    BY <1>2, <2>2
<1>4. \E x \in I : \A y \in I : x <= y
  BY <1>3
<1> QED
  BY <1>4 DEF Tg!Min

\* The place of the chat's message, if there is one.
LEMMA ChatPlace ==
  ASSUME NEW texts \in Seq(Nat \ {0})
  PROVE  Tg!OfChat(texts) \in 0..Len(texts)
<1> DEFINE I == {i \in 1..Len(texts) : updates[texts[i]].chat = updates[current].chat}
<1>1. Tg!OfChat(texts) = IF I # {} THEN Tg!Min(I) ELSE 0
  BY DEF Tg!OfChat, Tg!SelectInSeq
<1>2. I \in SUBSET Nat /\ I \subseteq 1..Len(texts) /\ Len(texts) \in Nat
  OBVIOUS
<1> HIDE DEF I
<1>3. CASE I # {}
  <2>1. Tg!Min(I) \in I
    BY <1>2, <1>3, Least
  <2>2. Tg!OfChat(texts) = Tg!Min(I)
    BY <1>1, <1>3
  <2>3. Tg!OfChat(texts) \in 1..Len(texts)
    BY <1>2, <2>1, <2>2, Zenon
  <2> QED
    BY <1>2, <2>3
<1>4. CASE I = {}
  BY <1>1, <1>2, <1>4
<1> QED
  BY <1>3, <1>4

\* What was used stays used, and what may be lost stays that.
LEMMA KeptOnce ==
  ASSUME BotTyped, BotTyped', cuts' >= cuts, refused \subseteq refused', waited \subseteq waited',
         \A u \in Tg!Ids : turns'[u] >= turns[u] /\ replies'[u] >= replies[u]
  PROVE  \A u \in Tg!Ids :
            /\ Tg!Used(u) => (Tg!Used(u))'
            /\ Tg!MayBeLost(u) => (Tg!MayBeLost(u))'
<1> TAKE u \in Tg!Ids
<1>1. /\ turns[u] \in Nat /\ replies[u] \in Nat /\ cuts \in Nat
      /\ turns'[u] \in Nat /\ replies'[u] \in Nat /\ cuts' \in Nat
  BY DEF BotTyped
<1> QED
  BY <1>1 DEF Tg!Used, Tg!MayBeLost

\* Every number up to the last update's is one.
LEMMA IdsOf ==
  ASSUME BotTyped
  PROVE  /\ Len(updates) \in Nat /\ \A u \in 1..Len(updates) : u \in Tg!Ids
         /\ \A u \in 1..confirmed : u \in 1..Len(updates) /\ u \in Tg!Ids
         /\ \A u \in 1..offset - 1 : u \in 1..Len(updates) /\ u \in Tg!Ids
         /\ \A u \in 1..cursor - 1 : u \in 1..Len(updates) /\ u \in Tg!Ids
  BY BotAssumption DEF BotTyped, Tg!Ids

\* The memory of a loop that waits for nobody, and is at a cycle's start or end.
LEMMA MemoryIs ==
  ASSUME BotTyped
  PROVE  /\ Memory \in Seq(Nat \ {0})
         /\ deferred = <<>> => Memory = queue
         /\ queue = <<>> /\ deferred = <<>> => \A u : ~InMemory(u)
<1>1. Memory \in Seq(Nat \ {0})
  BY Joined DEF BotTyped, Memory
<1>2. deferred = <<>> => Memory = queue
  BY DEF BotTyped, Memory
<1>3. ASSUME queue = <<>>, deferred = <<>>, NEW u PROVE ~InMemory(u)
  <2>1. Memory = <<>> /\ Len(<<>>) = 0
    BY <1>2, <1>3
  <2> QED
    BY <2>1 DEF InMemory
<1> QED
  BY <1>1, <1>2, <1>3

LEMMA Nothing ==
  ASSUME queue' = <<>>, deferred' = <<>>
  PROVE  Memory' = <<>> /\ Len(<<>>) = 0 /\ (\A u : ~InMemory(u))'
<1>1. Memory' = <<>> \o <<>>
  BY DEF Memory
<1>2. <<>> \o <<>> = <<>> /\ Len(<<>>) = 0
  OBVIOUS
<1>3. Memory' = <<>>
  BY <1>1, <1>2
<1> QED
  BY <1>2, <1>3 DEF InMemory

LEMMA BotInit ==
  ASSUME Tg!Init
  PROVE  BotInv
<1>1. BotTyped
  BY BotAssumption DEF Tg!Init, BotTyped, Tg!Ids
<1>2. \A u : ~InMemory(u)
  BY <1>1, MemoryIs DEF Tg!Init
<1>3. OrderInv
  <2>1. Memory = <<>>
    BY <1>1, MemoryIs DEF Tg!Init
  <2>2. Len(<<>>) = 0
    OBVIOUS
  <2> QED
    BY <2>1, <2>2 DEF OrderInv, Rising
<1>4. PlaceInv
  BY BotAssumption DEF Tg!Init, PlaceInv
<1>5. BehindInv /\ CycleInv /\ AheadInv /\ HandledInv
  BY DEF Tg!Init, BehindInv, CycleInv, AheadInv, HandledInv
<1>6. OnceInv
  BY <1>2 DEF Tg!Init, OnceInv
<1> QED
  BY <1>1, <1>3, <1>4, <1>5, <1>6 DEF BotInv

LEMMA SendStep ==
  ASSUME BotInv, NEW sort \in Sorts, Tg!Send(sort)
  PROVE  BotInv'
<1> USE DEF BotInv
<1>1. /\ UNCHANGED <<confirmed, offset, errors, cursor, queue, deferred, pc, current, polls, asks,
                     failures, kills, cuts, turns, replies, refused, waited>>
      /\ updates' = Append(updates, sort) /\ Len(updates) < MaxUpdates
  BY DEF Tg!Send, Tg!loop, Tg!turn, Tg!faults, Tg!uses
<1>2. /\ updates' \in Seq(Sorts) /\ Len(updates') = Len(updates) + 1 /\ Len(updates) \in Nat
      /\ \A u \in 1..Len(updates) : updates'[u] = updates[u]
  BY <1>1 DEF BotTyped
<1>3. BotTyped'
  <2>1. /\ confirmed \in 0..Len(updates) /\ offset \in 1..Len(updates) + 1
        /\ cursor \in offset..Len(updates) + 1 /\ current \in 0..Len(updates)
    BY DEF BotTyped
  <2>2. /\ confirmed' \in 0..Len(updates') /\ offset' \in 1..Len(updates') + 1
        /\ cursor' \in offset'..Len(updates') + 1 /\ current' \in 0..Len(updates')
        /\ Len(updates') <= MaxUpdates
    BY <1>1, <1>2, <2>1, BotAssumption
  <2> QED
    BY <1>1, <1>2, <2>2 DEF BotTyped
<1>4. PlaceInv' /\ OrderInv' /\ AheadInv' /\ OnceInv' /\ \A u : InMemory(u)' = InMemory(u)
  BY <1>1 DEF PlaceInv, OrderInv, AheadInv, OnceInv, InMemory, Memory, Rising, Tg!Ids
<1>5. \A u \in 1..Len(updates) :
         /\ (Tg!Message(u))' = Tg!Message(u) /\ (Tg!Used(u))' = Tg!Used(u)
         /\ (Tg!MayBeLost(u))' = Tg!MayBeLost(u)
  BY <1>1, <1>2 DEF Tg!Message, Tg!Used, Tg!MayBeLost
<1>6. BehindInv' /\ CycleInv' /\ HandledInv'
  BY <1>1, <1>4, <1>5, IdsOf DEF BehindInv, CycleInv, HandledInv
<1> QED
  BY <1>3, <1>4, <1>6

LEMMA BotPollStep ==
  ASSUME BotInv, Tg!Poll
  PROVE  BotInv'
<1> USE DEF BotInv
<1> DEFINE mine == Tg!Texts(Tg!Fetched(offset))
           next == Tg!NextOffset(Tg!Fetched(offset), offset)
           upto == Tg!ConfirmedBy(offset)
<1>1. /\ UNCHANGED <<updates, offset, errors, deferred, current, polls, asks,
                     failures, kills, cuts, turns, replies, refused, waited>>
      /\ pc = "poll" /\ pc' = "next" /\ queue' = mine /\ cursor' = next /\ confirmed' = upto
  BY DEF Tg!Poll, Tg!loop, Tg!turn, Tg!faults, Tg!uses
<1>2. /\ mine \in Seq(Nat \ {0}) /\ Rising(mine)
      /\ upto \in 0..Len(updates) /\ upto >= confirmed /\ upto >= offset - 1
      /\ upto = confirmed \/ upto = offset - 1
      /\ next \in offset..Len(updates) + 1
      /\ \A i \in 1..Len(mine) : mine[i] \in upto + 1..next - 1
      /\ \A u \in upto + 1..next - 1 : Tg!Message(u) => \E i \in 1..Len(mine) : mine[i] = u
  <2>1. offset \in 1..Len(updates) + 1
    BY DEF BotTyped
  <2> QED
    BY <2>1, FetchOf
<1> HIDE DEF mine, next, upto
<1>3. queue = <<>> /\ deferred = <<>> /\ cursor = offset
  BY <1>1 DEF PlaceInv
<1>4. \A u : ~InMemory(u)
  BY <1>3, MemoryIs
<1>5. BotTyped'
  BY <1>1, <1>2, BotAssumption DEF BotTyped
<1>6. PlaceInv'
  BY <1>1, <1>3 DEF PlaceInv
<1>7. Memory' = mine
  BY <1>1, <1>3, <1>5, MemoryIs DEF Memory, BotTyped
<1>8. \A u : InMemory(u)' <=> \E i \in 1..Len(mine) : mine[i] = u
  BY <1>7 DEF InMemory
<1>9. OrderInv'
  <2>0. next \in Nat /\ upto \in Nat
    BY <1>2, IdsOf DEF BotTyped
  <2>1. \A i \in 1..Len(mine) : mine[i] < next
    BY <1>2, <2>0
  <2> QED
    BY <1>1, <1>2, <1>7, <2>1 DEF OrderInv
<1>10. \A u : /\ (Tg!Message(u))' = Tg!Message(u) /\ (Tg!Used(u))' = Tg!Used(u)
              /\ (Tg!MayBeLost(u))' = Tg!MayBeLost(u)
  BY <1>1 DEF Tg!Message, Tg!Used, Tg!MayBeLost
<1>11. BehindInv'
  BY <1>1, <1>10 DEF BehindInv
<1>12. \A u \in 1..upto : Tg!Message(u) => Tg!Used(u) \/ Tg!MayBeLost(u)
  BY <1>2, <1>4 DEF BehindInv, HandledInv
<1>13. HandledInv'
  BY <1>1, <1>10, <1>12 DEF HandledInv
<1>14. CycleInv'
  <2> SUFFICES ASSUME NEW u \in 1..next - 1, Tg!Message(u)
               PROVE  Tg!Used(u) \/ Tg!MayBeLost(u) \/ \E i \in 1..Len(mine) : mine[i] = u
    BY <1>1, <1>8, <1>10 DEF CycleInv
  <2>1. u \in 1..upto \/ u \in upto + 1..next - 1
    BY <1>2, IdsOf
  <2> QED
    BY <1>2, <1>12, <2>1
<1>15. AheadInv'
  <2>1. \A u \in 1..upto : \A i \in 1..Len(mine) : mine[i] # u
    BY <1>2, IdsOf
  <2> QED
    BY <1>1, <1>8, <2>1 DEF AheadInv
<1>16. OnceInv'
  <2>0. upto \in Nat /\ next \in Nat /\ offset \in Nat
    BY <1>2, IdsOf DEF BotTyped
  <2>1. \A i \in 1..Len(mine) : mine[i] >= cursor
    BY <1>2, <1>3, <2>0
  <2>2. \A u \in Tg!Ids : u >= next => u >= cursor
    BY <1>2, <1>3, IdsOf, BotAssumption DEF BotTyped, Tg!Ids
  <2> QED
    BY <1>1, <1>8, <2>1, <2>2 DEF OnceInv, Tg!Ids
<1> QED
  BY <1>5, <1>6, <1>9, <1>11, <1>13, <1>14, <1>15, <1>16

\* A cycle that fails: the memory is gone, and the offset as before.
LEMMA CycleGone ==
  ASSUME BotInv, Tg!CycleFails, pc # "stopped", confirmed' \in confirmed..Len(updates), waited' = waited,
         cuts' \in Nat, cuts' >= cuts,
         \A u \in 1..confirmed' : Tg!Message(u) => Tg!Used(u) \/ (Tg!MayBeLost(u))',
         \A u \in Tg!Ids : turns[u] + replies[u] <= 1 + cuts' /\ (u >= offset => turns[u] + replies[u] <= cuts')
  PROVE  BotInv'
<1> USE DEF BotInv
<1>1. /\ UNCHANGED <<updates, offset, turns, replies, refused, waited>>
      /\ errors' = errors + 1 /\ pc' = IF errors' >= MaxErrors THEN "stopped" ELSE "poll"
      /\ queue' = <<>> /\ deferred' = <<>> /\ cursor' = offset /\ current' = 0 /\ polls' = 0
  BY DEF Tg!CycleFails, Tg!uses
<1>2. errors' \in 0..MaxErrors /\ MaxErrors \in Nat
  BY <1>1, BotAssumption DEF BotTyped, PlaceInv
<1>3. BotTyped'
  <2>1. 0 \in 0..AnswerPolls /\ <<>> \in Seq(Nat \ {0}) /\ 0 \in 0..Len(updates)
    BY BotAssumption, IdsOf
  <2>2. offset \in offset..Len(updates) + 1 /\ confirmed' \in 0..Len(updates)
    BY IdsOf DEF BotTyped
  <2> QED
    BY <1>1, <1>2, <2>1, <2>2 DEF BotTyped
<1>4. PlaceInv'
  BY <1>1, <1>2, BotAssumption DEF PlaceInv
<1>5. (\A u : ~InMemory(u))'
  BY <1>1, Nothing
<1>6. OrderInv'
  <2>1. Memory' = <<>> /\ Len(<<>>) = 0
    BY <1>1, Nothing
  <2> QED
    BY <2>1 DEF OrderInv, Rising
<1>7. \A u : /\ (Tg!Message(u))' = Tg!Message(u) /\ (Tg!Used(u))' = Tg!Used(u)
             /\ Tg!MayBeLost(u) => (Tg!MayBeLost(u))'
  BY <1>1 DEF Tg!Message, Tg!Used, Tg!MayBeLost, BotTyped
<1>8. BehindInv' /\ CycleInv'
  BY <1>1, <1>7 DEF BehindInv, CycleInv
<1>9. HandledInv' /\ AheadInv'
  BY <1>1, <1>5, <1>7 DEF HandledInv, AheadInv
<1>10. OnceInv'
  BY <1>1, <1>5 DEF OnceInv, Tg!Ids
<1> QED
  BY <1>3, <1>4, <1>6, <1>8, <1>9, <1>10

\* What a request names as its offset, heard or not, stays within what was sent.
LEMMA Upto ==
  ASSUME BotTyped, NEW from \in 1..Len(updates) + 1
  PROVE  /\ Tg!ConfirmedBy(from) \in confirmed..Len(updates)
         /\ Tg!ConfirmedBy(from) = confirmed \/ Tg!ConfirmedBy(from) = from - 1
<1>1. confirmed \in 0..Len(updates) /\ Len(updates) \in Nat
  BY DEF BotTyped
<1> QED
  BY <1>1, FetchOf

LEMMA PollFailsStep ==
  ASSUME BotInv, Tg!PollFails
  PROVE  BotInv'
<1> USE DEF BotInv
<1>1. /\ pc = "poll" /\ Tg!CycleFails /\ cuts' = cuts /\ waited' = waited
      /\ confirmed' \in {confirmed, Tg!ConfirmedBy(offset)}
  BY DEF Tg!PollFails
<1>2. /\ queue = <<>> /\ deferred = <<>> /\ cursor = offset
  BY <1>1 DEF PlaceInv
<1>3. \A u : ~InMemory(u)
  BY <1>2, MemoryIs
<1>4. /\ Tg!ConfirmedBy(offset) \in confirmed..Len(updates) /\ confirmed \in confirmed..Len(updates)
      /\ Tg!ConfirmedBy(offset) = confirmed \/ Tg!ConfirmedBy(offset) = offset - 1
  BY Upto, IdsOf DEF BotTyped
<1>5. ASSUME NEW u \in 1..confirmed', Tg!Message(u) PROVE Tg!Used(u) \/ (Tg!MayBeLost(u))'
  <2>1. Tg!Used(u) \/ Tg!MayBeLost(u)
    BY <1>1, <1>3, <1>4, <1>5 DEF BehindInv, HandledInv
  <2> QED
    BY <1>1, <2>1 DEF Tg!MayBeLost
<1>6. \A u \in Tg!Ids : turns[u] + replies[u] <= 1 + cuts /\ (u >= offset => turns[u] + replies[u] <= cuts)
  BY <1>2 DEF OnceInv
<1>7. confirmed' \in confirmed..Len(updates) /\ cuts' \in Nat /\ cuts' >= cuts
  BY <1>1, <1>4 DEF BotTyped
<1> QED
  BY <1>1, <1>5, <1>6, <1>7, CycleGone

\* What a cut takes from memory is used no more, or was fetched by a waiting turn.
LEMMA CutLoses ==
  ASSUME BotInv, waited' = waited, cuts' = cuts + 1
  PROVE  /\ \A u \in 1..confirmed : Tg!Message(u) => Tg!Used(u) \/ (Tg!MayBeLost(u))'
         /\ cuts' \in Nat /\ cuts' >= cuts
         /\ \A u \in Tg!Ids : turns[u] + replies[u] <= 1 + cuts' /\ turns[u] + replies[u] <= cuts'
<1> USE DEF BotInv
<1>1. cuts \in Nat /\ cuts' > 0
  BY DEF BotTyped
<1>2. \A u \in 1..confirmed : InMemory(u) \/ Tg!MayBeLost(u) => (Tg!MayBeLost(u))'
  BY <1>1 DEF AheadInv, Tg!MayBeLost
<1>3. \A u \in Tg!Ids : turns[u] + replies[u] <= 1 + cuts /\ turns[u] \in Nat /\ replies[u] \in Nat
  BY DEF OnceInv, BotTyped
<1>4. \A u \in Tg!Ids : turns[u] + replies[u] <= 1 + cuts' /\ turns[u] + replies[u] <= cuts'
  BY <1>1, <1>3
<1> QED
  BY <1>1, <1>2, <1>4 DEF HandledInv

LEMMA ReplyFailsStep ==
  ASSUME BotInv, Tg!ReplyFails
  PROVE  BotInv'
<1> USE DEF BotInv
<1>1. pc = "turn" /\ Tg!CycleFails /\ cuts' = cuts + 1 /\ waited' = waited /\ confirmed' = confirmed
  BY DEF Tg!ReplyFails
<1>2. confirmed' \in confirmed..Len(updates)
  BY <1>1 DEF BotTyped
<1> QED
  BY <1>1, <1>2, CutLoses, CycleGone

LEMMA RestartStep ==
  ASSUME BotInv, Tg!Restart
  PROVE  BotInv'
<1> USE DEF BotInv
<1>1. /\ UNCHANGED <<updates, confirmed, turns, replies, refused, waited>>
      /\ cuts' = cuts + 1 /\ offset' = 1 /\ cursor' = 1 /\ errors' = 0 /\ pc' = "poll"
      /\ queue' = <<>> /\ deferred' = <<>> /\ current' = 0 /\ polls' = 0
  BY DEF Tg!Restart, Tg!telegram, Tg!uses
<1>2. BotTyped'
  <2>1. /\ 0 \in 0..AnswerPolls /\ <<>> \in Seq(Nat \ {0}) /\ 0 \in 0..Len(updates) /\ 0 \in 0..MaxErrors
        /\ 1 \in 1..Len(updates) + 1
    BY BotAssumption, IdsOf
  <2> QED
    BY <1>1, <2>1 DEF BotTyped
<1>3. PlaceInv'
  BY <1>1, BotAssumption DEF PlaceInv
<1>4. (\A u : ~InMemory(u))'
  BY <1>1, Nothing
<1>5. OrderInv'
  <2>1. Memory' = <<>> /\ Len(<<>>) = 0
    BY <1>1, Nothing
  <2> QED
    BY <2>1 DEF OrderInv, Rising
<1>6. BehindInv' /\ CycleInv'
  BY <1>1 DEF BehindInv, CycleInv
<1>7. \A u : (Tg!Message(u))' = Tg!Message(u) /\ (Tg!Used(u))' = Tg!Used(u)
  BY <1>1 DEF Tg!Message, Tg!Used
<1>8. HandledInv' /\ AheadInv'
  BY <1>1, <1>4, <1>7, CutLoses DEF HandledInv, AheadInv
<1>9. OnceInv'
  BY <1>1, <1>4, CutLoses DEF OnceInv, Tg!Ids
<1> QED
  BY <1>2, <1>3, <1>5, <1>6, <1>8, <1>9

LEMMA ReplyStep ==
  ASSUME BotInv, Tg!Reply
  PROVE  BotInv'
<1> USE DEF BotInv
<1>1. /\ UNCHANGED <<updates, confirmed, offset, errors, cursor, cuts, turns, replies, refused, waited>>
      /\ pc = "turn" /\ pc' = "next" /\ queue' = queue \o deferred /\ deferred' = <<>>
      /\ current' = 0 /\ polls' = 0
  BY DEF Tg!Reply, Tg!telegram, Tg!loop, Tg!faults, Tg!uses
<1>2. BotTyped'
  <2>1. 0 \in 0..AnswerPolls /\ <<>> \in Seq(Nat \ {0}) /\ 0 \in 0..Len(updates)
    BY BotAssumption, IdsOf
  <2>2. queue \o deferred \in Seq(Nat \ {0})
    BY MemoryIs DEF Memory
  <2> QED
    BY <1>1, <2>1, <2>2 DEF BotTyped
<1>3. PlaceInv'
  BY <1>1 DEF PlaceInv
<1>4. Memory' = Memory
  <2>1. Memory' = Memory \o <<>>
    BY <1>1 DEF Memory
  <2> QED
    BY <2>1, MemoryIs
<1>5. \A u : InMemory(u)' = InMemory(u)
  BY <1>4 DEF InMemory
<1>6. OrderInv'
  BY <1>1, <1>4 DEF OrderInv
<1>7. \A u : /\ (Tg!Message(u))' = Tg!Message(u) /\ (Tg!Used(u))' = Tg!Used(u)
             /\ (Tg!MayBeLost(u))' = Tg!MayBeLost(u)
  BY <1>1 DEF Tg!Message, Tg!Used, Tg!MayBeLost
<1>8. BehindInv' /\ CycleInv' /\ AheadInv' /\ HandledInv'
  BY <1>1, <1>5, <1>7 DEF BehindInv, CycleInv, AheadInv, HandledInv
<1>9. OnceInv'
  BY <1>1, <1>5 DEF OnceInv, Tg!Ids
<1> QED
  BY <1>2, <1>3, <1>6, <1>8, <1>9

LEMMA CycleEndsStep ==
  ASSUME BotInv, Tg!CycleEnds
  PROVE  BotInv'
<1> USE DEF BotInv
<1>1. /\ UNCHANGED <<updates, confirmed, cursor, queue, deferred, current, polls, cuts, turns, replies,
                     refused, waited>>
      /\ pc = "next" /\ pc' = "poll" /\ queue = <<>> /\ offset' = cursor /\ errors' = 0
  BY DEF Tg!CycleEnds, Tg!telegram, Tg!turn, Tg!faults, Tg!uses
<1>2. deferred = <<>>
  BY <1>1 DEF PlaceInv
<1>3. \A u : ~InMemory(u)
  BY <1>1, <1>2, MemoryIs
<1>4. BotTyped'
  <2>1. 0 \in 0..MaxErrors /\ cursor \in 1..Len(updates) + 1 /\ cursor \in cursor..Len(updates) + 1
    BY BotAssumption, IdsOf DEF BotTyped
  <2> QED
    BY <1>1, <2>1 DEF BotTyped
<1>5. PlaceInv'
  BY <1>1, <1>2, BotAssumption DEF PlaceInv
<1>6. OrderInv' /\ \A u : InMemory(u)' = InMemory(u)
  BY <1>1 DEF OrderInv, Memory, InMemory
<1>7. \A u : /\ (Tg!Message(u))' = Tg!Message(u) /\ (Tg!Used(u))' = Tg!Used(u)
             /\ (Tg!MayBeLost(u))' = Tg!MayBeLost(u)
  BY <1>1 DEF Tg!Message, Tg!Used, Tg!MayBeLost
<1>8. BehindInv' /\ CycleInv' /\ AheadInv' /\ HandledInv'
  BY <1>1, <1>3, <1>6, <1>7 DEF BehindInv, CycleInv, AheadInv, HandledInv
<1>9. OnceInv'
  BY <1>1, <1>6 DEF OnceInv, Tg!Ids
<1> QED
  BY <1>4, <1>5, <1>6, <1>8, <1>9

LEMMA BotAskStep ==
  ASSUME BotInv, Tg!Ask
  PROVE  BotInv'
<1> USE DEF BotInv
<1>1. /\ UNCHANGED <<updates, confirmed, offset, errors, cursor, queue, deferred, current, cuts, turns, replies,
                     refused, waited>>
      /\ pc = "turn" /\ \/ pc' = "wait" /\ polls' = AnswerPolls
                        \/ pc' = pc /\ polls' = polls
  BY DEF Tg!Ask, Tg!telegram, Tg!loop, Tg!uses
<1>2. BotTyped'
  <2>1. AnswerPolls \in 0..AnswerPolls /\ polls \in 0..AnswerPolls
    BY BotAssumption DEF BotTyped
  <2>2. polls' \in 0..AnswerPolls
    BY <1>1, <2>1
  <2> QED
    BY <1>1, <2>2 DEF BotTyped
<1>3. PlaceInv'
  BY <1>1, BotAssumption DEF PlaceInv
<1>4. OrderInv' /\ \A u : InMemory(u)' = InMemory(u)
  BY <1>1 DEF OrderInv, Memory, InMemory
<1>5. \A u : /\ (Tg!Message(u))' = Tg!Message(u) /\ (Tg!Used(u))' = Tg!Used(u)
             /\ (Tg!MayBeLost(u))' = Tg!MayBeLost(u)
  BY <1>1 DEF Tg!Message, Tg!Used, Tg!MayBeLost
<1>6. BehindInv' /\ CycleInv' /\ AheadInv' /\ HandledInv'
  BY <1>1, <1>4, <1>5 DEF BehindInv, CycleInv, AheadInv, HandledInv
<1>7. OnceInv'
  BY <1>1, <1>4 DEF OnceInv, Tg!Ids
<1> QED
  BY <1>2, <1>3, <1>4, <1>6, <1>7

\* The first of the cycle leaves the memory: whatever it is used for, the rest stands.
LEMMA HeadLeaves ==
  ASSUME BotInv, deferred = <<>>, queue # <<>>, queue' = Tail(queue), deferred' = deferred
  PROVE  /\ queue' \in Seq(Nat \ {0}) /\ Rising(Memory')
         /\ \A i \in 1..Len(Memory') : Memory'[i] < cursor
         /\ \A u : InMemory(u)' => InMemory(u) /\ u # Head(queue)
         /\ \A u : InMemory(u) => u = Head(queue) \/ InMemory(u)'
         /\ Head(queue) \in 1..Len(updates) /\ Head(queue) \in Tg!Ids
         /\ Head(queue) < cursor /\ InMemory(Head(queue))
<1> USE DEF BotInv
<1>1. queue \in Seq(Nat \ {0}) /\ Memory = queue
  BY MemoryIs DEF BotTyped
<1>2. Rising(queue)
  BY <1>1 DEF OrderInv
<1>3. /\ Tail(queue) \in Seq(Nat \ {0}) /\ Rising(Tail(queue))
      /\ Head(queue) \in Nat \ {0} /\ 1 \in 1..Len(queue) /\ Head(queue) = queue[1]
      /\ \A i \in 1..Len(Tail(queue)) :
           i + 1 \in 1..Len(queue) /\ Tail(queue)[i] = queue[i + 1] /\ Tail(queue)[i] > Head(queue)
      /\ \A i \in 1..Len(queue) :
           queue[i] = Head(queue) \/ \E j \in 1..Len(Tail(queue)) : Tail(queue)[j] = queue[i]
  BY <1>1, <1>2, RisingTail
<1>4. Memory' = Tail(queue)
  <2>1. Memory' = Tail(queue) \o <<>>
    BY DEF Memory
  <2> QED
    BY <1>3, <2>1
<1>5. Head(queue) < cursor
  BY <1>1, <1>3 DEF OrderInv
<1>6. Head(queue) \in 1..Len(updates) /\ Head(queue) \in Tg!Ids
  <2>1. Head(queue) \in 1..cursor - 1
    BY <1>3, <1>5 DEF BotTyped
  <2> QED
    BY <2>1, IdsOf
<1>7. ASSUME NEW i \in 1..Len(Memory') PROVE Memory'[i] < cursor
  <2>1. i + 1 \in 1..Len(queue) /\ Memory'[i] = queue[i + 1]
    BY <1>3, <1>4
  <2> QED
    BY <1>1, <2>1 DEF OrderInv
<1>8. ASSUME NEW u, InMemory(u)' PROVE InMemory(u) /\ u # Head(queue)
  <2>1. PICK i \in 1..Len(Tail(queue)) : Tail(queue)[i] = u
    BY <1>4, <1>8 DEF InMemory
  <2>2. i + 1 \in 1..Len(queue) /\ u = queue[i + 1] /\ u > Head(queue)
    BY <1>3, <2>1
  <2>3. u \in Nat
    BY <1>1, <2>2
  <2> QED
    BY <1>1, <1>3, <2>2, <2>3 DEF InMemory
<1>9. ASSUME NEW u, InMemory(u) PROVE u = Head(queue) \/ InMemory(u)'
  <2>1. PICK i \in 1..Len(queue) : queue[i] = u
    BY <1>1, <1>9 DEF InMemory
  <2>2. queue[i] = Head(queue) \/ \E j \in 1..Len(Tail(queue)) : Tail(queue)[j] = queue[i]
    BY <1>3
  <2> QED
    BY <1>4, <2>1, <2>2 DEF InMemory
<1>10. InMemory(Head(queue))
  BY <1>1, <1>3 DEF InMemory
<1> QED
  BY <1>3, <1>4, <1>5, <1>6, <1>7, <1>8, <1>9, <1>10

LEMMA RefuseStep ==
  ASSUME BotInv, Tg!Refuse
  PROVE  BotInv'
<1> USE DEF BotInv
<1>1. /\ UNCHANGED <<updates, confirmed, offset, errors, cursor, deferred, pc, current, polls, cuts, turns,
                     replies, waited>>
      /\ pc = "next" /\ queue # <<>> /\ queue' = Tail(queue) /\ refused' = refused \cup {Head(queue)}
  BY DEF Tg!Refuse, Tg!telegram, Tg!loop, Tg!turn, Tg!faults
<1>2. deferred = <<>>
  BY <1>1 DEF PlaceInv
<1>3. /\ queue' \in Seq(Nat \ {0}) /\ Rising(Memory')
      /\ \A i \in 1..Len(Memory') : Memory'[i] < cursor
      /\ \A u : InMemory(u)' => InMemory(u) /\ u # Head(queue)
      /\ \A u : InMemory(u) => u = Head(queue) \/ InMemory(u)'
  BY <1>1, <1>2, HeadLeaves
<1>4. BotTyped'
  BY <1>1, <1>3 DEF BotTyped
<1>5. PlaceInv'
  BY <1>1 DEF PlaceInv
<1>6. OrderInv'
  BY <1>1, <1>3 DEF OrderInv
<1>7. \A u : /\ (Tg!Message(u))' = Tg!Message(u)
             /\ Tg!Used(u) => (Tg!Used(u))'
             /\ u = Head(queue) => (Tg!Used(u))'
             /\ (Tg!MayBeLost(u))' = Tg!MayBeLost(u)
  BY <1>1 DEF Tg!Message, Tg!Used, Tg!MayBeLost
<1>8. BehindInv' /\ CycleInv' /\ AheadInv' /\ HandledInv'
  <2>1. BehindInv'
    BY <1>1, <1>7 DEF BehindInv
  <2>2. CycleInv'
    BY <1>1, <1>3, <1>7 DEF CycleInv
  <2>3. AheadInv'
    BY <1>1, <1>3 DEF AheadInv
  <2>4. HandledInv'
    BY <1>1, <1>3, <1>7 DEF HandledInv
  <2> QED
    BY <2>1, <2>2, <2>3, <2>4
<1>9. OnceInv'
  BY <1>1, <1>3 DEF OnceInv, Tg!Ids
<1> QED
  BY <1>4, <1>5, <1>6, <1>8, <1>9

LEMMA BotBeginStep ==
  ASSUME BotInv, Tg!BeginTurn
  PROVE  BotInv'
<1> USE DEF BotInv
<1>1. /\ UNCHANGED <<updates, confirmed, offset, errors, cursor, deferred, polls, cuts, replies, refused, waited>>
      /\ pc = "next" /\ pc' = "turn" /\ queue # <<>> /\ queue' = Tail(queue) /\ current' = Head(queue)
      /\ turns' = [turns EXCEPT ![Head(queue)] = turns[Head(queue)] + 1]
  BY DEF Tg!BeginTurn, Tg!telegram, Tg!loop, Tg!faults
<1>2. deferred = <<>>
  BY <1>1 DEF PlaceInv
<1>3. /\ queue' \in Seq(Nat \ {0}) /\ Rising(Memory')
      /\ \A i \in 1..Len(Memory') : Memory'[i] < cursor
      /\ \A u : InMemory(u)' => InMemory(u) /\ u # Head(queue)
      /\ \A u : InMemory(u) => u = Head(queue) \/ InMemory(u)'
      /\ Head(queue) \in 1..Len(updates) /\ Head(queue) \in Tg!Ids
      /\ Head(queue) < cursor /\ InMemory(Head(queue))
  BY <1>1, <1>2, HeadLeaves
<1>4. /\ turns \in [Tg!Ids -> Nat] /\ replies \in [Tg!Ids -> Nat] /\ cuts \in Nat /\ cursor \in Nat
      /\ turns' \in [Tg!Ids -> Nat] /\ turns'[Head(queue)] = turns[Head(queue)] + 1
      /\ \A u \in Tg!Ids : u # Head(queue) => turns'[u] = turns[u]
  <2>1. turns \in [Tg!Ids -> Nat] /\ replies \in [Tg!Ids -> Nat] /\ cuts \in Nat /\ cursor \in Nat
    BY DEF BotTyped
  <2> QED
    BY <1>1, <1>3, <2>1
<1>5. BotTyped'
  <2>1. Head(queue) \in 0..Len(updates)
    BY <1>3, IdsOf
  <2> QED
    BY <1>1, <1>3, <1>4, <2>1 DEF BotTyped
<1>6. PlaceInv'
  <2>1. Head(queue) # 0
    BY <1>3
  <2> QED
    BY <1>1, <2>1 DEF PlaceInv
<1>7. OrderInv'
  BY <1>1, <1>3 DEF OrderInv
<1>8. \A u \in Tg!Ids :
        /\ (Tg!Message(u))' = Tg!Message(u)
        /\ Tg!Used(u) => (Tg!Used(u))'
        /\ u = Head(queue) => (Tg!Used(u))'
        /\ (Tg!MayBeLost(u))' = Tg!MayBeLost(u)
  <2> TAKE u \in Tg!Ids
  <2>1. (Tg!Message(u))' = Tg!Message(u) /\ (Tg!MayBeLost(u))' = Tg!MayBeLost(u)
    BY <1>1 DEF Tg!Message, Tg!MayBeLost
  <2>2. turns'[u] >= turns[u] /\ (u = Head(queue) => turns'[u] > 0) /\ turns[u] \in Nat /\ turns'[u] \in Nat
    BY <1>4
  <2> QED
    BY <1>1, <2>1, <2>2 DEF Tg!Used
<1>9. BehindInv' /\ CycleInv' /\ AheadInv' /\ HandledInv'
  <2>1. BehindInv'
    <3> SUFFICES ASSUME NEW u \in 1..offset - 1, (Tg!Message(u))'
                 PROVE  (Tg!Used(u))' \/ (Tg!MayBeLost(u))'
      BY <1>1 DEF BehindInv
    <3>1. u \in Tg!Ids /\ Tg!Message(u)
      BY <1>8, IdsOf
    <3> QED
      BY <1>8, <3>1 DEF BehindInv
  <2>2. CycleInv'
    <3> SUFFICES ASSUME NEW u \in 1..cursor - 1, (Tg!Message(u))'
                 PROVE  (Tg!Used(u))' \/ InMemory(u)' \/ (Tg!MayBeLost(u))'
      BY <1>1 DEF CycleInv
    <3>1. u \in Tg!Ids /\ Tg!Message(u)
      BY <1>8, IdsOf
    <3> QED
      BY <1>3, <1>8, <3>1 DEF CycleInv
  <2>3. AheadInv'
    BY <1>1, <1>3 DEF AheadInv
  <2>4. HandledInv'
    <3> SUFFICES ASSUME NEW u \in 1..confirmed, (Tg!Message(u))'
                 PROVE  (Tg!Used(u))' \/ InMemory(u)' \/ (Tg!MayBeLost(u))'
      BY <1>1 DEF HandledInv
    <3>1. u \in Tg!Ids /\ Tg!Message(u)
      BY <1>8, IdsOf
    <3> QED
      BY <1>3, <1>8, <3>1 DEF HandledInv
  <2> QED
    BY <2>1, <2>2, <2>3, <2>4
<1>10. OnceInv'
  <2> SUFFICES ASSUME NEW u \in Tg!Ids
               PROVE  /\ turns'[u] + replies[u] <= 1 + cuts
                      /\ InMemory(u)' \/ u >= cursor => turns'[u] + replies[u] <= cuts
    BY <1>1 DEF OnceInv, Tg!Ids
  <2>1. CASE u = Head(queue)
    <3>1. ~InMemory(u)' /\ ~(u >= cursor)
      BY <1>3, <1>4, <2>1
    <3>2. turns[u] + replies[u] <= cuts
      BY <1>3, <2>1 DEF OnceInv
    <3>3. turns[u] \in Nat /\ replies[u] \in Nat
      BY <1>4
    <3> QED
      BY <1>4, <2>1, <3>1, <3>2, <3>3
  <2>2. CASE u # Head(queue)
    BY <1>3, <1>4, <2>2 DEF OnceInv
  <2> QED
    BY <2>1, <2>2
<1> QED
  BY <1>5, <1>6, <1>7, <1>9, <1>10

\* What a fetch of a waiting turn confirms was used, is in memory, or may be lost - before the fetch.
LEMMA WaitConfirms ==
  ASSUME BotInv, NEW upto \in confirmed..Len(updates), upto = confirmed \/ upto = cursor - 1
  PROVE  \A u \in 1..upto : Tg!Message(u) => Tg!Used(u) \/ InMemory(u) \/ Tg!MayBeLost(u)
BY DEF BotInv, HandledInv, CycleInv

LEMMA WaitFailsStep ==
  ASSUME BotInv, Tg!WaitFails
  PROVE  BotInv'
<1> USE DEF BotInv
<1>1. /\ UNCHANGED <<updates, offset, errors, cursor, queue, deferred, current, polls, cuts, turns,
                     replies, refused>>
      /\ pc = "wait" /\ pc' = "turn" /\ confirmed' \in {confirmed, Tg!ConfirmedBy(cursor)}
      /\ waited' = waited \cup (confirmed + 1..confirmed')
  BY DEF Tg!WaitFails, Tg!loop, Tg!turn, Tg!uses
<1>2. confirmed' \in confirmed..Len(updates) /\ (confirmed' = confirmed \/ confirmed' = cursor - 1)
  <2>1. cursor \in 1..Len(updates) + 1 /\ confirmed \in confirmed..Len(updates)
    BY IdsOf DEF BotTyped
  <2> QED
    BY <1>1, <2>1, Upto
<1>3. BotTyped'
  <2>1. confirmed' \in 0..Len(updates)
    BY <1>2, IdsOf DEF BotTyped
  <2> QED
    BY <1>1, <2>1 DEF BotTyped
<1>4. PlaceInv'
  BY <1>1 DEF PlaceInv
<1>5. OrderInv' /\ \A u : InMemory(u)' = InMemory(u)
  BY <1>1 DEF OrderInv, Memory, InMemory
<1>6. \A u : /\ (Tg!Message(u))' = Tg!Message(u) /\ (Tg!Used(u))' = Tg!Used(u)
             /\ Tg!MayBeLost(u) => (Tg!MayBeLost(u))'
  BY <1>1 DEF Tg!Message, Tg!Used, Tg!MayBeLost
<1>7. BehindInv' /\ CycleInv'
  BY <1>1, <1>5, <1>6 DEF BehindInv, CycleInv
<1>8. HandledInv'
  BY <1>2, <1>5, <1>6, WaitConfirms DEF HandledInv
<1>9. AheadInv'
  <2> SUFFICES ASSUME NEW u \in 1..confirmed', InMemory(u) PROVE u \in waited'
    BY <1>5 DEF AheadInv
  <2>1. u \in 1..confirmed \/ u \in confirmed + 1..confirmed'
    BY <1>2, IdsOf DEF BotTyped
  <2> QED
    BY <1>1, <2>1 DEF AheadInv
<1>10. OnceInv'
  BY <1>1, <1>5 DEF OnceInv, Tg!Ids
<1> QED
  BY <1>3, <1>4, <1>5, <1>7, <1>8, <1>9, <1>10

\* Two runs of a chain of memory put behind each other, whichever way.
LEMMA Regroup ==
  ASSUME NEW a \in Seq(Nat \ {0}), NEW b \in Seq(Nat \ {0}), NEW c \in Seq(Nat \ {0})
  PROVE  a \o (b \o c) = (a \o b) \o c
BY ConcatAssociative

LEMMA WaitPollStep ==
  ASSUME BotInv, Tg!WaitPoll
  PROVE  BotInv'
<1> USE DEF BotInv
<1> DEFINE fetched == Tg!Texts(Tg!Fetched(cursor))
           next == Tg!NextOffset(Tg!Fetched(cursor), cursor)
           upto == Tg!ConfirmedBy(cursor)
           mine == Tg!OfChat(fetched)
           rest == IF mine = 0 THEN fetched ELSE Tg!RemoveAt(fetched, mine)
<1>1. /\ UNCHANGED <<updates, offset, errors, queue, current, cuts, turns, refused>>
      /\ pc = "wait" /\ confirmed' = upto /\ waited' = waited \cup (confirmed + 1..upto)
      /\ cursor' = next /\ deferred' = deferred \o rest
      /\ replies' = IF mine = 0 THEN replies ELSE [replies EXCEPT ![fetched[mine]] = replies[fetched[mine]] + 1]
      /\ polls' = polls - 1 /\ (pc' = "turn" \/ (pc' = "wait" /\ polls' # 0))
  BY DEF Tg!WaitPoll, Tg!loop, Tg!faults
<1>2. cursor \in 1..Len(updates) + 1
  BY IdsOf DEF BotTyped
<1>3. /\ fetched \in Seq(Nat \ {0}) /\ Rising(fetched)
      /\ upto \in 0..Len(updates) /\ upto >= confirmed /\ upto >= cursor - 1
      /\ upto = confirmed \/ upto = cursor - 1
      /\ next \in cursor..Len(updates) + 1
      /\ \A i \in 1..Len(fetched) : fetched[i] \in upto + 1..next - 1
      /\ \A u \in upto + 1..next - 1 : Tg!Message(u) => \E i \in 1..Len(fetched) : fetched[i] = u
  BY <1>2, FetchOf
<1>4. mine \in 0..Len(fetched)
  BY <1>3, ChatPlace
<1> HIDE DEF next, upto, mine
<1>5. /\ rest \in Seq(Nat \ {0}) /\ Rising(rest)
      /\ \A i \in 1..Len(rest) : \E j \in 1..Len(fetched) : rest[i] = fetched[j]
      /\ mine # 0 => \A i \in 1..Len(rest) : rest[i] # fetched[mine]
      /\ \A j \in 1..Len(fetched) : j # mine => \E i \in 1..Len(rest) : rest[i] = fetched[j]
  <2> HIDE DEF fetched
  <2>1. CASE mine = 0
    <3>1. rest = fetched
      BY <2>1
    <3> QED
      BY <1>3, <2>1, <3>1
  <2>2. CASE mine # 0
    <3>1. rest = Tg!RemoveAt(fetched, mine) /\ mine \in 1..Len(fetched)
      BY <1>3, <1>4, <2>2
    <3> DEFINE left == Tg!RemoveAt(fetched, mine)
    <3>2. /\ left \in Seq(Nat \ {0}) /\ Rising(left)
          /\ \A i \in 1..Len(left) : \E j \in 1..Len(fetched) : j # mine /\ left[i] = fetched[j]
          /\ \A i \in 1..Len(left) : left[i] # fetched[mine]
          /\ \A j \in 1..Len(fetched) : j # mine => \E i \in 1..Len(left) : left[i] = fetched[j]
      BY <1>3, <3>1, RisingWithout
    <3>3. rest = left
      BY <3>1
    <3> HIDE DEF rest, left
    <3> QED
      BY <2>2, <3>2, <3>3
  <2> QED
    BY <2>1, <2>2
<1> HIDE DEF fetched, rest
<1>6. /\ next \in Nat /\ upto \in Nat /\ cursor \in Nat /\ confirmed \in Nat /\ Len(updates) \in Nat
      /\ confirmed \in 0..Len(updates)
  BY <1>2, <1>3, IdsOf DEF BotTyped
<1>7. \A i \in 1..Len(fetched) : fetched[i] >= cursor /\ fetched[i] > upto /\ fetched[i] < next /\ fetched[i] \in Nat
  BY <1>3, <1>6
<1>8. \A i \in 1..Len(rest) : rest[i] >= cursor /\ rest[i] > upto /\ rest[i] < next /\ rest[i] \in Nat
  BY <1>5, <1>7
<1>9. /\ Memory \in Seq(Nat \ {0}) /\ Rising(Memory) /\ \A i \in 1..Len(Memory) : Memory[i] < cursor
  BY MemoryIs DEF OrderInv
<1>10. Memory' = Memory \o rest
  <2>1. queue \in Seq(Nat \ {0}) /\ deferred \in Seq(Nat \ {0})
    BY DEF BotTyped
  <2>2. Memory' = queue \o (deferred \o rest)
    BY <1>1 DEF Memory
  <2> QED
    BY <1>5, <2>1, <2>2, Regroup DEF Memory
<1>11. /\ Rising(Memory')
       /\ \A i \in 1..Len(Memory') :
            (\E j \in 1..Len(Memory) : Memory'[i] = Memory[j]) \/ (\E j \in 1..Len(rest) : Memory'[i] = rest[j])
       /\ \A j \in 1..Len(Memory) : \E i \in 1..Len(Memory') : Memory'[i] = Memory[j]
       /\ \A j \in 1..Len(rest) : \E i \in 1..Len(Memory') : Memory'[i] = rest[j]
  <2> DEFINE all == Memory \o rest
  <2>1. /\ all \in Seq(Nat \ {0}) /\ Rising(all)
        /\ \A i \in 1..Len(all) :
             (\E j \in 1..Len(Memory) : all[i] = Memory[j]) \/ (\E j \in 1..Len(rest) : all[i] = rest[j])
        /\ \A j \in 1..Len(Memory) : \E i \in 1..Len(all) : all[i] = Memory[j]
        /\ \A j \in 1..Len(rest) : \E i \in 1..Len(all) : all[i] = rest[j]
    BY <1>5, <1>6, <1>8, <1>9, RisingBehind
  <2>2. Memory' = all
    BY <1>10
  <2> HIDE DEF all
  <2> QED
    BY <2>1, <2>2
<1>12. /\ \A u : InMemory(u) => InMemory(u)'
       /\ \A u : (\E j \in 1..Len(rest) : rest[j] = u) => InMemory(u)'
       /\ \A u : InMemory(u)' => InMemory(u) \/ \E j \in 1..Len(rest) : rest[j] = u
  <2>1. ASSUME NEW u, InMemory(u) PROVE InMemory(u)'
    <3>1. PICK j \in 1..Len(Memory) : Memory[j] = u
      BY <2>1 DEF InMemory
    <3>2. PICK i \in 1..Len(Memory') : Memory'[i] = Memory[j]
      BY <1>11
    <3> QED
      BY <3>1, <3>2 DEF InMemory
  <2>2. ASSUME NEW u, \E j \in 1..Len(rest) : rest[j] = u PROVE InMemory(u)'
    <3>1. PICK j \in 1..Len(rest) : rest[j] = u
      BY <2>2
    <3>2. PICK i \in 1..Len(Memory') : Memory'[i] = rest[j]
      BY <1>11
    <3> QED
      BY <3>1, <3>2 DEF InMemory
  <2>3. ASSUME NEW u, InMemory(u)' PROVE InMemory(u) \/ \E j \in 1..Len(rest) : rest[j] = u
    <3>1. PICK i \in 1..Len(Memory') : Memory'[i] = u
      BY <2>3 DEF InMemory
    <3>2. (\E j \in 1..Len(Memory) : Memory'[i] = Memory[j]) \/ (\E j \in 1..Len(rest) : Memory'[i] = rest[j])
      BY <1>11
    <3> QED
      BY <3>1, <3>2 DEF InMemory
  <2> QED
    BY <2>1, <2>2, <2>3
<1>13. OrderInv'
  <2> SUFFICES ASSUME NEW i \in 1..Len(Memory') PROVE Memory'[i] < next
    BY <1>1, <1>11 DEF OrderInv
  <2>1. CASE \E j \in 1..Len(Memory) : Memory'[i] = Memory[j]
    <3>1. PICK j \in 1..Len(Memory) : Memory'[i] = Memory[j]
      BY <2>1
    <3>2. Memory[j] < cursor /\ Memory[j] \in Nat
      BY <1>9
    <3>3. cursor <= next
      BY <1>3, <1>6
    <3> QED
      BY <1>6, <3>1, <3>2, <3>3
  <2>2. CASE \E j \in 1..Len(rest) : Memory'[i] = rest[j]
    BY <1>8, <2>2
  <2> QED
    BY <1>11, <2>1, <2>2
<1>14. mine # 0 => fetched[mine] \in Tg!Ids /\ fetched[mine] >= cursor /\ fetched[mine] < next
  <2> SUFFICES ASSUME mine # 0 PROVE fetched[mine] \in Tg!Ids /\ fetched[mine] >= cursor /\ fetched[mine] < next
    OBVIOUS
  <2>1. mine \in 1..Len(fetched)
    BY <1>3, <1>4
  <2>2. fetched[mine] \in 1..Len(updates)
    BY <1>2, <1>3, <1>6, <1>7, <2>1
  <2> QED
    BY <1>7, <2>1, <2>2, IdsOf
<1>15. /\ replies' \in [Tg!Ids -> Nat]
       /\ \A u \in Tg!Ids : replies'[u] = IF mine # 0 /\ u = fetched[mine] THEN replies[u] + 1 ELSE replies[u]
  <2>1. replies \in [Tg!Ids -> Nat]
    BY DEF BotTyped
  <2> QED
    BY <1>1, <1>14, <2>1
<1>16. BotTyped'
  <2>1. polls' \in 0..AnswerPolls
    BY <1>1, BotAssumption DEF BotTyped, PlaceInv
  <2>2. deferred' \in Seq(Nat \ {0})
    BY <1>1, <1>5, Joined DEF BotTyped
  <2>3. cursor' \in offset..Len(updates) + 1
    BY <1>1, <1>3, <1>6 DEF BotTyped
  <2> QED
    BY <1>1, <1>3, <1>15, <2>1, <2>2, <2>3 DEF BotTyped
<1>17. PlaceInv'
  <2>1. polls' # 0 => polls' > 0
    BY <1>16 DEF BotTyped
  <2> QED
    BY <1>1, <2>1 DEF PlaceInv
<1>18. \A u \in Tg!Ids :
         /\ (Tg!Message(u))' = Tg!Message(u)
         /\ Tg!Used(u) => (Tg!Used(u))'
         /\ (Tg!MayBeLost(u)) => (Tg!MayBeLost(u))'
         /\ mine # 0 /\ u = fetched[mine] => (Tg!Used(u))'
  <2> TAKE u \in Tg!Ids
  <2>1. (Tg!Message(u))' = Tg!Message(u) /\ (Tg!MayBeLost(u) => (Tg!MayBeLost(u))')
    BY <1>1 DEF Tg!Message, Tg!MayBeLost
  <2>2. replies'[u] >= replies[u] /\ replies[u] \in Nat /\ (mine # 0 /\ u = fetched[mine] => replies'[u] > 0)
    BY <1>15 DEF BotTyped
  <2> QED
    BY <1>1, <2>1, <2>2 DEF Tg!Used
<1>19. BehindInv'
  <2> SUFFICES ASSUME NEW u \in 1..offset - 1, (Tg!Message(u))'
               PROVE  (Tg!Used(u))' \/ (Tg!MayBeLost(u))'
    BY <1>1 DEF BehindInv
  <2>1. u \in Tg!Ids /\ Tg!Message(u)
    BY <1>18, IdsOf
  <2> QED
    BY <1>18, <2>1 DEF BehindInv
<1>20. ASSUME NEW u \in 1..upto, (Tg!Message(u))'
       PROVE  (Tg!Used(u))' \/ InMemory(u)' \/ (Tg!MayBeLost(u))'
  <2>1. upto \in confirmed..Len(updates)
    BY <1>3, <1>6
  <2>2. u \in Tg!Ids /\ Tg!Message(u)
    <3>1. u \in 1..Len(updates)
      BY <1>6, <2>1
    <3> QED
      BY <1>18, <1>20, <3>1, IdsOf
  <2>3. Tg!Used(u) \/ InMemory(u) \/ Tg!MayBeLost(u)
    BY <1>3, <2>1, <2>2, WaitConfirms
  <2> QED
    BY <1>12, <1>18, <2>2, <2>3
<1>21. HandledInv'
  BY <1>1, <1>20 DEF HandledInv
<1>22. CycleInv'
  <2> SUFFICES ASSUME NEW u \in 1..next - 1, (Tg!Message(u))'
               PROVE  (Tg!Used(u))' \/ InMemory(u)' \/ (Tg!MayBeLost(u))'
    BY <1>1 DEF CycleInv
  <2>1. u \in 1..upto \/ u \in upto + 1..next - 1
    BY <1>6
  <2>2. CASE u \in upto + 1..next - 1
    <3>1. u \in Tg!Ids /\ Tg!Message(u)
      <4>1. u \in 1..Len(updates)
        BY <1>2, <1>3, <1>6
      <4> QED
        BY <1>18, <4>1, IdsOf
    <3>2. PICK j \in 1..Len(fetched) : fetched[j] = u
      BY <1>3, <2>2, <3>1
    <3>3. CASE j = mine
      <4>1. mine # 0
        BY <3>3
      <4> QED
        BY <1>18, <3>1, <3>2, <3>3, <4>1
    <3>4. CASE j # mine
      <4>1. \E i \in 1..Len(rest) : rest[i] = u
        BY <1>5, <3>2, <3>4
      <4> QED
        BY <1>12, <4>1
    <3> QED
      BY <3>3, <3>4
  <2> QED
    BY <1>20, <2>1, <2>2
<1>23. AheadInv'
  <2> SUFFICES ASSUME NEW u \in 1..upto, InMemory(u)' PROVE u \in waited'
    BY <1>1 DEF AheadInv
  <2>1. InMemory(u)
    BY <1>6, <1>8, <1>12
  <2>2. u \in 1..confirmed \/ u \in confirmed + 1..upto
    BY <1>6
  <2> QED
    BY <1>1, <2>1, <2>2 DEF AheadInv
<1>24. OnceInv'
  <2> SUFFICES ASSUME NEW u \in Tg!Ids
               PROVE  /\ turns[u] + replies'[u] <= 1 + cuts
                      /\ InMemory(u)' \/ u >= next => turns[u] + replies'[u] <= cuts
    BY <1>1 DEF OnceInv, Tg!Ids
  <2>0. turns[u] \in Nat /\ replies[u] \in Nat /\ cuts \in Nat /\ u \in Nat
    BY DEF BotTyped, Tg!Ids
  <2>1. CASE mine # 0 /\ u = fetched[mine]
    <3>1. ~InMemory(u)
      BY <1>6, <1>9, <1>14, <2>0, <2>1 DEF InMemory
    <3>2. ~InMemory(u)'
      BY <1>5, <1>12, <2>1, <3>1
    <3>3. ~(u >= next)
      BY <1>6, <1>14, <2>0, <2>1
    <3>4. turns[u] + replies[u] <= cuts
      BY <1>14, <2>1 DEF OnceInv
    <3> QED
      BY <1>15, <2>0, <2>1, <3>2, <3>3, <3>4
  <2>2. CASE ~(mine # 0 /\ u = fetched[mine])
    <3>1. replies'[u] = replies[u]
      BY <1>15, <2>2
    <3>2. InMemory(u)' \/ u >= next => InMemory(u) \/ u >= cursor
      <4>1. u >= next => u >= cursor
        BY <1>3, <1>6, <2>0
      <4> QED
        BY <1>8, <1>12, <4>1
    <3> QED
      BY <3>1, <3>2 DEF OnceInv
  <2> QED
    BY <2>1, <2>2
<1> QED
  BY <1>13, <1>16, <1>17, <1>19, <1>21, <1>22, <1>23, <1>24

\* Telegram's updates may be of any kind there is.
LEMMA KindsOf ==
  ASSUME BotTyped
  PROVE  \A u \in DOMAIN updates : updates[u].kind \in Tg!Kinds
<1>1. \A u \in DOMAIN updates : updates[u] \in Sorts
  BY DEF BotTyped
<1> QED
  BY <1>1, BotAssumption DEF Tg!Kinds

\* What is in memory is in one of its two parts, and was sent.
LEMMA InParts ==
  ASSUME BotInv
  PROVE  /\ \A u : InMemory(u) <=> u \in Tg!ToSet(queue) \cup Tg!ToSet(deferred)
         /\ \A u : InMemory(u) => u \in 1..Len(updates)
<1> USE DEF BotInv
<1> DEFINE a == queue
           b == deferred
<1>1. a \in Seq(Nat \ {0}) /\ b \in Seq(Nat \ {0})
  BY DEF BotTyped
<1>2. Memory = a \o b
  BY DEF Memory
<1>3. /\ Tg!ToSet(queue) = {a[i] : i \in 1..Len(a)} /\ Tg!ToSet(deferred) = {b[i] : i \in 1..Len(b)}
  BY <1>1 DEF Tg!ToSet
<1>4. /\ Memory \in Seq(Nat \ {0}) /\ Len(Memory) = Len(a) + Len(b) /\ Len(a) \in Nat /\ Len(b) \in Nat
      /\ \A i \in 1..Len(Memory) : Memory[i] = IF i <= Len(a) THEN a[i] ELSE b[i - Len(a)]
  BY <1>1, <1>2, Joined
<1>5. \A i \in 1..Len(Memory) : Memory[i] \in Nat \ {0} /\ Memory[i] < cursor
  BY <1>4 DEF OrderInv
<1> HIDE DEF a, b
<1>6. ASSUME NEW u, InMemory(u) PROVE u \in Tg!ToSet(queue) \cup Tg!ToSet(deferred) /\ u \in 1..Len(updates)
  <2>1. PICK i \in 1..Len(Memory) : Memory[i] = u
    BY <1>6 DEF InMemory
  <2>2. CASE i <= Len(a)
    <3>1. i \in 1..Len(a) /\ u = a[i]
      BY <1>4, <2>1, <2>2
    <3> QED
      BY <1>3, <1>5, <2>1, <3>1, IdsOf DEF BotTyped
  <2>3. CASE ~(i <= Len(a))
    <3>1. i - Len(a) \in 1..Len(b) /\ u = b[i - Len(a)]
      BY <1>4, <2>1, <2>3
    <3>2. u \in Tg!ToSet(deferred)
      BY <1>3, <3>1
    <3> QED
      BY <1>5, <2>1, <3>2, IdsOf DEF BotTyped
  <2> QED
    BY <2>2, <2>3
<1>7. ASSUME NEW u \in Tg!ToSet(queue) \cup Tg!ToSet(deferred) PROVE InMemory(u)
  <2>1. CASE u \in Tg!ToSet(queue)
    <3>1. PICK i \in 1..Len(a) : a[i] = u
      BY <1>3, <2>1
    <3>2. i \in 1..Len(Memory) /\ Memory[i] = u
      BY <1>4, <3>1
    <3> QED
      BY <3>2 DEF InMemory
  <2>2. CASE u \in Tg!ToSet(deferred)
    <3>1. PICK i \in 1..Len(b) : b[i] = u
      BY <1>3, <2>2
    <3>0. i + Len(a) \in 1..Len(Memory) /\ ~(i + Len(a) <= Len(a)) /\ (i + Len(a)) - Len(a) = i
      BY <1>4
    <3>2. i + Len(a) \in 1..Len(Memory) /\ Memory[i + Len(a)] = u
      BY <1>4, <3>0, <3>1
    <3> QED
      BY <3>2 DEF InMemory
  <2> QED
    BY <2>1, <2>2
<1> QED
  BY <1>6, <1>7

\* The last step of each proof about the bot.
LEMMA BotStep ==
  ASSUME BotInv, [Tg!Next]_(Tg!vars)
  PROVE  BotInv'
<1>1. CASE UNCHANGED Tg!vars
  BY <1>1 DEF Tg!vars, Tg!telegram, Tg!loop, Tg!turn, Tg!faults, Tg!uses, BotInv, BotTyped, PlaceInv, OrderInv,
              BehindInv, CycleInv, AheadInv, HandledInv, OnceInv, InMemory, Memory, Rising,
              Tg!Message, Tg!Used, Tg!MayBeLost, Tg!Ids
<1>2. CASE Tg!Next
  BY <1>2, SendStep, BotPollStep, PollFailsStep, RefuseStep, BotBeginStep, ReplyStep, ReplyFailsStep,
     CycleEndsStep, BotAskStep, WaitPollStep, WaitFailsStep, RestartStep DEF Tg!Next, Tg!Bot
<1> QED
  BY <1>1, <1>2

\* The bot's variables keep their types (telegram.rs, main.rs).
THEOREM BotTypesHold == Tg!Spec => []BotTypes
<1>1. BotInv => BotTypes
  <2> SUFFICES ASSUME BotInv PROVE Tg!TypeOK
    BY DEF BotTypes
  <2> USE DEF BotInv
  <2>1. Tg!ToSet(queue) \cup Tg!ToSet(deferred) \subseteq 1..Len(updates)
    BY InParts
  <2>2. \A u \in DOMAIN updates : updates[u].kind \in Tg!Kinds
    BY KindsOf
  <2> QED
    BY <2>1, <2>2 DEF Tg!TypeOK, BotTyped, PlaceInv
<1> QED
  BY <1>1, BotInit, BotStep, PTL DEF Tg!Spec

\* What Telegram was told to forget was run, taken for an answer or refused, is in memory, or was
\* fetched by a waiting turn of a cycle that was cut: whatever fails, and whenever the bot is killed
\* (main.rs keeps the offset until the cycle is through; telegram.rs's deferred updates do not).
THEOREM ConfirmedAreHandled == Tg!Spec => []ConfirmedIsHandled
<1>1. BotInv => ConfirmedIsHandled
  <2> SUFFICES ASSUME BotInv, NEW u \in 1..confirmed, Tg!Message(u)
               PROVE  Tg!Used(u) \/ u \in Tg!ToSet(queue) \cup Tg!ToSet(deferred) \/ Tg!MayBeLost(u)
    BY DEF ConfirmedIsHandled, Tg!ConfirmedIsHandled
  <2>1. Tg!Used(u) \/ InMemory(u) \/ Tg!MayBeLost(u)
    BY DEF BotInv, HandledInv
  <2> QED
    BY <2>1, InParts
<1> QED
  BY <1>1, BotInit, BotStep, PTL DEF Tg!Spec

\* A message is run once or taken for one answer, and again only after a cut (telegram.rs, main.rs).
THEOREM UsedOnceEach == Tg!Spec => []OnceEach
<1>1. BotInv => OnceEach
  BY DEF BotInv, OnceInv, OnceEach, Tg!OnceEach
<1> QED
  BY <1>1, BotInit, BotStep, PTL DEF Tg!Spec

\* A turn begins with a message only when the earlier ones of its chat were used, or are lost:
\* what a waiting turn deferred is run after the batch, which is older (telegram.rs).
THEOREM OrderIsKept == Tg!Spec => InOrder
<1>1. ASSUME BotInv, [Tg!Next]_(Tg!vars), NEW u \in Tg!Ids, turns'[u] > turns[u],
             NEW v \in 1..u - 1, Tg!Message(v)
      PROVE  Tg!Used(v) \/ Tg!MayBeLost(v)
  <2> USE DEF BotInv
  <2>1. turns \in [Tg!Ids -> Nat] /\ turns' # turns
    BY <1>1 DEF BotTyped
  <2>2. Tg!BeginTurn
    BY <1>1, <2>1 DEF Tg!vars, Tg!telegram, Tg!loop, Tg!turn, Tg!faults, Tg!uses, Tg!Next, Tg!Bot, Tg!Send,
       Tg!Poll, Tg!PollFails, Tg!CycleFails, Tg!Refuse, Tg!Reply, Tg!ReplyFails, Tg!CycleEnds, Tg!Ask,
       Tg!WaitPoll, Tg!WaitFails, Tg!Restart
  <2>3. /\ queue # <<>> /\ pc = "next" /\ turns' = [turns EXCEPT ![Head(queue)] = turns[Head(queue)] + 1]
    BY <2>2 DEF Tg!BeginTurn
  <2>4. u = Head(queue)
    BY <1>1, <2>1, <2>3
  <2>5. deferred = <<>>
    BY <1>1, <2>3 DEF PlaceInv
  <2>6. queue \in Seq(Nat \ {0}) /\ Memory = queue /\ Rising(queue) /\ \A i \in 1..Len(queue) : queue[i] < cursor
    BY <1>1, <2>5, MemoryIs DEF BotTyped, OrderInv
  <2>7. /\ 1 \in 1..Len(queue) /\ Head(queue) = queue[1] /\ Len(queue) \in Nat
        /\ \A i \in 1..Len(queue) : queue[i] \in Nat
    BY <2>3, <2>6
  <2>8. ~InMemory(v)
    <3> SUFFICES ASSUME NEW i \in 1..Len(queue), queue[i] = v PROVE FALSE
      BY <2>6 DEF InMemory
    <3>1. i # 1 => queue[1] < queue[i]
      BY <2>6, <2>7 DEF Rising
    <3>2. v < queue[1]
      BY <2>4, <2>7
    <3> QED
      BY <2>7, <3>1, <3>2
  <2>9. v \in 1..cursor - 1
    <3>0. cursor \in Nat
      BY <1>1, IdsOf DEF BotTyped
    <3>1. u < cursor /\ u \in Nat /\ cursor \in Nat
      BY <2>4, <2>6, <2>7, <3>0
    <3> QED
      BY <3>1
  <2> QED
    BY <1>1, <2>8, <2>9 DEF CycleInv
<1>2. BotInv /\ [Tg!Next]_(Tg!vars) =>
        [\A u \in Tg!Ids : turns'[u] > turns[u] =>
            \A v \in 1..u - 1 : Tg!Message(v) /\ updates[v].chat = updates[u].chat =>
                Tg!Used(v) \/ Tg!MayBeLost(v)]_(Tg!vars)
  BY <1>1
<1> QED
  BY <1>2, BotInit, BotStep, PTL DEF Tg!Spec, InOrder, Tg!InOrder
==============================================================================
