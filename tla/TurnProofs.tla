------------------------------ MODULE TurnProofs ------------------------------
(***************************************************************************)
(* What holds of a turn for any interceptors, providers, tools, sinks and  *)
(* limits: the gate, the notes on turns cut short, the cap, and that the   *)
(* rows of a turn are those TurnLog promises.  And of the terminal client: *)
(* that it takes no turn for over while it runs, and keeps no question of  *)
(* one it has let go; that its keys mean what its screen says (Screen);    *)
(* and that what it shows of a conversation stays (Transcript).            *)
(***************************************************************************)
EXTENDS MCTurn, MCClient, TLAPS, SequenceTheorems, WellFoundedInduction

Dispatching == pc \in {"dispatch", "asking"}

\* In a pass over the tool calls of a completion, at the k-th.
InPass ==
    /\ Dispatching \/ pc \in {"invoke", "tool-asking"}
    /\ phase \in {"tool-call", "tool-result"}

\* The phase last dispatched says where the conductor came from.
PhaseInv ==
    /\ pc = "complete" =>
         phase \in {"before-loop", "select-tools", "prepare-next-turn", "tool-result"}
    /\ pc \in {"decide", "follow-up"} => phase = "after-response"
    /\ pc \in {"invoke", "tool-asking"} => phase = "tool-call"
    /\ pc = "passed" => phase = "tool-result"
    /\ pc = "incomplete" => phase \in {"after-response", "prepare-next-turn", "tool-result"}
    /\ pc = "answered" => phase = "finalize"

\* A pass is at one of its calls, and a call is open from its announcement to its result.
PassInv ==
    /\ InPass => k \in 1..calls
    /\ open # NoCall => InPass /\ open = k /\ (Dispatching => phase = "tool-result")

\* Whoever let a call proceed was subscribed, and was asked in order.
GateInv ==
    /\ phase = "tool-call" /\ Dispatching =>
         approved = {i \in Subscribers["tool-call"] : i < hook}
    /\ GateFailsClosed

\* A heeded stop is on its way to the note that the turn is incomplete.
CancelInv ==
    /\ marked # "no" => phase = "finalize"
    /\ marked = "replaced" => approved \cap Subscribers["finalize"] # {}
    /\ stop = "cancelled" => gone /\ "tool-result" \in reports
    /\ stopSeen => \/ pc \in {"incomplete", "failed"} \/ marked # "no"
                   \/ (InPass \/ pc = "passed") /\ stop = "cancelled"

\* So is a follow-up the model has not heard, or the model is asked next.
FollowInv == unheard => pc = "failed" \/ phase = "prepare-next-turn" \/ marked # "no"

Cap == IF MaxIterations = 0 THEN 1 ELSE MaxIterations

\* The last completion was counted as a cycle, or there is none yet; or it will be next.
Counted ==
    \/ pc \in {"complete", "passed"} \/ InPass
    \/ Dispatching /\ phase \in Shaping \cup {"before-loop"}
Uncounted ==
    \/ pc \in {"decide", "follow-up"}
    \/ Dispatching /\ phase \in {"after-response", "prepare-next-turn"}

\* Every completion is followed by the cycle that it counts as, before the next.
CountInv ==
    /\ completions <= Cap
    /\ Counted => completions = iterations /\ iterations < Cap
    /\ Uncounted => completions = iterations + 1

IInv == TypeOK /\ PhaseInv /\ PassInv /\ GateInv /\ CancelInv /\ FollowInv /\ CountInv

-----------------------------------------------------------------------------
(* The initial state and the steps. *)

\* Where the conductor may be.
PCs == {"dispatch", "asking", "complete", "decide", "follow-up", "invoke", "tool-asking", "passed",
        "incomplete", "answered", "failed"}

\* Of a dispatch that begins.
DispatchTypes ==
    /\ phase \in Phases /\ hook \in 1..(NInterceptors + 1)
    /\ blocked \in BOOLEAN /\ approved \subseteq Interceptors

LEMMA Entered ==
    ASSUME NEW p \in Phases, Enter(p)
    PROVE  pc' = "dispatch" /\ DispatchTypes'
<1>1. hook' \in 1..(NInterceptors + 1)
  BY TurnAssumption DEF Enter
<1>2. QED
  BY <1>1 DEF Enter, DispatchTypes

LEMMA Unentered ==
    ASSUME DispatchTypes, UNCHANGED dispatching
    PROVE  DispatchTypes'
  BY DEF DispatchTypes, dispatching

\* A row that is logged is one of the kinds there are.
LEMMA Logged ==
    ASSUME NEW kind \in RowKinds, NEW call \in Calls \cup {NoCall}, Log(kind, call)
    PROVE  row' \in Rows
  BY DEF Log, Rows

LEMMA InitInv == Init => IInv
<1> SUFFICES ASSUME Init
             PROVE  IInv
  OBVIOUS
<1> USE TurnAssumption DEF Init
<1>0. hook \in 1..(NInterceptors + 1)
  OBVIOUS
<1>1. DispatchTypes
  BY <1>0 DEF DispatchTypes, Phases
<1>2. row \in Rows
  BY DEF Rows, RowKinds
<1>a. /\ provider \in 1..(NProviders + 1) /\ attempt \in 0..MaxRetries
      /\ iterations \in Nat /\ completions \in Nat
      /\ calls \in 0..MaxCalls /\ k \in 0..MaxCalls /\ asks \in 0..MaxAsks
  OBVIOUS
<1>3. TypeOK
  BY <1>1, <1>2, <1>a DEF TypeOK, DispatchTypes
<1>4. PhaseInv /\ PassInv /\ GateInv /\ CancelInv /\ FollowInv /\ CountInv
  BY DEF PhaseInv, PassInv, GateInv, GateFailsClosed, CancelInv, FollowInv, CountInv, Counted,
         Uncounted, InPass, Dispatching, Shaping, Cap
<1>5. QED
  BY <1>3, <1>4 DEF IInv

LEMMA TypeStep == IInv /\ [Next]_vars => TypeOK'
<1> SUFFICES ASSUME IInv, [Next]_vars
             PROVE  TypeOK'
  OBVIOUS
<1> USE TurnAssumption
     DEF IInv, TypeOK, dispatching, completing, passing, history, client
<1>a. DispatchTypes
  BY DEF DispatchTypes
<1>1. CASE Proceed
  <2>1. DispatchTypes'
    BY <1>1, <1>a DEF Proceed, DispatchTypes, Interceptors
  <2>2. QED
    BY <1>1, <2>1 DEF Proceed, DispatchTypes, PCs
<1>2. CASE ReplaceResponse
  <2>1. DispatchTypes'
    BY <1>2, <1>a DEF ReplaceResponse, DispatchTypes, Interceptors
  <2>2. QED
    BY <1>2, <2>1 DEF ReplaceResponse, DispatchTypes, PCs
<1>2a. CASE ReplaceAnswer
  <2>1. DispatchTypes'
    BY <1>2a, <1>a DEF ReplaceAnswer, DispatchTypes, Interceptors
  <2>2. QED
    BY <1>2a, <2>1 DEF ReplaceAnswer, DispatchTypes, PCs
<1>3. CASE Block
  <2>1. DispatchTypes'
    BY <1>3, <1>a DEF Block, DispatchTypes, Interceptors
  <2>2. QED
    BY <1>3, <2>1 DEF Block, DispatchTypes, PCs
<1>4. CASE Fail
  <2>1. DispatchTypes'
    <3>1. PICK i \in Interceptors :
            IF phase = "tool-call" THEN blocked' = TRUE /\ hook' = hook
                                   ELSE hook' = i + 1 /\ blocked' = blocked
      BY <1>4 DEF Fail
    <3>2. hook' \in 1..(NInterceptors + 1)
      BY <3>1 DEF Interceptors
    <3>3. blocked' \in BOOLEAN
      BY <3>1
    <3>4. QED
      BY <1>4, <3>2, <3>3 DEF Fail, DispatchTypes
  <2>2. QED
    BY <1>4, <2>1 DEF Fail, DispatchTypes, PCs
<1>5. CASE Ask
  <2>1. row' \in Rows
    BY <1>5, Logged DEF Ask, RowKinds
  <2>2. QED
    BY <1>5, <2>1 DEF Ask, DispatchTypes, PCs
<1>6. CASE Answer
  <2>1. row' \in Rows
    BY <1>6, Logged DEF Answer, RowKinds
  <2>2. QED
    BY <1>6, <2>1 DEF Answer, DispatchTypes, PCs
<1>7. CASE BeforeLoopDone
  <2>1. row' \in Rows
    BY <1>7, Logged DEF BeforeLoopDone, RowKinds
  <2>2. DispatchTypes' /\ pc' \in PCs
    BY <1>7, <1>a, Entered, Unentered DEF BeforeLoopDone, PCs, Phases, Shaping
  <2>3. QED
    BY <1>7, <2>1, <2>2 DEF BeforeLoopDone, DispatchTypes, PCs
<1>8. CASE ShapeDone
  <2>1. \/ \E p \in {"select-context", "select-tools"} : Enter(p)
        \/ pc' = "complete" /\ UNCHANGED dispatching
    BY <1>8 DEF ShapeDone, Over, Shaping
  <2>a. DispatchTypes' /\ pc' \in PCs
    BY <2>1, <1>a, Entered, Unentered DEF PCs, Phases, Shaping
  <2>2. QED
    BY <1>8, <2>a DEF ShapeDone, DispatchTypes, PCs
<1>9. CASE ShapeFails
  BY <1>9 DEF ShapeFails
<1>10. CASE ProviderFails
  <2>1. row' \in Rows
    BY <1>10, Logged DEF ProviderFails, RowKinds
  <2>2. QED
    BY <1>10, <2>1 DEF ProviderFails, DispatchTypes, PCs
<1>11. CASE Malformed
  <2>1. row' \in Rows
    BY <1>11, Logged DEF Malformed, RowKinds
  <2>2. QED
    BY <1>11, <2>1 DEF Malformed, DispatchTypes, PCs
<1>12. CASE CompletionFails
  <2>1. row' \in Rows
    BY <1>12, Logged DEF CompletionFails, RowKinds
  <2>2. QED
    BY <1>12, <2>1 DEF CompletionFails, DispatchTypes, PCs
<1>13. CASE Complete
  <2>1. row' \in Rows
    BY <1>13, Logged DEF Complete, RowKinds
  <2>2. DispatchTypes' /\ pc' \in PCs
    BY <1>13, Entered DEF Complete, DispatchTypes, PCs, Phases
  <2>3. /\ provider' \in 1..(NProviders + 1) /\ attempt' \in 0..MaxRetries
        /\ completions' \in Nat
    BY <1>13 DEF Complete
  <2>4. QED
    BY <1>13, <2>1, <2>2, <2>3 DEF Complete, DispatchTypes, PCs
<1>14. CASE Deliver
  <2>1. row' \in Rows
    BY <1>14, Logged DEF Deliver, Emit, RowKinds, PassInv, InPass, Dispatching, Over, Calls
  <2>2. stopSeen' \in BOOLEAN /\ pc' \in PCs
    BY <1>14 DEF Deliver, Emit, Stopped, PCs
  <2>3. QED
    BY <1>14, <2>1, <2>2 DEF Deliver, DispatchTypes, PCs
<1>15. CASE DecideFollowUp
  BY <1>15 DEF DecideFollowUp
<1>16. CASE DecideCalls
  <2>1. DispatchTypes' /\ pc' \in PCs
    BY <1>16, <1>a, Entered, Unentered DEF DecideCalls, PCs, Phases
  <2>2. QED
    BY <1>16, <2>1 DEF DecideCalls, DispatchTypes, PCs
<1>17. CASE NoFollowUp
  <2>1. DispatchTypes' /\ pc' \in PCs
    BY <1>17, Entered DEF NoFollowUp, DispatchTypes, PCs, Phases
  <2>2. QED
    BY <1>17, <2>1 DEF NoFollowUp, DispatchTypes, PCs
<1>18. CASE FollowUp
  <2>1. row' \in Rows
    BY <1>18, Logged DEF FollowUp, RowKinds
  <2>2. DispatchTypes' /\ pc' \in PCs
    BY <1>18, Entered DEF FollowUp, DispatchTypes, PCs, Phases
  <2>3. QED
    BY <1>18, <2>1, <2>2 DEF FollowUp, DispatchTypes, PCs
<1>19. CASE FollowedUp
  BY <1>19 DEF FollowedUp
<1>20. CASE Denied
  <2>1. row' \in Rows
    BY <1>20, Logged DEF Denied, Emit, RowKinds, PassInv, InPass, Dispatching, Over, Calls
  <2>2. DispatchTypes' /\ pc' \in PCs
    BY <1>20, Entered DEF Denied, DispatchTypes, PCs, Phases
  <2>3. QED
    BY <1>20, <2>1, <2>2 DEF Denied, DispatchTypes, PCs
<1>21. CASE Approved
  <2>1. row' \in Rows
    BY <1>21, Logged DEF Approved, Emit, RowKinds, PassInv, InPass, Dispatching, Over, Calls
  <2>2. /\ stopSeen' \in BOOLEAN /\ open' \in Calls \cup {NoCall}
        /\ stop' \in {"continue", "terminated", "cancelled"}
    BY <1>21 DEF Approved, Emit, Stopped, PCs, PassInv, InPass, Dispatching, Over, Calls
  <2>3. QED
    BY <1>21, <2>1, <2>2 DEF Approved, DispatchTypes, PCs
<1>22. CASE Invoked
  <2>1. DispatchTypes' /\ pc' \in PCs
    BY <1>22, Entered DEF Invoked, DispatchTypes, PCs, Phases
  <2>2. QED
    BY <1>22, <2>1 DEF Invoked, DispatchTypes, PCs
<1>23. CASE ResultDelivered
  <2>1. row' \in Rows
    BY <1>23, Logged DEF ResultDelivered, Emit, RowKinds, PassInv, InPass, Dispatching, Over, Calls
  <2>2. DispatchTypes' /\ pc' \in PCs
    BY <1>23, <1>a, Entered, Unentered DEF ResultDelivered, PCs, Phases
  <2>3. /\ stopSeen' \in BOOLEAN /\ open' \in Calls \cup {NoCall}
        /\ stop' \in {"continue", "terminated", "cancelled"}
    BY <1>23 DEF ResultDelivered, Emit, Stopped, PCs, ResultStop
  <2>4. QED
    BY <1>23, <2>1, <2>2, <2>3 DEF ResultDelivered, DispatchTypes, PCs
<1>24. CASE AfterToolCalls
  <2>1. DispatchTypes' /\ pc' \in PCs
    BY <1>24, <1>a, Entered, Unentered DEF AfterToolCalls, PCs, Phases
  <2>2. QED
    BY <1>24, <2>1 DEF AfterToolCalls, DispatchTypes, PCs
<1>25. CASE NoteIncomplete
  <2>1. row' \in Rows
    BY <1>25, Logged DEF NoteIncomplete, RowKinds
  <2>2. DispatchTypes' /\ pc' \in PCs
    BY <1>25, Entered DEF NoteIncomplete, DispatchTypes, PCs, Phases
  <2>3. QED
    BY <1>25, <2>1, <2>2 DEF NoteIncomplete, DispatchTypes, PCs
<1>26. CASE Finish
  <2>1. row' \in Rows
    BY <1>26, Logged DEF Finish, RowKinds
  <2>2. QED
    BY <1>26, <2>1 DEF Finish, DispatchTypes, PCs
<1>27. CASE GoAway
  BY <1>27 DEF GoAway
<1>28. CASE UNCHANGED vars
  BY <1>28 DEF vars
<1>29. QED
  BY <1>1, <1>2, <1>2a, <1>3, <1>4, <1>5, <1>6, <1>7, <1>8, <1>9, <1>10, <1>11, <1>12, <1>13, <1>14,
     <1>15, <1>16, <1>17, <1>18, <1>19, <1>20, <1>21, <1>22, <1>23, <1>24, <1>25, <1>26, <1>27,
     <1>28
     DEF Next, Dispatch, Conduct, Stay

\* Where the conductor is, at which call, and who let it proceed.
LEMMA PlaceStep == IInv /\ [Next]_vars => PhaseInv' /\ PassInv' /\ GateInv'
<1> SUFFICES ASSUME IInv, [Next]_vars
             PROVE  PhaseInv' /\ PassInv' /\ GateInv'
  OBVIOUS
<1> USE TurnAssumption
     DEF IInv, TypeOK, PhaseInv, PassInv, GateInv, GateFailsClosed, InPass, Dispatching,
         Consults, Phases, Shaping, Interceptors, Calls, Enter, Over, Log, Emit,
         dispatching, completing, passing, history, client
<1>1. CASE Proceed
  BY <1>1 DEF Proceed
<1>2. CASE ReplaceResponse
  BY <1>2 DEF ReplaceResponse
<1>2a. CASE ReplaceAnswer
  BY <1>2a DEF ReplaceAnswer
<1>3. CASE Block
  BY <1>3 DEF Block
<1>4. CASE Fail
  BY <1>4 DEF Fail
<1>5. CASE Ask
  BY <1>5 DEF Ask
<1>6. CASE Answer
  BY <1>6 DEF Answer
<1>7. CASE BeforeLoopDone
  BY <1>7 DEF BeforeLoopDone
<1>8. CASE ShapeDone
  BY <1>8 DEF ShapeDone
<1>9. CASE ShapeFails
  BY <1>9 DEF ShapeFails
<1>10. CASE ProviderFails
  BY <1>10 DEF ProviderFails
<1>11. CASE Malformed
  BY <1>11 DEF Malformed
<1>12. CASE CompletionFails
  BY <1>12 DEF CompletionFails
<1>13. CASE Complete
  BY <1>13 DEF Complete
<1>14. CASE Deliver
  BY <1>14 DEF Deliver
<1>15. CASE DecideFollowUp
  BY <1>15 DEF DecideFollowUp
<1>16. CASE DecideCalls
  BY <1>16 DEF DecideCalls
<1>17. CASE NoFollowUp
  BY <1>17 DEF NoFollowUp
<1>18. CASE FollowUp
  BY <1>18 DEF FollowUp
<1>19. CASE FollowedUp
  BY <1>19 DEF FollowedUp
<1>20. CASE Denied
  BY <1>20 DEF Denied
<1>21. CASE Approved
  BY <1>21 DEF Approved
<1>22. CASE Invoked
  BY <1>22 DEF Invoked
<1>23. CASE ResultDelivered
  BY <1>23 DEF ResultDelivered
<1>24. CASE AfterToolCalls
  BY <1>24 DEF AfterToolCalls
<1>25. CASE NoteIncomplete
  BY <1>25 DEF NoteIncomplete
<1>26. CASE Finish
  BY <1>26 DEF Finish
<1>27. CASE GoAway
  BY <1>27 DEF GoAway
<1>28. CASE UNCHANGED vars
  BY <1>28 DEF vars
<1>29. QED
  BY <1>1, <1>2, <1>2a, <1>3, <1>4, <1>5, <1>6, <1>7, <1>8, <1>9, <1>10, <1>11, <1>12, <1>13, <1>14,
     <1>15, <1>16, <1>17, <1>18, <1>19, <1>20, <1>21, <1>22, <1>23, <1>24, <1>25, <1>26, <1>27,
     <1>28
     DEF Next, Dispatch, Conduct, Stay

\* How a stop and a follow-up get to the note that the turn is incomplete.
LEMMA EndStep == IInv /\ [Next]_vars => CancelInv' /\ FollowInv'
<1> SUFFICES ASSUME IInv, [Next]_vars
             PROVE  CancelInv' /\ FollowInv'
  OBVIOUS
<1> USE SinksAssumption
     DEF IInv, TypeOK, PhaseInv, PassInv, InPass, Dispatching, Shaping, Enter, Over,
         CancelInv, FollowInv, Emit, Stopped, ResultStop,
         Consults, dispatching, completing, passing, history, client
<1>1. CASE Proceed
  BY <1>1 DEF Proceed
<1>2. CASE ReplaceResponse
  BY <1>2 DEF ReplaceResponse
<1>2a. CASE ReplaceAnswer
  BY <1>2a DEF ReplaceAnswer
<1>3. CASE Block
  BY <1>3 DEF Block
<1>4. CASE Fail
  BY <1>4 DEF Fail
<1>5. CASE Ask
  BY <1>5 DEF Ask
<1>6. CASE Answer
  BY <1>6 DEF Answer
<1>7. CASE BeforeLoopDone
  BY <1>7 DEF BeforeLoopDone
<1>8. CASE ShapeDone
  BY <1>8 DEF ShapeDone
<1>9. CASE ShapeFails
  BY <1>9 DEF ShapeFails
<1>10. CASE ProviderFails
  BY <1>10 DEF ProviderFails
<1>11. CASE Malformed
  BY <1>11 DEF Malformed
<1>12. CASE CompletionFails
  BY <1>12 DEF CompletionFails
<1>13. CASE Complete
  BY <1>13 DEF Complete
<1>14. CASE Deliver
  BY <1>14 DEF Deliver
<1>15. CASE DecideFollowUp
  BY <1>15 DEF DecideFollowUp
<1>16. CASE DecideCalls
  BY <1>16 DEF DecideCalls
<1>17. CASE NoFollowUp
  BY <1>17 DEF NoFollowUp
<1>18. CASE FollowUp
  BY <1>18 DEF FollowUp
<1>19. CASE FollowedUp
  BY <1>19 DEF FollowedUp
<1>20. CASE Denied
  BY <1>20 DEF Denied
<1>21. CASE Approved
  BY <1>21 DEF Approved
<1>22. CASE Invoked
  BY <1>22 DEF Invoked
<1>23. CASE ResultDelivered
  BY <1>23 DEF ResultDelivered
<1>24. CASE AfterToolCalls
  BY <1>24 DEF AfterToolCalls
<1>25. CASE NoteIncomplete
  BY <1>25 DEF NoteIncomplete
<1>26. CASE Finish
  BY <1>26 DEF Finish
<1>27. CASE GoAway
  BY <1>27 DEF GoAway
<1>28. CASE UNCHANGED vars
  BY <1>28 DEF vars
<1>29. QED
  BY <1>1, <1>2, <1>2a, <1>3, <1>4, <1>5, <1>6, <1>7, <1>8, <1>9, <1>10, <1>11, <1>12, <1>13, <1>14,
     <1>15, <1>16, <1>17, <1>18, <1>19, <1>20, <1>21, <1>22, <1>23, <1>24, <1>25, <1>26, <1>27,
     <1>28
     DEF Next, Dispatch, Conduct, Stay

\* How completions are counted.
LEMMA CountStep == IInv /\ [Next]_vars => CountInv'
<1> SUFFICES ASSUME IInv, [Next]_vars
             PROVE  CountInv'
  OBVIOUS
<1> USE TurnAssumption
     DEF IInv, TypeOK, PhaseInv, PassInv, InPass, Dispatching, Shaping, Enter, Over,
         CountInv, Counted, Uncounted, Cap,
         dispatching, completing, passing, history, client
<1>1. CASE Proceed
  BY <1>1 DEF Proceed
<1>2. CASE ReplaceResponse
  BY <1>2 DEF ReplaceResponse
<1>2a. CASE ReplaceAnswer
  BY <1>2a DEF ReplaceAnswer
<1>3. CASE Block
  BY <1>3 DEF Block
<1>4. CASE Fail
  BY <1>4 DEF Fail
<1>5. CASE Ask
  BY <1>5 DEF Ask
<1>6. CASE Answer
  BY <1>6 DEF Answer
<1>7. CASE BeforeLoopDone
  BY <1>7 DEF BeforeLoopDone
<1>8. CASE ShapeDone
  BY <1>8 DEF ShapeDone
<1>9. CASE ShapeFails
  BY <1>9 DEF ShapeFails
<1>10. CASE ProviderFails
  BY <1>10 DEF ProviderFails
<1>11. CASE Malformed
  BY <1>11 DEF Malformed
<1>12. CASE CompletionFails
  BY <1>12 DEF CompletionFails
<1>13. CASE Complete
  BY <1>13 DEF Complete
<1>14. CASE Deliver
  BY <1>14 DEF Deliver
<1>15. CASE DecideFollowUp
  BY <1>15 DEF DecideFollowUp
<1>16. CASE DecideCalls
  BY <1>16 DEF DecideCalls
<1>17. CASE NoFollowUp
  BY <1>17 DEF NoFollowUp
<1>18. CASE FollowUp
  BY <1>18 DEF FollowUp
<1>19. CASE FollowedUp
  BY <1>19 DEF FollowedUp
<1>20. CASE Denied
  BY <1>20 DEF Denied
<1>21. CASE Approved
  BY <1>21 DEF Approved
<1>22. CASE Invoked
  BY <1>22 DEF Invoked
<1>23. CASE ResultDelivered
  BY <1>23 DEF ResultDelivered
<1>24. CASE AfterToolCalls
  BY <1>24 DEF AfterToolCalls
<1>25. CASE NoteIncomplete
  BY <1>25 DEF NoteIncomplete
<1>26. CASE Finish
  BY <1>26 DEF Finish
<1>27. CASE GoAway
  BY <1>27 DEF GoAway
<1>28. CASE UNCHANGED vars
  BY <1>28 DEF vars
<1>29. QED
  BY <1>1, <1>2, <1>2a, <1>3, <1>4, <1>5, <1>6, <1>7, <1>8, <1>9, <1>10, <1>11, <1>12, <1>13, <1>14,
     <1>15, <1>16, <1>17, <1>18, <1>19, <1>20, <1>21, <1>22, <1>23, <1>24, <1>25, <1>26, <1>27,
     <1>28
     DEF Next, Dispatch, Conduct, Stay

LEMMA Invariance == Spec => []IInv
<1>1. IInv /\ [Next]_vars => IInv'
  BY TypeStep, PlaceStep, EndStep, CountStep DEF IInv
<1>2. QED
  BY InitInv, <1>1, PTL DEF Spec

-----------------------------------------------------------------------------
(* The theorems. *)

\* The turn's state has its type whatever interceptors, providers, tools and clients do.
THEOREM TypeCorrect == Spec => []TypeOK
<1>1. IInv => TypeOK
  BY DEF IInv
<1>2. QED
  BY <1>1, Invariance, PTL

\* The gate fails closed: a tool runs, or asks, only once each interceptor that is subscribed to
\* tool-call has let this very call proceed; one that failed or blocked is not among them.
THEOREM GateIsClosed == Spec => []GateFailsClosed
<1>1. IInv => GateFailsClosed
  BY DEF IInv, GateInv
<1>2. QED
  BY <1>1, Invariance, PTL

\* A disconnect is never recorded as a finished answer: once a flow that counts said stop, the
\* text handed to finalize carries the note, although a later call of the pass may terminate it,
\* and only an interceptor subscribed to finalize takes it away.
THEOREM CancelsAreMarked == Spec => []CancelIsMarked
<1>1. IInv => CancelIsMarked
  BY DEF IInv, TypeOK, CancelInv, PhaseInv, InPass, CancelIsMarked, Noted
<1>2. QED
  BY <1>1, Invariance, PTL

\* A follow-up that was taken was put to the model, or the answer says it is incomplete, or an
\* interceptor subscribed to finalize put another answer in the place of the one that said so.
THEOREM FollowUpsAreHeardOrMarked == Spec => []FollowUpHeardOrMarked
<1>1. IInv => FollowUpHeardOrMarked
  BY DEF IInv, TypeOK, FollowInv, CancelInv, PhaseInv, FollowUpHeardOrMarked, Noted
<1>2. QED
  BY <1>1, Invariance, PTL

\* The model answers at most limits.max-iterations times, once at least, whoever fills the turn
\* with calls and follow-ups.
THEOREM CapHolds == Spec => []CompletionsCapped
<1>1. IInv => CompletionsCapped
  BY DEF IInv, CountInv, Cap, CompletionsCapped
<1>2. QED
  BY <1>1, Invariance, PTL

\* After a heeded stop the model is not asked again.
THEOREM StopsEndTheLoop == Spec => StopEndsTheLoop
<1>1. IInv /\ [Next]_vars => [stopSeen => completions' = completions]_vars
  <2>1. SUFFICES ASSUME IInv, Next, stopSeen, completions' # completions
                 PROVE  FALSE
    OBVIOUS
  <2>2. Complete
    BY <2>1 DEF Next, Dispatch, Conduct, Stay, vars, completing,
         Proceed, ReplaceResponse, ReplaceAnswer, Block, Fail, Ask, Answer, GoAway, BeforeLoopDone, ShapeDone,
         ShapeFails, ProviderFails, Malformed, CompletionFails, Deliver, DecideFollowUp,
         DecideCalls, NoFollowUp, FollowUp, FollowedUp, Denied, Approved, Invoked,
         ResultDelivered, AfterToolCalls, NoteIncomplete, Finish
  <2>3. QED
    BY <2>1, <2>2 DEF Complete, IInv, CancelInv, PhaseInv, InPass, Dispatching
<1>2. QED
  BY <1>1, Invariance, PTL DEF Spec, StopEndsTheLoop

-----------------------------------------------------------------------------
(* A turn writes the rows TurnLog promises: the steps of the dispatcher, and those of the       *)
(* conductor that log nothing, stutter; the others are its steps of the same name or Say.       *)

LEMMA PromiseInit == Init => Promise!Init
  BY DEF Init, Promise!Init, Promise!NoRow, Finished

LEMMA PromiseStep == IInv /\ [Next]_vars => [Promise!Next]_(Promise!vars)
<1> SUFFICES ASSUME IInv, [Next]_vars
             PROVE  Promise!Next \/ UNCHANGED Promise!vars
  BY DEF Promise!vars
<1> USE TurnAssumption
     DEF IInv, TypeOK, PhaseInv, PassInv, InPass, Dispatching, Finished, Shaping, Calls,
         Enter, Over, Log, Emit, dispatching, completing, passing, history, client,
         Promise!Running, Promise!Write
<1>1. CASE Proceed
  BY <1>1 DEF Proceed, Promise!vars
<1>2. CASE ReplaceResponse
  BY <1>2 DEF ReplaceResponse, Promise!vars
<1>2a. CASE ReplaceAnswer
  BY <1>2a DEF ReplaceAnswer, Promise!vars
<1>3. CASE Block
  BY <1>3 DEF Block, Promise!vars
<1>4. CASE Fail
  BY <1>4 DEF Fail, Promise!vars
<1>5. CASE Ask
  BY <1>5 DEF Ask, Promise!Ask, Promise!Next
<1>6. CASE Answer
  BY <1>6 DEF Answer, Promise!Answer, Promise!Next
<1>7. CASE BeforeLoopDone
  BY <1>7 DEF BeforeLoopDone, Promise!UserMessage, Promise!Next
<1>8. CASE ShapeDone
  <2>1. /\ pc = "dispatch" /\ phase \in Shaping
        /\ pc' \in {"dispatch", "complete"} /\ phase' \in Shaping
    BY <1>8 DEF ShapeDone
  <2>2. QED
    BY <1>8, <2>1 DEF ShapeDone, Promise!vars
<1>9. CASE ShapeFails
  BY <1>9 DEF ShapeFails, Promise!Fail, Promise!Next
<1>10. CASE ProviderFails
  BY <1>10 DEF ProviderFails, Promise!Say, Promise!Next
<1>11. CASE Malformed
  BY <1>11 DEF Malformed, Promise!Say, Promise!Next
<1>12. CASE CompletionFails
  BY <1>12 DEF CompletionFails, Promise!Fail, Promise!Next
<1>13. CASE Complete
  BY <1>13 DEF Complete, Promise!vars, Promise!Say, Promise!Next
<1>14. CASE Deliver
  BY <1>14 DEF Deliver, Promise!vars, Promise!Say, Promise!Next
<1>15. CASE DecideFollowUp
  BY <1>15 DEF DecideFollowUp, Promise!vars
<1>16. CASE DecideCalls
  BY <1>16 DEF DecideCalls, Promise!vars
<1>17. CASE NoFollowUp
  BY <1>17 DEF NoFollowUp, Promise!vars
<1>18. CASE FollowUp
  BY <1>18 DEF FollowUp, Promise!Say, Promise!Next
<1>19. CASE FollowedUp
  BY <1>19 DEF FollowedUp, Promise!vars
<1>20. CASE Denied
  BY <1>20 DEF Denied, Promise!Say, Promise!Next
<1>21. CASE Approved
  BY <1>21 DEF Approved, Promise!Invoke, Promise!Next
<1>22. CASE Invoked
  BY <1>22 DEF Invoked, Promise!vars
<1>23. CASE ResultDelivered
  BY <1>23 DEF ResultDelivered, Promise!Result, Promise!Next
<1>24. CASE AfterToolCalls
  <2>1. /\ pc' \in {"dispatch", "complete", "incomplete"}
        /\ phase = "tool-result" /\ phase' \in {"tool-result", "finalize"}
    BY <1>24 DEF AfterToolCalls
  <2>2. QED
    BY <1>24, <2>1 DEF AfterToolCalls, Promise!vars
<1>25. CASE NoteIncomplete
  BY <1>25 DEF NoteIncomplete, Promise!Say, Promise!Next
<1>26. CASE Finish
  BY <1>26 DEF Finish, Promise!Done, Promise!Next
<1>27. CASE GoAway
  BY <1>27 DEF GoAway, Promise!vars
<1>28. CASE UNCHANGED vars
  BY <1>28 DEF vars, Promise!vars
<1>29. QED
  BY <1>1, <1>2, <1>2a, <1>3, <1>4, <1>5, <1>6, <1>7, <1>8, <1>9, <1>10, <1>11, <1>12, <1>13, <1>14,
     <1>15, <1>16, <1>17, <1>18, <1>19, <1>20, <1>21, <1>22, <1>23, <1>24, <1>25, <1>26, <1>27,
     <1>28
     DEF Next, Dispatch, Conduct, Stay

\* The turn keeps the promise readers of the log rely on: the message once and first, every
\* invoked call followed by its own result, `done` last and only for an answered turn.
THEOREM TurnImplementsTurnLog == Spec => KeepsPromise
<1>1. QED
  BY PromiseInit, PromiseStep, Invariance, PTL DEF Spec, KeepsPromise, Promise!Spec

-----------------------------------------------------------------------------
(* The terminal client: what it takes a turn to be, and what the turn is. *)

GatewayFrames == [kind : {"message", "cancel", "list", "steer", "get", "answer"}, from : Int]
ClientFrames  == [kind : {"ask", "done", "ok", "refused"}, to : Int]

\* Only messages have a thread that reads for them, and they are numbered as they were sent.
SentBy(q, n) == \A i \in 1..Len(q) :
    IF q[i].kind = "message" THEN q[i].from \in 1..n ELSE q[i].from \in {Cl!Nobody, Cl!Main}
RepliesTo(q, n) == \A i \in 1..Len(q) : q[i].to <= n

Messageless(q) == \A i \in 1..Len(q) : q[i].kind # "message"
OneMessage(q, m) == \A i \in 1..Len(q) : q[i].kind = "message" =>
    q[i].from = m /\ \A j \in 1..Len(q) : q[j].kind = "message" => i = j

IsReply(f, m) == f.kind \in {"ok", "refused"} /\ f.to = m
Doneless(q) == \A i \in 1..Len(q) : q[i].kind # "done"
NoReply(q, m) == \A i \in 1..Len(q) : ~IsReply(q[i], m)

\* The word that a turn is done comes once, and before the reply to its message.
DoneFirst(q, m) == \A i \in 1..Len(q) : q[i].kind = "done" =>
    /\ \A j \in 1..Len(q) : q[j].kind = "done" => i = j
    /\ \A j \in 1..(i - 1) : ~IsReply(q[j], m)

ClientInv ==
    /\ count \in [turns : 0..MaxTurns, calls : Nat, cancels : Nat, steers : Nat, asks : Nat]
    /\ rx \in 0..count.turns /\ running \in 0..count.turns
    /\ channel \in Seq(Cl!Events) /\ (rx = 0 => channel = <<>>)
    /\ stream \in [Cl!Messages -> {"none", "sends", "waits", "reads", "over"}]
    /\ toGateway \in Seq(GatewayFrames) /\ SentBy(toGateway, count.turns)
    /\ toClient \in Seq(ClientFrames) /\ RepliesTo(toClient, count.turns)

\* Questions are of a turn that is listened to.
QuestionsInv ==
    /\ prompts \in Nat /\ dialog \in BOOLEAN /\ (dialog => prompts # 0)
    /\ prompts # 0 => rx # 0

\* No turn runs, nor will before the client sends another message.
Settled == gateway \notin {"turn", "asking"} /\ Messageless(toGateway)

\* The loop has what ends the turn it listens to, or will find its thread over.
EndHeard == rx # 0 /\ (stream[rx] = "over" \/ \E i \in 1..Len(channel) : channel[i] # "ask")

\* A thread that is still to send its message is the one listened to, and was heard nothing of.
StartInv == \A m \in Cl!Messages : stream[m] = "sends" => rx = m /\ channel = <<>>
Unsent == rx # 0 /\ stream[rx] = "sends"

\* A message on its way is the one listened to, and so is the turn that runs; what can end the
\* turn for the client comes when it is settled, and not before the message was sent.
PictureInv == ~crossed /\ Cl!Alive =>
    /\ OneMessage(toGateway, rx)
    /\ ~Messageless(toGateway) => gateway \notin {"turn", "asking"} /\ running # rx
    /\ gateway \in {"turn", "asking"} => running = rx /\ rx # 0
    /\ DoneFirst(toClient, rx)
    /\ ~Doneless(toClient) => Settled /\ rx # 0 /\ ~EndHeard
    /\ rx # 0 /\ ~NoReply(toClient, rx) => Settled
    /\ rx = 0 \/ EndHeard => Settled
    /\ Unsent => Settled /\ running # rx /\ Doneless(toClient) /\ NoReply(toClient, rx)

GatewayInv == gateway \in {"idle", "turn", "asking", "finishing", "dead"}

CInv == ClientInv /\ QuestionsInv /\ StartInv /\ PictureInv /\ GatewayInv

\* A queue without its first.
LEMMA Shifted ==
    ASSUME NEW S, NEW q \in Seq(S), q # <<>>
    PROVE  /\ Tail(q) \in Seq(S) /\ Head(q) \in S /\ Head(q) = q[1] /\ Len(q) \in Nat \ {0}
           /\ Len(Tail(q)) = Len(q) - 1
           /\ \A i \in 1..(Len(q) - 1) : Tail(q)[i] = q[i + 1]
OBVIOUS

\* A queue with one more.
LEMMA Longer ==
    ASSUME NEW S, NEW q \in Seq(S), NEW f \in S
    PROVE  /\ Append(q, f) \in Seq(S) /\ q \o <<f>> = Append(q, f) /\ q \o <<>> = q
           /\ Len(q) \in Nat /\ Len(Append(q, f)) = Len(q) + 1
           /\ \A i \in 1..Len(q) : Append(q, f)[i] = q[i]
           /\ Append(q, f)[Len(q) + 1] = f
<1>1. q \o <<f>> = Append(q, f)
  OBVIOUS
<1>2. q \o <<>> = q
  OBVIOUS
<1> QED
  BY <1>1, <1>2

\* What taking a frame does to the gateway's input.
LEMMA Taken ==
    ASSUME NEW q \in Seq(GatewayFrames), q # <<>>, NEW m, NEW n
    PROVE  /\ Tail(q) \in Seq(GatewayFrames) /\ Head(q) \in GatewayFrames
           /\ SentBy(q, n) => /\ SentBy(Tail(q), n)
                              /\ IF Head(q).kind = "message" THEN Head(q).from \in 1..n
                                 ELSE Head(q).from \in {Cl!Nobody, Cl!Main}
           /\ OneMessage(q, m) => OneMessage(Tail(q), m)
           /\ OneMessage(q, m) /\ Head(q).kind = "message" => Head(q).from = m /\ Messageless(Tail(q))
           /\ Messageless(q) => Messageless(Tail(q)) /\ Head(q).kind # "message"
<1>1. /\ Tail(q) \in Seq(GatewayFrames) /\ Head(q) \in GatewayFrames /\ Head(q) = q[1]
      /\ Len(q) \in Nat \ {0} /\ Len(Tail(q)) = Len(q) - 1
      /\ \A i \in 1..(Len(q) - 1) : Tail(q)[i] = q[i + 1]
  BY Shifted
<1>2. \A i \in 1..Len(Tail(q)) : i + 1 \in 1..Len(q) /\ i + 1 # 1 /\ Tail(q)[i] = q[i + 1]
  BY <1>1
<1>3. 1 \in 1..Len(q)
  BY <1>1
<1>4. SentBy(q, n) => SentBy(Tail(q), n)
  BY <1>2 DEF SentBy
<1>5. OneMessage(q, m) => OneMessage(Tail(q), m)
  BY <1>1, <1>2 DEF OneMessage
<1>6. OneMessage(q, m) /\ Head(q).kind = "message" => Head(q).from = m /\ Messageless(Tail(q))
  BY <1>1, <1>2, <1>3 DEF OneMessage, Messageless
<1>7. Messageless(q) => Messageless(Tail(q)) /\ Head(q).kind # "message"
  BY <1>1, <1>2, <1>3 DEF Messageless
<1>8. SentBy(q, n) => IF Head(q).kind = "message" THEN Head(q).from \in 1..n
                      ELSE Head(q).from \in {Cl!Nobody, Cl!Main}
  BY <1>1, <1>3 DEF SentBy
<1> QED
  BY <1>1, <1>4, <1>5, <1>6, <1>7, <1>8

\* What sending one does.
LEMMA Sent ==
    ASSUME NEW q \in Seq(GatewayFrames), NEW f \in GatewayFrames, NEW m, NEW n
    PROVE  /\ Append(q, f) \in Seq(GatewayFrames)
           /\ SentBy(q, n) /\ (IF f.kind = "message" THEN f.from \in 1..n
                               ELSE f.from \in {Cl!Nobody, Cl!Main}) => SentBy(Append(q, f), n)
           /\ f.kind # "message" =>
                /\ OneMessage(q, m) => OneMessage(Append(q, f), m)
                /\ Messageless(Append(q, f)) <=> Messageless(q)
           /\ Messageless(q) /\ f.from = m => OneMessage(Append(q, f), m)
<1> DEFINE r == Append(q, f)
<1>1. /\ r \in Seq(GatewayFrames) /\ Len(q) \in Nat /\ Len(r) = Len(q) + 1 /\ r[Len(q) + 1] = f
      /\ \A i \in 1..Len(q) : r[i] = q[i]
  BY Longer
<1> HIDE DEF r
<1>2. \A i \in 1..Len(r) : (i \in 1..Len(q) /\ r[i] = q[i]) \/ (i = Len(r) /\ r[i] = f)
  BY <1>1
<1>3. \A i \in 1..Len(q) : i \in 1..Len(r) /\ r[i] = q[i]
  BY <1>1
<1>4. SentBy(q, n) /\ (IF f.kind = "message" THEN f.from \in 1..n
                       ELSE f.from \in {Cl!Nobody, Cl!Main}) => SentBy(r, n)
  BY <1>2 DEF SentBy
<1>5. f.kind # "message" => (OneMessage(q, m) => OneMessage(r, m)) /\ (Messageless(r) <=> Messageless(q))
  BY <1>2, <1>3 DEF OneMessage, Messageless
<1>6. Messageless(q) /\ f.from = m => OneMessage(r, m)
  BY <1>2 DEF OneMessage, Messageless
<1> QED
  BY <1>1, <1>4, <1>5, <1>6 DEF r

\* What reading a frame does to the gateway's output.
LEMMA Read ==
    ASSUME NEW q \in Seq(ClientFrames), q # <<>>, NEW m, NEW n
    PROVE  /\ Tail(q) \in Seq(ClientFrames) /\ Head(q) \in ClientFrames
           /\ RepliesTo(q, n) => RepliesTo(Tail(q), n)
           /\ Doneless(q) => Doneless(Tail(q))
           /\ NoReply(q, m) => NoReply(Tail(q), m) /\ ~IsReply(Head(q), m)
           /\ DoneFirst(q, m) => DoneFirst(Tail(q), m)
           /\ DoneFirst(q, m) /\ (Head(q).kind = "done" \/ IsReply(Head(q), m)) => Doneless(Tail(q))
           /\ Doneless(q) => Head(q).kind # "done"
<1>1. /\ Tail(q) \in Seq(ClientFrames) /\ Head(q) \in ClientFrames /\ Head(q) = q[1]
      /\ Len(q) \in Nat \ {0} /\ Len(Tail(q)) = Len(q) - 1
      /\ \A i \in 1..(Len(q) - 1) : Tail(q)[i] = q[i + 1]
  BY Shifted
<1>2. \A i \in 1..Len(Tail(q)) : i + 1 \in 1..Len(q) /\ i + 1 # 1 /\ Tail(q)[i] = q[i + 1]
  BY <1>1
<1>3. 1 \in 1..Len(q)
  BY <1>1
<1>4. RepliesTo(q, n) => RepliesTo(Tail(q), n)
  BY <1>2 DEF RepliesTo
<1>5. Doneless(q) => Doneless(Tail(q)) /\ Head(q).kind # "done"
  BY <1>1, <1>2, <1>3 DEF Doneless
<1>6. NoReply(q, m) => NoReply(Tail(q), m) /\ ~IsReply(Head(q), m)
  BY <1>1, <1>2, <1>3 DEF NoReply
<1>7. DoneFirst(q, m) => DoneFirst(Tail(q), m)
  <2> SUFFICES ASSUME DoneFirst(q, m), NEW i \in 1..Len(Tail(q)), Tail(q)[i].kind = "done"
               PROVE  /\ \A j \in 1..Len(Tail(q)) : Tail(q)[j].kind = "done" => i = j
                      /\ \A j \in 1..(i - 1) : ~IsReply(Tail(q)[j], m)
    BY DEF DoneFirst
  <2>1. i + 1 \in 1..Len(q) /\ q[i + 1].kind = "done"
    BY <1>2
  <2>2. /\ \A j \in 1..Len(q) : q[j].kind = "done" => i + 1 = j
        /\ \A j \in 1..i : ~IsReply(q[j], m)
    BY <2>1 DEF DoneFirst
  <2>3. \A j \in 1..(i - 1) : j \in 1..Len(Tail(q)) /\ j + 1 \in 1..i
    BY <1>1
  <2> QED
    BY <1>1, <1>2, <2>2, <2>3
<1>8. DoneFirst(q, m) /\ Head(q).kind = "done" => Doneless(Tail(q))
  BY <1>1, <1>2, <1>3 DEF DoneFirst, Doneless
<1>9. DoneFirst(q, m) /\ IsReply(Head(q), m) => Doneless(Tail(q))
  BY <1>1, <1>2 DEF DoneFirst, Doneless
<1> QED
  BY <1>1, <1>4, <1>5, <1>6, <1>7, <1>8, <1>9

\* What writing one does.
LEMMA Written ==
    ASSUME NEW q \in Seq(ClientFrames), NEW f \in ClientFrames, NEW m, NEW n
    PROVE  /\ q \o <<f>> \in Seq(ClientFrames)
           /\ RepliesTo(q, n) /\ f.to <= n => RepliesTo(q \o <<f>>, n)
           /\ f.kind # "done" =>
                /\ Doneless(q \o <<f>>) <=> Doneless(q)
                /\ DoneFirst(q, m) => DoneFirst(q \o <<f>>, m)
           /\ Doneless(q) /\ NoReply(q, m) => DoneFirst(q \o <<f>>, m)
           /\ NoReply(q \o <<f>>, m) <=> NoReply(q, m) /\ ~IsReply(f, m)
<1> DEFINE r == Append(q, f)
<1>0. q \o <<f>> = r
  BY Longer
<1>1. /\ r \in Seq(ClientFrames) /\ Len(q) \in Nat /\ Len(r) = Len(q) + 1 /\ r[Len(q) + 1] = f
      /\ \A i \in 1..Len(q) : r[i] = q[i]
  BY Longer
<1> HIDE DEF r
<1>2. \A i \in 1..Len(r) : (i \in 1..Len(q) /\ r[i] = q[i]) \/ (i = Len(r) /\ r[i] = f)
  BY <1>1
<1>3. \A i \in 1..Len(q) : i \in 1..Len(r) /\ r[i] = q[i]
  BY <1>1
<1>4. Len(r) \in 1..Len(r) /\ r[Len(r)] = f
  BY <1>1
<1>5. RepliesTo(q, n) /\ f.to <= n => RepliesTo(r, n)
  BY <1>2 DEF RepliesTo
<1>6. f.kind # "done" => (Doneless(r) <=> Doneless(q))
  BY <1>2, <1>3 DEF Doneless
<1>7. f.kind # "done" /\ DoneFirst(q, m) => DoneFirst(r, m)
  <2> SUFFICES ASSUME f.kind # "done", DoneFirst(q, m), NEW i \in 1..Len(r), r[i].kind = "done"
               PROVE  /\ \A j \in 1..Len(r) : r[j].kind = "done" => i = j
                      /\ \A j \in 1..(i - 1) : ~IsReply(r[j], m)
    BY DEF DoneFirst
  <2>1. i \in 1..Len(q) /\ q[i].kind = "done"
    BY <1>2
  <2>2. \A j \in 1..(i - 1) : j \in 1..Len(q) /\ r[j] = q[j]
    BY <1>1, <2>1
  <2> QED
    BY <1>2, <2>1, <2>2 DEF DoneFirst
<1>8. Doneless(q) /\ NoReply(q, m) => DoneFirst(r, m)
  <2> SUFFICES ASSUME Doneless(q), NoReply(q, m), NEW i \in 1..Len(r), r[i].kind = "done"
               PROVE  /\ \A j \in 1..Len(r) : r[j].kind = "done" => i = j
                      /\ \A j \in 1..(i - 1) : ~IsReply(r[j], m)
    BY DEF DoneFirst
  <2>1. \A j \in 1..(i - 1) : j \in 1..Len(q) /\ r[j] = q[j]
    BY <1>1
  <2> QED
    BY <1>2, <2>1 DEF Doneless, NoReply
<1>9. NoReply(r, m) <=> NoReply(q, m) /\ ~IsReply(f, m)
  BY <1>2, <1>3, <1>4 DEF NoReply
<1> QED
  BY <1>0, <1>1, <1>5, <1>6, <1>7, <1>8, <1>9

\* A greater number of messages sent.
LEMMA OneMoreSent ==
    ASSUME NEW n \in Nat, NEW q \in Seq(GatewayFrames), NEW r \in Seq(ClientFrames)
    PROVE  /\ SentBy(q, n) => SentBy(q, n + 1)
           /\ RepliesTo(r, n) => RepliesTo(r, n + 1) /\ NoReply(r, n + 1)
<1>1. \A i \in 1..Len(r) : r[i].to \in Int
  <2>1. \A i \in 1..Len(r) : r[i] \in ClientFrames
    OBVIOUS
  <2> QED
    BY <2>1 DEF ClientFrames
<1>2. RepliesTo(r, n) => RepliesTo(r, n + 1)
  BY <1>1 DEF RepliesTo
<1>3. RepliesTo(r, n) => NoReply(r, n + 1)
  BY <1>1 DEF RepliesTo, NoReply, IsReply
<1>4. 1..n \subseteq 1..(n + 1)
  OBVIOUS
<1>5. SentBy(q, n) => SentBy(q, n + 1)
  BY <1>4 DEF SentBy
<1> QED
  BY <1>2, <1>3, <1>5

LEMMA ClientStarts == Cl!Init => CInv
<1> SUFFICES ASSUME Cl!Init PROVE CInv
  OBVIOUS
<1>0. MaxTurns \in Nat
  BY ClientAssumption
<1>1. ClientInv
  BY <1>0 DEF Cl!Init, ClientInv, SentBy, RepliesTo
<1>2. QuestionsInv
  BY DEF Cl!Init, QuestionsInv
<1>3. PictureInv
  BY DEF Cl!Init, PictureInv, OneMessage, Messageless, DoneFirst, Doneless, Settled, EndHeard, Unsent
<1>4. StartInv
  BY DEF Cl!Init, StartInv
<1> QED
  BY <1>1, <1>2, <1>3, <1>4 DEF CInv, GatewayInv, Cl!Init

\* A question comes from the channel of a turn that is listened to, and goes with the turn.
LEMMA QuestionsStep == ClientInv /\ QuestionsInv /\ Cl!Next => QuestionsInv'
<1> SUFFICES ASSUME ClientInv, QuestionsInv, Cl!Next PROVE QuestionsInv'
  OBVIOUS
<1>0. /\ prompts \in Nat /\ dialog \in BOOLEAN /\ (dialog => prompts # 0) /\ (prompts # 0 => rx # 0)
      /\ rx \in Nat /\ (rx = 0 => channel = <<>>) /\ count.turns \in Nat
  BY DEF ClientInv, QuestionsInv
<1>1. CASE Cl!ApplyAsk
  BY <1>0, <1>1 DEF QuestionsInv, Cl!ApplyAsk
<1>2. ASSUME prompts' = 0, dialog' = FALSE PROVE QuestionsInv'
  <2>1. prompts' \in Nat /\ ~(prompts' # 0)
    BY <1>2
  <2>2. dialog' \in BOOLEAN /\ ~dialog'
    BY ONLY <1>2, Zenon
  <2> QED
    BY <2>1, <2>2 DEF QuestionsInv
<1>3. CASE Cl!ApplyEnd \/ Cl!ApplyNothing \/ Cl!Poll
  <2>1. (prompts' = 0 /\ dialog' = FALSE) \/ UNCHANGED <<prompts, dialog, rx>>
    BY <1>3 DEF Cl!ApplyEnd, Cl!ApplyNothing, Cl!Poll, Cl!EndTurn, Cl!ForgetPrompts
  <2> QED
    BY <1>0, <1>2, <2>1 DEF QuestionsInv
<1>4. CASE Cl!EnterSend
  BY <1>0, <1>4 DEF QuestionsInv, Cl!EnterSend, ClientInv
<1>5. CASE Cl!EnterAnswer \/ Cl!ToggleDialog \/ Cl!PressCancel
  <2>1. CASE Cl!EnterAnswer
    <3>1. prompts # 0 /\ prompts' = prompts - 1 /\ dialog' = (prompts # 1) /\ UNCHANGED rx
      BY <1>0, <2>1 DEF Cl!EnterAnswer
    <3>2. prompts' \in Nat /\ (prompts # 1 => prompts' # 0) /\ rx' # 0
      BY <1>0, <3>1
    <3> QED
      BY <3>1, <3>2 DEF QuestionsInv
  <2>2. CASE Cl!ToggleDialog
    <3>1. prompts # 0 /\ dialog' = ~dialog /\ UNCHANGED <<prompts, rx>>
      BY <2>2 DEF Cl!ToggleDialog
    <3> QED
      BY <1>0, <3>1 DEF QuestionsInv
  <2>3. CASE Cl!PressCancel
    BY <1>2, <2>3 DEF Cl!PressCancel
  <2> QED
    BY <1>5, <2>1, <2>2, <2>3
<1>6. CASE UNCHANGED <<prompts, dialog, rx>>
  BY <1>0, <1>6 DEF QuestionsInv
<1>7. CASE Cl!RequestCancel \/ Cl!RequestCall \/ Cl!RequestNothing \/ Cl!LockMain \/ Cl!ReadMain
  BY <1>6, <1>7 DEF Cl!RequestCancel, Cl!RequestCall, Cl!RequestNothing, Cl!LockMain, Cl!ReadMain, Cl!app
<1>8. CASE Cl!EnterSteer \/ Cl!PressCall \/ Cl!EnterSwitch \/ Cl!CloseSwitcher \/ Cl!SendAnswer
  BY <1>6, <1>8 DEF Cl!EnterSteer, Cl!PressCall, Cl!EnterSwitch, Cl!CloseSwitcher, Cl!SendAnswer, Cl!app
<1>9. CASE \E m \in Cl!Messages : Cl!SendMessage(m) \/ Cl!LockStream(m) \/ Cl!ReadStream(m)
  BY <1>6, <1>9 DEF Cl!SendMessage, Cl!LockStream, Cl!ReadStream, Cl!app
<1>10. CASE Cl!Gateway \/ Cl!Ask \/ Cl!Die
  BY <1>6, <1>10 DEF Cl!Gateway, Cl!Between, Cl!Serve, Cl!GiveUp, Cl!Finish, Cl!Ask, Cl!Die, Cl!app
<1> QED
  BY <1>1, <1>2, <1>3, <1>4, <1>5, <1>7, <1>8, <1>9, <1>10 DEF Cl!Next, Cl!Loop, Cl!User

\* A thread sends before anything of its message is heard, and the loop listens until it is.
LEMMA StartStep == ClientInv /\ StartInv /\ Cl!Next => StartInv'
<1> SUFFICES ASSUME ClientInv, StartInv, Cl!Next PROVE StartInv'
  OBVIOUS
<1>0. /\ channel \in Seq(Cl!Events) /\ stream \in [Cl!Messages -> {"none", "sends", "waits", "reads", "over"}]
      /\ \A m \in Cl!Messages : m # 0
  BY ClientAssumption DEF ClientInv, Cl!Messages
<1>1. CASE UNCHANGED <<rx, channel, stream>>
  BY <1>1 DEF StartInv
<1>2. CASE Cl!ApplyAsk \/ Cl!ApplyEnd
  <2>1. channel # <<>> /\ UNCHANGED stream
    BY <1>2 DEF Cl!ApplyAsk, Cl!ApplyEnd
  <2> QED
    BY <2>1 DEF StartInv
<1>3. CASE Cl!ApplyNothing
  <2>1. UNCHANGED stream /\ ((rx # 0 /\ stream[rx] = "over") \/ UNCHANGED <<rx, channel>>)
    BY <1>3 DEF Cl!ApplyNothing
  <2> QED
    BY <2>1 DEF StartInv
<1>4. CASE Cl!EnterSend
  <2>1. /\ rx = 0 /\ channel' = <<>> /\ rx' = count'.turns
        /\ stream' = [stream EXCEPT ![count'.turns] = "sends"]
    BY <1>4 DEF Cl!EnterSend
  <2>2. \A m \in Cl!Messages : stream[m] # "sends"
    BY <1>0, <2>1 DEF StartInv
  <2> QED
    BY <1>0, <2>1, <2>2 DEF StartInv
<1>5. ASSUME NEW m \in Cl!Messages, Cl!SendMessage(m) \/ Cl!LockStream(m) \/ Cl!ReadStream(m)
      PROVE  StartInv'
  <2>1. /\ UNCHANGED rx /\ (rx # m => UNCHANGED channel)
        /\ stream' \in {stream, [stream EXCEPT ![m] = "waits"], [stream EXCEPT ![m] = "reads"],
                        [stream EXCEPT ![m] = "over"]}
    BY <1>5 DEF Cl!SendMessage, Cl!LockStream, Cl!ReadStream, Cl!Tell
  <2>2. stream'[m] # "sends"
    BY <1>0, <1>5 DEF Cl!SendMessage, Cl!LockStream, Cl!ReadStream
  <2>3. \A i \in Cl!Messages : stream'[i] = "sends" => i # m /\ stream[i] = "sends"
    BY <1>0, <2>1, <2>2
  <2> QED
    BY <2>1, <2>3 DEF StartInv
<1>6. CASE \/ Cl!RequestCancel \/ Cl!RequestCall \/ Cl!RequestNothing \/ Cl!Poll \/ Cl!LockMain
           \/ Cl!ReadMain \/ Cl!EnterSteer \/ Cl!EnterAnswer \/ Cl!ToggleDialog \/ Cl!PressCancel
           \/ Cl!PressCall \/ Cl!EnterSwitch \/ Cl!CloseSwitcher \/ Cl!SendAnswer
  BY <1>1, <1>6 DEF Cl!RequestCancel, Cl!RequestCall, Cl!RequestNothing, Cl!Poll, Cl!LockMain,
     Cl!ReadMain, Cl!EnterSteer, Cl!EnterAnswer, Cl!ToggleDialog, Cl!PressCancel, Cl!Cancelled,
     Cl!PressCall, Cl!EnterSwitch, Cl!CloseSwitcher, Cl!SendAnswer
<1>7. CASE Cl!Gateway \/ Cl!Ask \/ Cl!Die
  BY <1>1, <1>7 DEF Cl!Gateway, Cl!Between, Cl!Serve, Cl!GiveUp, Cl!Finish, Cl!Ask, Cl!Die
<1> QED
  BY <1>2, <1>3, <1>4, <1>5, <1>6, <1>7 DEF Cl!Next, Cl!Loop, Cl!User

\* What the main loop and the keys leave of the queues.
LEMMA TypesOfLoop == ClientInv /\ (Cl!Loop \/ Cl!User \/ Cl!SendAnswer) => ClientInv'
<1> SUFFICES ASSUME ClientInv, Cl!Loop \/ Cl!User \/ Cl!SendAnswer PROVE ClientInv'
  OBVIOUS
<1>0. /\ count \in [turns : 0..MaxTurns, calls : Nat, cancels : Nat, steers : Nat, asks : Nat]
      /\ rx \in 0..count.turns /\ running \in 0..count.turns
      /\ channel \in Seq(Cl!Events) /\ (rx = 0 => channel = <<>>)
      /\ stream \in [Cl!Messages -> {"none", "sends", "waits", "reads", "over"}]
      /\ toGateway \in Seq(GatewayFrames) /\ SentBy(toGateway, count.turns)
      /\ toClient \in Seq(ClientFrames) /\ RepliesTo(toClient, count.turns)
  BY DEF ClientInv
<1>1. MaxTurns \in Nat /\ count.turns \in Nat
  BY <1>0, ClientAssumption
<1> DEFINE
    Same == UNCHANGED <<rx, channel, stream, running, toClient>>
    Counts == count' \in [turns : {count.turns}, calls : Nat, cancels : Nat, steers : Nat, asks : Nat]
<1>2. ASSUME Counts PROVE count' \in [turns : 0..MaxTurns, calls : Nat, cancels : Nat, steers : Nat, asks : Nat]
                          /\ count'.turns = count.turns
  BY <1>0, <1>2
<1>3. UNCHANGED count => Counts
  BY <1>0
<1>4. ASSUME Same, UNCHANGED toGateway, Counts PROVE ClientInv'
  <2> HIDE DEF Counts
  <2> QED
    BY <1>0, <1>2, <1>4 DEF ClientInv
<1>5. \A kind, from : kind \in {"cancel", "list", "steer", "get", "answer"} /\ from \in {Cl!Nobody, Cl!Main}
        /\ Cl!Send(kind, from) /\ Same /\ Counts => ClientInv'
  <2> SUFFICES ASSUME NEW kind \in {"cancel", "list", "steer", "get", "answer"},
                      NEW from \in {Cl!Nobody, Cl!Main}, Cl!Send(kind, from), Same, Counts
               PROVE  ClientInv'
    OBVIOUS
  <2> DEFINE f == [kind |-> kind, from |-> from]
  <2>1. f \in GatewayFrames /\ f.kind # "message" /\ f.from \in {Cl!Nobody, Cl!Main}
    BY DEF GatewayFrames, Cl!Nobody, Cl!Main
  <2>2. toGateway' = Append(toGateway, f) \/ toGateway' = toGateway
    BY DEF Cl!Send
  <2> HIDE DEF f, Counts
  <2>3. toGateway' \in Seq(GatewayFrames) /\ SentBy(toGateway', count.turns)
    BY <1>0, <2>1, <2>2, Sent
  <2> QED
    BY <1>0, <1>2, <2>3 DEF ClientInv
<1>6. CASE Cl!ApplyAsk
  <2>1. /\ channel # <<>> /\ channel' = Tail(channel)
        /\ UNCHANGED <<count, rx, stream, running, toGateway, toClient>>
    BY <1>6 DEF Cl!ApplyAsk, Cl!core
  <2>2. channel' \in Seq(Cl!Events)
    BY <1>0, <2>1
  <2> QED
    BY <1>0, <2>1, <2>2 DEF ClientInv
<1>7. CASE Cl!ApplyEnd \/ Cl!ApplyNothing
  <2>1. /\ (rx' = 0 /\ channel' = <<>>) \/ UNCHANGED <<rx, channel>>
        /\ UNCHANGED <<count, stream, running, toGateway, toClient>>
    BY <1>7 DEF Cl!ApplyEnd, Cl!ApplyNothing, Cl!EndTurn, Cl!core
  <2>2. rx' \in 0..count.turns /\ channel' \in Seq(Cl!Events) /\ (rx' = 0 => channel' = <<>>)
    <3>1. CASE rx' = 0 /\ channel' = <<>>
      BY <1>1, <3>1
    <3>2. CASE UNCHANGED <<rx, channel>>
      BY <1>0, <3>2
    <3> QED
      BY <2>1, <3>1, <3>2
  <2> QED
    BY <1>0, <2>1, <2>2 DEF ClientInv
<1>8. CASE Cl!RequestCancel \/ Cl!RequestCall \/ Cl!SendAnswer
  <2>1. /\ Same /\ UNCHANGED count
        /\ \/ Cl!Send("cancel", Cl!Nobody) \/ Cl!Send("list", Cl!Main) \/ Cl!Send("answer", Cl!Nobody)
    BY <1>8 DEF Cl!RequestCancel, Cl!RequestCall, Cl!SendAnswer, Cl!Call, Cl!core, Cl!app
  <2> HIDE DEF Same, Counts
  <2> QED
    BY <1>3, <1>5, <2>1
<1>9. CASE Cl!RequestNothing \/ Cl!Poll \/ Cl!LockMain \/ Cl!EnterAnswer \/ Cl!ToggleDialog \/ Cl!CloseSwitcher
  <2>1. Same /\ UNCHANGED <<count, toGateway>>
    BY <1>9 DEF Cl!RequestNothing, Cl!Poll, Cl!LockMain, Cl!EnterAnswer, Cl!ToggleDialog,
                Cl!CloseSwitcher, Cl!core, Cl!app
  <2> HIDE DEF Same, Counts
  <2> QED
    BY <1>3, <1>4, <2>1
<1>10. CASE Cl!ReadMain
  <2>1. /\ UNCHANGED <<count, rx, channel, stream, running, toGateway>>
        /\ (toClient # <<>> /\ toClient' = Tail(toClient)) \/ UNCHANGED toClient
    BY <1>10 DEF Cl!ReadMain, Cl!core
  <2>2. toClient' \in Seq(ClientFrames) /\ RepliesTo(toClient', count.turns)
    BY <1>0, <2>1, Read
  <2> QED
    BY <1>0, <2>1, <2>2 DEF ClientInv
<1>11. CASE Cl!EnterSend
  <2> DEFINE n == count.turns + 1
  <2>1. /\ count.turns < MaxTurns /\ count' = [count EXCEPT !.turns = @ + 1]
        /\ UNCHANGED <<running, toGateway, toClient>>
    BY <1>11 DEF Cl!EnterSend, Cl!core
  <2>2. n \in 0..MaxTurns /\ n \in Cl!Messages
    BY <1>1, <2>1 DEF Cl!Messages
  <2>10. count' = [count EXCEPT !.turns = n]
    BY <1>0, <2>1
  <2>11. /\ count' \in [turns : 0..MaxTurns, calls : Nat, cancels : Nat, steers : Nat, asks : Nat]
         /\ count'.turns = n
    <3> HIDE DEF n
    <3> QED
      BY <1>0, <2>2, <2>10
  <2>3. rx' = n /\ channel' = <<>> /\ stream' = [stream EXCEPT ![n] = "sends"]
    BY <1>11, <2>11 DEF Cl!EnterSend
  <2>5. SentBy(toGateway, n) /\ RepliesTo(toClient, n)
    BY <1>0, <1>1, OneMoreSent
  <2>7. rx' \in 0..n /\ rx' # 0 /\ running \in 0..n
    BY <1>0, <1>1, <2>3
  <2>8. channel' \in Seq(Cl!Events)
    BY <2>3
  <2>9. stream' \in [Cl!Messages -> {"none", "sends", "waits", "reads", "over"}]
    BY <1>0, <2>3
  <2> HIDE DEF n
  <2> QED
    BY <1>0, <2>1, <2>11, <2>5, <2>7, <2>8, <2>9 DEF ClientInv
<1>12. CASE Cl!EnterSteer \/ Cl!EnterSwitch
  <2>1. Counts
    <3>1. count' = [count EXCEPT !.steers = @ + 1] \/ count' = [count EXCEPT !.calls = @ + 1]
      BY <1>12 DEF Cl!EnterSteer, Cl!EnterSwitch
    <3>2. CASE count' = [count EXCEPT !.steers = @ + 1]
      BY <1>0, <3>2
    <3>3. CASE count' = [count EXCEPT !.calls = @ + 1]
      <4>1. count.calls + 1 \in Nat
        BY <1>0
      <4> QED
        BY <1>0, <3>3, <4>1
    <3> QED
      BY <3>1, <3>2, <3>3
  <2>2. Same /\ (Cl!Send("steer", Cl!Nobody) \/ Cl!Send("get", Cl!Main))
    BY <1>12 DEF Cl!EnterSteer, Cl!EnterSwitch, Cl!Call, Cl!core
  <2> HIDE DEF Same, Counts
  <2> QED
    BY <1>5, <2>1, <2>2
<1>13. CASE Cl!PressCall
  <2>1. Counts
    BY <1>0, <1>13 DEF Cl!PressCall
  <2>2. Same /\ UNCHANGED toGateway
    BY <1>13 DEF Cl!PressCall, Cl!core
  <2> HIDE DEF Same, Counts
  <2> QED
    BY <1>4, <2>1, <2>2
<1>14. CASE Cl!PressCancel
  <2>1. Counts
    BY <1>0, <1>14 DEF Cl!PressCancel
  <2>2. Same /\ UNCHANGED toGateway
    BY <1>14 DEF Cl!PressCancel, Cl!Cancelled, Cl!core
  <2> HIDE DEF Same, Counts
  <2> QED
    BY <1>4, <2>1, <2>2
<1> QED
  BY <1>6, <1>7, <1>8, <1>9, <1>10, <1>11, <1>12, <1>13, <1>14 DEF Cl!Loop, Cl!User

\* What the threads of the messages do, frame by frame: what they tell the loop.
LEMMA TypesOfStreams ==
    ASSUME NEW m \in Cl!Messages
    PROVE  ClientInv /\ StartInv /\ (Cl!SendMessage(m) \/ Cl!LockStream(m) \/ Cl!ReadStream(m)) => ClientInv'
<1> SUFFICES ASSUME ClientInv, StartInv, Cl!SendMessage(m) \/ Cl!LockStream(m) \/ Cl!ReadStream(m)
             PROVE  ClientInv'
  OBVIOUS
<1>0. /\ rx \in 0..count.turns /\ count.turns \in Nat
      /\ toGateway \in Seq(GatewayFrames) /\ SentBy(toGateway, count.turns)
      /\ channel \in Seq(Cl!Events) /\ (rx = 0 => channel = <<>>)
      /\ stream \in [Cl!Messages -> {"none", "sends", "waits", "reads", "over"}]
      /\ toClient \in Seq(ClientFrames) /\ RepliesTo(toClient, count.turns)
  BY ClientAssumption DEF ClientInv
<1>1. m # 0
  BY ClientAssumption DEF Cl!Messages
<1>2. /\ UNCHANGED <<rx, count, running>>
      /\ stream' \in [Cl!Messages -> {"none", "sends", "waits", "reads", "over"}]
  BY <1>0 DEF Cl!SendMessage, Cl!LockStream, Cl!ReadStream, Cl!core
<1>6. toGateway' \in Seq(GatewayFrames) /\ SentBy(toGateway', count.turns)
  <2> DEFINE f == [kind |-> "message", from |-> m]
  <2>1. CASE Cl!SendMessage(m)
    <3>1. toGateway' = Append(toGateway, f) \/ toGateway' = toGateway
      BY <2>1 DEF Cl!SendMessage, Cl!Send
    <3>2. rx = m /\ m \in 1..count.turns
      BY <1>0, <1>1, <2>1 DEF Cl!SendMessage, StartInv
    <3>3. f \in GatewayFrames /\ f.kind = "message" /\ f.from \in 1..count.turns
      BY <3>2 DEF GatewayFrames
    <3> HIDE DEF f
    <3> QED
      BY <1>0, <3>1, <3>3, Sent
  <2>2. CASE Cl!LockStream(m) \/ Cl!ReadStream(m)
    BY <1>0, <2>2 DEF Cl!LockStream, Cl!ReadStream
  <2> QED
    BY <2>1, <2>2
<1>3. toClient' \in Seq(ClientFrames) /\ RepliesTo(toClient', count.turns)
  <2>1. (toClient # <<>> /\ toClient' = Tail(toClient)) \/ UNCHANGED toClient
    BY DEF Cl!SendMessage, Cl!LockStream, Cl!ReadStream
  <2> QED
    BY <1>0, <2>1, Read
<1>4. \/ UNCHANGED channel
      \/ rx = m /\ \E e \in Cl!Events : channel' = channel \o <<e>>
  <2>1. CASE Cl!LockStream(m)
    BY <2>1 DEF Cl!LockStream
  <2>3. CASE Cl!SendMessage(m)
    <3>1. Cl!Tell(m, <<>>) \/ Cl!Tell(m, <<"err">>)
      BY <2>3 DEF Cl!SendMessage
    <3>2. channel \o <<>> = channel /\ "err" \in Cl!Events
      BY <1>0 DEF Cl!Events
    <3> QED
      BY <3>1, <3>2 DEF Cl!Tell
  <2>2. CASE Cl!ReadStream(m)
    <3>1. \/ Cl!Tell(m, Cl!Heard(m)) \/ Cl!Tell(m, <<"err">>)
      BY <2>2 DEF Cl!ReadStream
    <3>2. Cl!Heard(m) = <<>> \/ \E e \in Cl!Events : Cl!Heard(m) = <<e>>
      BY DEF Cl!Heard, Cl!Events
    <3>3. channel \o <<>> = channel
      BY <1>0
    <3>4. "err" \in Cl!Events
      BY DEF Cl!Events
    <3> QED
      BY <3>1, <3>2, <3>3, <3>4 DEF Cl!Tell
  <2> QED
    BY <2>1, <2>2, <2>3
<1>5. channel' \in Seq(Cl!Events) /\ (rx = 0 => channel' = <<>>)
  <2>1. CASE UNCHANGED channel
    BY <1>0, <2>1
  <2>2. CASE rx = m /\ \E e \in Cl!Events : channel' = channel \o <<e>>
    <3>1. PICK e \in Cl!Events : channel' = channel \o <<e>>
      BY <2>2
    <3>2. channel \o <<e>> \in Seq(Cl!Events)
      BY <1>0
    <3> QED
      BY <1>1, <2>2, <3>1, <3>2
  <2> QED
    BY <1>4, <2>1, <2>2
<1> QED
  BY <1>0, <1>2, <1>3, <1>5, <1>6 DEF ClientInv

\* What the gateway takes and writes.
LEMMA TypesOfGateway == ClientInv /\ (Cl!Gateway \/ Cl!Ask \/ Cl!Die) => ClientInv'
<1> SUFFICES ASSUME ClientInv, Cl!Gateway \/ Cl!Ask \/ Cl!Die PROVE ClientInv'
  OBVIOUS
<1>0. /\ count \in [turns : 0..MaxTurns, calls : Nat, cancels : Nat, steers : Nat, asks : Nat]
      /\ running \in 0..count.turns
      /\ toGateway \in Seq(GatewayFrames) /\ SentBy(toGateway, count.turns)
      /\ toClient \in Seq(ClientFrames) /\ RepliesTo(toClient, count.turns)
  BY DEF ClientInv
<1>1. count.turns \in Nat
  BY <1>0, ClientAssumption
<1>2. UNCHANGED <<rx, channel, stream>>
  BY DEF Cl!Gateway, Cl!Between, Cl!Serve, Cl!GiveUp, Cl!Finish, Cl!Ask, Cl!Die
<1>3. /\ count' \in [turns : 0..MaxTurns, calls : Nat, cancels : Nat, steers : Nat, asks : Nat]
      /\ count'.turns = count.turns
  BY <1>0 DEF Cl!Gateway, Cl!Between, Cl!Serve, Cl!GiveUp, Cl!Finish, Cl!Ask, Cl!Die
<1> DEFINE Heads == toGateway # <<>> /\ toGateway' = Tail(toGateway)
<1>4. ASSUME Heads
      PROVE  /\ toGateway' \in Seq(GatewayFrames) /\ SentBy(toGateway', count.turns)
             /\ IF Cl!Asked.kind = "message" THEN Cl!Asked.from \in 1..count.turns
                ELSE Cl!Asked.from \in {Cl!Nobody, Cl!Main}
  BY <1>0, <1>4, Taken DEF Cl!Asked
<1>5. \A kind \in {"ask", "done", "ok", "refused"}, to \in Int : to <= count.turns =>
        toClient \o <<[kind |-> kind, to |-> to]>> \in Seq(ClientFrames)
        /\ RepliesTo(toClient \o <<[kind |-> kind, to |-> to]>>, count.turns)
  <2> SUFFICES ASSUME NEW kind \in {"ask", "done", "ok", "refused"}, NEW to \in Int, to <= count.turns
               PROVE toClient \o <<[kind |-> kind, to |-> to]>> \in Seq(ClientFrames)
                     /\ RepliesTo(toClient \o <<[kind |-> kind, to |-> to]>>, count.turns)
    OBVIOUS
  <2>1. [kind |-> kind, to |-> to] \in ClientFrames /\ [kind |-> kind, to |-> to].to <= count.turns
    BY DEF ClientFrames
  <2> QED
    BY <1>0, <2>1, Written
<1>6. Cl!Nobody \in Int /\ Cl!Main \in Int /\ Cl!Nobody <= count.turns /\ Cl!Main <= count.turns
  BY <1>1 DEF Cl!Nobody, Cl!Main
<1>7. CASE Cl!GiveUp \/ Cl!Finish \/ Cl!Ask
  <2>1. UNCHANGED toGateway /\ running' \in {0, running}
    BY <1>7 DEF Cl!GiveUp, Cl!Finish, Cl!Ask
  <2>2. running' \in 0..count.turns /\ running \in Int /\ running <= count.turns
    BY <1>0, <1>1, <2>1
  <2>3. \/ UNCHANGED toClient
        \/ toClient' = toClient \o <<[kind |-> "ask", to |-> Cl!Nobody]>>
        \/ toClient' = toClient \o <<[kind |-> "done", to |-> Cl!Nobody]>>
        \/ toClient' = toClient \o <<[kind |-> "refused", to |-> running]>>
        \/ toClient' = toClient \o <<[kind |-> "ok", to |-> running]>>
    BY <1>7 DEF Cl!GiveUp, Cl!Ask, Cl!Finish, Cl!Wrote, Cl!Event, Cl!Reply
  <2>4. toClient' \in Seq(ClientFrames) /\ RepliesTo(toClient', count.turns)
    BY <1>0, <1>5, <1>6, <2>2, <2>3
  <2> QED
    BY <1>0, <1>2, <1>3, <2>1, <2>2, <2>4 DEF ClientInv
<1>8. CASE Cl!Between \/ Cl!Serve
  <2>1. Heads
    BY <1>8 DEF Cl!Between, Cl!Serve, Cl!Takes
  <2> HIDE DEF Heads
  <2>2. Cl!Asked.from \in Int /\ Cl!Asked.from <= count.turns
        /\ (Cl!Asked.kind = "message" => Cl!Asked.from \in 0..count.turns)
    BY <1>1, <1>4, <1>6, <2>1
  <2>3. /\ running' = running \/ (Cl!Asked.kind = "message" /\ running' = Cl!Asked.from)
        /\ \/ UNCHANGED toClient
           \/ toClient' = toClient \o <<[kind |-> "ok", to |-> Cl!Asked.from]>>
           \/ toClient' = toClient \o <<[kind |-> "refused", to |-> Cl!Asked.from]>>
    BY <1>8 DEF Cl!Between, Cl!Serve, Cl!Wrote, Cl!Reply, Cl!core
  <2>4. toClient' \in Seq(ClientFrames) /\ RepliesTo(toClient', count.turns)
    BY <1>0, <1>5, <2>2, <2>3
  <2> QED
    BY <1>0, <1>2, <1>3, <1>4, <2>1, <2>2, <2>3, <2>4 DEF ClientInv
<1>9. CASE Cl!Die
  <2>1. running' = 0 /\ toGateway' = <<>> /\ UNCHANGED toClient
    BY <1>9 DEF Cl!Die
  <2>2. toGateway' \in Seq(GatewayFrames) /\ SentBy(toGateway', count.turns) /\ running' \in 0..count.turns
    BY <1>1, <2>1 DEF SentBy
  <2> QED
    BY <1>0, <1>2, <1>3, <2>1, <2>2 DEF ClientInv
<1> QED
  BY <1>7, <1>8, <1>9 DEF Cl!Gateway

\* A step that leaves the message and the turn where they are.
LEMMA Unmoved ==
    ASSUME PictureInv, UNCHANGED <<crossed, gateway, running, rx, toClient>>,
           OneMessage(toGateway, rx) => OneMessage(toGateway', rx),
           Messageless(toGateway') <=> Messageless(toGateway),
           EndHeard' => EndHeard, Unsent' => Unsent
    PROVE  PictureInv'
BY DEF PictureInv, Cl!Alive, Settled

\* A client that lets go of a turn has heard of its end.
LEMMA LetGo ==
    ASSUME PictureInv, EndHeard, rx' = 0, UNCHANGED <<crossed, gateway, running, toGateway, toClient>>
    PROVE  PictureInv'
<1> SUFFICES ASSUME ~crossed, Cl!Alive PROVE PictureInv'
  BY DEF PictureInv, Cl!Alive
<1>1. Settled /\ Doneless(toClient)
  BY DEF PictureInv
<1>2. Settled' /\ Doneless(toClient') /\ rx' = 0 /\ Messageless(toGateway')
  BY <1>1 DEF Settled
<1>3. OneMessage(toGateway', 0) /\ DoneFirst(toClient', 0)
  BY <1>2 DEF OneMessage, Messageless, DoneFirst, Doneless
<1> QED
  BY <1>2, <1>3 DEF PictureInv, Settled, Unsent

\* A frame to the gateway that is no message.
LEMMA NoMessageSent ==
    ASSUME CInv, NEW kind \in {"cancel", "list", "steer", "get", "answer"}, NEW from \in Int,
           Cl!Send(kind, from), UNCHANGED <<crossed, gateway, running, rx, channel, stream, toClient>>
    PROVE  PictureInv'
<1> DEFINE f == [kind |-> kind, from |-> from]
<1>1. f \in GatewayFrames /\ f.kind # "message"
  BY DEF GatewayFrames
<1>2. toGateway' = Append(toGateway, f) \/ toGateway' = toGateway
  BY DEF Cl!Send
<1> HIDE DEF f
<1>3. toGateway \in Seq(GatewayFrames) /\ PictureInv
  BY DEF CInv, ClientInv
<1>4. /\ OneMessage(toGateway, rx) => OneMessage(toGateway', rx)
      /\ Messageless(toGateway') <=> Messageless(toGateway)
  BY <1>1, <1>2, <1>3, Sent
<1>5. (EndHeard' => EndHeard) /\ (Unsent' => Unsent)
  BY DEF EndHeard, Unsent
<1> QED
  BY <1>3, <1>4, <1>5, Unmoved

LEMMA PictureLoop == CInv /\ (Cl!Loop \/ Cl!SendAnswer) => PictureInv'
<1> SUFFICES ASSUME CInv, Cl!Loop \/ Cl!SendAnswer PROVE PictureInv'
  OBVIOUS
<1>0. PictureInv /\ channel \in Seq(Cl!Events) /\ (rx = 0 => channel = <<>>)
      /\ toClient \in Seq(ClientFrames)
  BY DEF CInv, ClientInv
<1> DEFINE Rest == <<crossed, gateway, running, toGateway, toClient>>
<1>1. CASE Cl!ApplyAsk
  <2>1. UNCHANGED <<Rest, rx, stream>> /\ channel # <<>> /\ channel' = Tail(channel)
    BY <1>1 DEF Cl!ApplyAsk, Cl!core
  <2>2. \A i \in 1..Len(channel') : i + 1 \in 1..Len(channel) /\ channel'[i] = channel[i + 1]
    BY <1>0, <2>1
  <2>3. EndHeard' => EndHeard
    BY <2>1, <2>2 DEF EndHeard
  <2> QED
    BY <1>0, <2>1, <2>3, Unmoved DEF Unsent
<1>2. CASE Cl!ApplyEnd
  <2>1. /\ UNCHANGED Rest /\ rx' = 0 /\ channel # <<>>
        /\ Head(channel) \in {"done", "error", "err"}
    BY <1>2 DEF Cl!ApplyEnd, Cl!EndTurn, Cl!core
  <2>2. 1 \in 1..Len(channel) /\ channel[1] # "ask"
    BY <1>0, <2>1
  <2>3. EndHeard
    BY <1>0, <2>1, <2>2 DEF EndHeard
  <2> QED
    BY <1>0, <2>1, <2>3, LetGo
<1>3. CASE Cl!ApplyNothing
  <2>1. UNCHANGED <<Rest, stream>>
        /\ ((rx # 0 /\ stream[rx] = "over" /\ rx' = 0) \/ UNCHANGED <<rx, channel>>)
    BY <1>3 DEF Cl!ApplyNothing, Cl!EndTurn, Cl!core
  <2>2. CASE rx # 0 /\ stream[rx] = "over" /\ rx' = 0
    BY <1>0, <2>1, <2>2, LetGo DEF EndHeard
  <2>3. CASE UNCHANGED <<rx, channel>>
    BY <1>0, <2>1, <2>3, Unmoved DEF EndHeard, Unsent
  <2> QED
    BY <2>1, <2>2, <2>3
<1>4. CASE Cl!RequestCancel \/ Cl!RequestCall \/ Cl!SendAnswer
  <2>1. /\ UNCHANGED <<crossed, gateway, running, rx, channel, stream, toClient>>
        /\ \/ Cl!Send("cancel", Cl!Nobody) \/ Cl!Send("list", Cl!Main) \/ Cl!Send("answer", Cl!Nobody)
    BY <1>4 DEF Cl!RequestCancel, Cl!RequestCall, Cl!SendAnswer, Cl!Call, Cl!core
  <2>2. Cl!Nobody \in Int /\ Cl!Main \in Int
    BY DEF Cl!Nobody, Cl!Main
  <2> QED
    BY <2>1, <2>2, NoMessageSent
<1>5. CASE Cl!RequestNothing \/ Cl!Poll \/ Cl!LockMain
  <2>1. UNCHANGED <<Rest, rx, channel, stream>>
    BY <1>5 DEF Cl!RequestNothing, Cl!Poll, Cl!LockMain, Cl!core
  <2> QED
    BY <1>0, <2>1, Unmoved DEF EndHeard, Unsent
<1>6. CASE Cl!ReadMain
  <2>1. UNCHANGED <<gateway, running, toGateway, rx, channel, stream>> /\ (crossed => crossed')
    <3>1. UNCHANGED <<gateway, running, toGateway, rx, channel, stream>>
      BY <1>6 DEF Cl!ReadMain, Cl!core
    <3>2. Cl!Crosses(Cl!Main) \/ UNCHANGED crossed
      BY <1>6 DEF Cl!ReadMain
    <3>3. crossed => crossed'
      BY <3>2, Zenon DEF Cl!Crosses
    <3> QED
      BY <3>1, <3>3
  <2>2. CASE Cl!Ended
    BY <2>1, <2>2 DEF Cl!Ended, PictureInv, Cl!Alive
  <2>3. CASE toClient # <<>> /\ toClient' = Tail(toClient)
    <3>1. /\ Doneless(toClient) => Doneless(toClient')
          /\ NoReply(toClient, rx) => NoReply(toClient', rx)
          /\ DoneFirst(toClient, rx) => DoneFirst(toClient', rx)
      BY <1>0, <2>3, Read
    <3>2. EndHeard' = EndHeard /\ Unsent' = Unsent /\ Settled' = Settled /\ Cl!Alive' = Cl!Alive
      BY <2>1 DEF EndHeard, Unsent, Settled, Cl!Alive
    <3> QED
      BY <1>0, <2>1, <3>1, <3>2 DEF PictureInv
  <2> QED
    BY <1>6, <2>2, <2>3 DEF Cl!ReadMain
<1> QED
  BY <1>1, <1>2, <1>3, <1>4, <1>5, <1>6 DEF Cl!Loop

\* The keys: a message is sent only when the client has let go of the turn before.
LEMMA PictureUser == CInv /\ Cl!User => PictureInv'
<1> SUFFICES ASSUME CInv, Cl!User PROVE PictureInv'
  OBVIOUS
<1>0. /\ PictureInv /\ toGateway \in Seq(GatewayFrames) /\ toClient \in Seq(ClientFrames)
      /\ SentBy(toGateway, count.turns) /\ RepliesTo(toClient, count.turns)
      /\ running \in 0..count.turns
      /\ count \in [turns : 0..MaxTurns, calls : Nat, cancels : Nat, steers : Nat, asks : Nat]
      /\ stream \in [Cl!Messages -> {"none", "sends", "waits", "reads", "over"}]
  BY DEF CInv, ClientInv
<1>1. count.turns \in Nat /\ MaxTurns \in Nat
  BY <1>0, ClientAssumption
<1> DEFINE Rest == <<crossed, gateway, running, toGateway, toClient>>
<1>2. CASE Cl!EnterSend
  <2> DEFINE n == count.turns + 1
  <2>1. /\ rx = 0 /\ count.turns < MaxTurns /\ count' = [count EXCEPT !.turns = @ + 1]
        /\ UNCHANGED Rest
    BY <1>2 DEF Cl!EnterSend, Cl!core
  <2>2. count'.turns = n /\ n \in Cl!Messages /\ n # 0 /\ running # n
    BY <1>0, <1>1, <2>1 DEF Cl!Messages
  <2>3. rx' = n /\ channel' = <<>> /\ stream' = [stream EXCEPT ![n] = "sends"]
    BY <1>2, <2>2 DEF Cl!EnterSend
  <2>5. NoReply(toClient, n)
    BY <1>0, <1>1, OneMoreSent
  <2> HIDE DEF n
  <2> SUFFICES ASSUME ~crossed, Cl!Alive PROVE PictureInv'
    BY <2>1 DEF PictureInv, Cl!Alive
  <2>6. Settled /\ Doneless(toClient)
    BY <1>0, <2>1 DEF PictureInv
  <2>7. Settled' /\ OneMessage(toGateway', n)
    BY <2>1, <2>6 DEF Settled, Messageless, OneMessage
  <2>8. running' # n
    BY <2>1, <2>2
  <2>9. Doneless(toClient') /\ DoneFirst(toClient', n) /\ NoReply(toClient', n)
    BY <2>1, <2>5, <2>6 DEF Doneless, DoneFirst
  <2> QED
    BY <2>2, <2>3, <2>7, <2>8, <2>9 DEF PictureInv, Settled
<1>3. CASE Cl!EnterSteer \/ Cl!EnterSwitch
  <2>1. /\ UNCHANGED <<crossed, gateway, running, rx, channel, stream, toClient>>
        /\ Cl!Send("steer", Cl!Nobody) \/ Cl!Send("get", Cl!Main)
    BY <1>3 DEF Cl!EnterSteer, Cl!EnterSwitch, Cl!Call, Cl!core
  <2>2. Cl!Nobody \in Int /\ Cl!Main \in Int
    BY DEF Cl!Nobody, Cl!Main
  <2> QED
    BY <2>1, <2>2, NoMessageSent
<1>4. CASE Cl!EnterAnswer \/ Cl!ToggleDialog \/ Cl!PressCall \/ Cl!PressCancel \/ Cl!CloseSwitcher
  <2>1. UNCHANGED <<Rest, rx, channel, stream>>
    BY <1>4 DEF Cl!EnterAnswer, Cl!ToggleDialog, Cl!PressCall, Cl!PressCancel, Cl!CloseSwitcher,
                Cl!Cancelled, Cl!core
  <2> QED
    BY <1>0, <2>1, Unmoved DEF EndHeard, Unsent
<1> QED
  BY <1>2, <1>3, <1>4 DEF Cl!User

\* The thread of a message: what it tells the loop of an end is the end, unless a reply was
\* read by another than it was for.
LEMMA PictureStream ==
    ASSUME NEW m \in Cl!Messages
    PROVE  CInv /\ (Cl!SendMessage(m) \/ Cl!LockStream(m) \/ Cl!ReadStream(m)) => PictureInv'
<1> SUFFICES ASSUME CInv, Cl!SendMessage(m) \/ Cl!LockStream(m) \/ Cl!ReadStream(m) PROVE PictureInv'
  OBVIOUS
<1>0. /\ PictureInv /\ toClient \in Seq(ClientFrames) /\ channel \in Seq(Cl!Events)
      /\ stream \in [Cl!Messages -> {"none", "sends", "waits", "reads", "over"}]
  BY DEF CInv, ClientInv
<1>1. UNCHANGED <<gateway, running, rx>> /\ (~Cl!SendMessage(m) => UNCHANGED toGateway)
  BY DEF Cl!SendMessage, Cl!LockStream, Cl!ReadStream, Cl!core
<1>2. m # 0
  BY ClientAssumption DEF Cl!Messages
<1>5. CASE Cl!SendMessage(m)
  <2> DEFINE f == [kind |-> "message", from |-> m]
  <2> SUFFICES ASSUME ~crossed', Cl!Alive' PROVE PictureInv'
    BY DEF PictureInv
  <2>1. Cl!Alive /\ ~crossed /\ UNCHANGED <<crossed, toClient>>
    BY <1>1, <1>5 DEF Cl!SendMessage, Cl!Alive
  <2>2. /\ toGateway' = Append(toGateway, f) /\ stream' = [stream EXCEPT ![m] = "waits"]
        /\ stream[m] = "sends" /\ Cl!Tell(m, <<>>)
    BY <1>5, <2>1 DEF Cl!SendMessage, Cl!Send
  <2>3. rx = m /\ channel = <<>> /\ Unsent
    BY <1>2, <2>2 DEF CInv, StartInv, Unsent
  <2>4. Settled /\ running # m /\ Doneless(toClient) /\ NoReply(toClient, m)
    BY <1>0, <2>1, <2>3 DEF PictureInv
  <2>5. f \in GatewayFrames /\ f.from = m /\ toGateway \in Seq(GatewayFrames)
    BY ClientAssumption DEF GatewayFrames, Cl!Messages, CInv, ClientInv
  <2> HIDE DEF f
  <2>6. OneMessage(toGateway', m)
    BY <2>2, <2>4, <2>5, Sent DEF Settled
  <2>7. channel' = <<>> /\ stream'[m] = "waits"
    BY <1>0, <2>2, <2>3 DEF Cl!Tell
  <2>8. ~EndHeard' /\ ~Unsent'
    BY <1>1, <2>3, <2>7 DEF EndHeard, Unsent
  <2>9. Doneless(toClient') /\ DoneFirst(toClient', m) /\ NoReply(toClient', m)
    BY <2>1, <2>4 DEF Doneless, DoneFirst
  <2> QED
    BY <1>1, <1>2, <2>3, <2>4, <2>6, <2>8, <2>9 DEF PictureInv, Settled
<1>3. CASE Cl!LockStream(m)
  <2>1. /\ UNCHANGED <<channel, crossed, toClient>>
        /\ stream[m] = "waits" /\ stream' = [stream EXCEPT ![m] = "reads"]
    BY <1>3 DEF Cl!LockStream
  <2>2. \A i : stream'[i] = "over" /\ i \in Cl!Messages => stream[i] = "over"
    BY <1>0, <2>1
  <2>3. rx \in 0..MaxTurns
    BY ClientAssumption DEF CInv, ClientInv
  <2>4. EndHeard' => EndHeard
    BY <1>1, <2>1, <2>2, <2>3 DEF EndHeard, Cl!Messages
  <2>5. UNCHANGED toGateway
    BY <1>3 DEF Cl!LockStream
  <2>6. Unsent' => Unsent
    <3>1. \A i \in Cl!Messages : stream'[i] = "sends" => stream[i] = "sends"
      BY <1>0, <2>1
    <3> QED
      BY <1>1, <2>3, <3>1, ClientAssumption DEF Unsent, Cl!Messages
  <2> QED
    BY <1>0, <1>1, <2>1, <2>4, <2>5, <2>6, Unmoved
<1>4. CASE Cl!ReadStream(m)
  <2>u. /\ UNCHANGED toGateway /\ stream[m] = "reads"
        /\ (rx = m => ~Unsent /\ ~Unsent') /\ (rx # m => Unsent' = Unsent)
    <3>1. UNCHANGED toGateway /\ stream[m] = "reads" /\ stream' \in {stream, [stream EXCEPT ![m] = "over"]}
      BY <1>4 DEF Cl!ReadStream
    <3>2. stream'[m] # "sends" /\ \A i \in Cl!Messages : i # m => stream'[i] = stream[i]
      BY <1>0, <3>1
    <3>3. rx # 0 => rx \in Cl!Messages
      BY ClientAssumption DEF CInv, ClientInv, Cl!Messages
    <3> QED
      BY <1>1, <3>1, <3>2, <3>3 DEF Unsent
  <2> SUFFICES ASSUME ~crossed', Cl!Alive' PROVE PictureInv'
    BY DEF PictureInv
  <2>1. Cl!Alive /\ ~Cl!Ended
    BY <1>1 DEF Cl!Alive, Cl!Ended
  <2>2. /\ toClient # <<>> /\ toClient' = Tail(toClient) /\ Cl!Crosses(m)
        /\ Cl!Tell(m, Cl!Heard(m))
        /\ stream' = IF Cl!Own(m) THEN [stream EXCEPT ![m] = "over"] ELSE stream
    BY <1>4, <2>1 DEF Cl!ReadStream
  <2>3. ~crossed /\ ~(Cl!Foreign(m) /\ Cl!Frame.kind = "refused")
    BY <2>2, Zenon DEF Cl!Crosses
  <2>4. /\ Doneless(toClient) => Doneless(toClient') /\ Cl!Frame.kind # "done"
        /\ NoReply(toClient, rx) => NoReply(toClient', rx) /\ ~IsReply(Cl!Frame, rx)
        /\ DoneFirst(toClient, rx) => DoneFirst(toClient', rx)
        /\ DoneFirst(toClient, rx) /\ (Cl!Frame.kind = "done" \/ IsReply(Cl!Frame, rx)) => Doneless(toClient')
    BY <1>0, <2>2, Read DEF Cl!Frame
  <2>5. Settled' = Settled
    BY <1>1, <2>u DEF Settled
  <2>6. CASE rx = m /\ (Cl!Frame.kind = "done" \/ Cl!Own(m))
    <3>1. Cl!Own(m) => IsReply(Cl!Frame, rx)
      BY <2>6 DEF Cl!Own, IsReply
    <3>2. Settled /\ Doneless(toClient') /\ DoneFirst(toClient', rx)
      BY <1>0, <1>2, <2>1, <2>3, <2>4, <2>6, <3>1 DEF PictureInv
    <3> QED
      BY <1>0, <1>1, <2>u, <2>1, <2>3, <2>5, <2>6, <3>2 DEF PictureInv, Settled
  <2>7. CASE ~(rx = m /\ (Cl!Frame.kind = "done" \/ Cl!Own(m)))
    <3>1. CASE rx # m
      <4>1. channel' = channel /\ stream'[rx] = stream[rx]
        BY <1>0, <2>2, <3>1 DEF Cl!Tell
      <4> QED
        BY <1>1, <2>u, <3>1, <4>1, <1>0, <2>1, <2>3, <2>4, <2>5 DEF EndHeard, PictureInv
    <3>2. CASE rx = m
      <4>1. Cl!Heard(m) = <<>> \/ Cl!Heard(m) = <<"ask">>
        BY <2>3, <2>7, <3>2 DEF Cl!Heard, Cl!Own, Cl!Foreign
      <4>2. "ask" \in Cl!Events
        BY DEF Cl!Events
      <4>3. channel' = channel \/ channel' = Append(channel, "ask")
        BY <1>0, <2>2, <3>2, <4>1, <4>2, Longer DEF Cl!Tell
      <4>4. \A i \in 1..Len(channel') : channel'[i] # "ask" => i \in 1..Len(channel) /\ channel[i] # "ask"
        <5>1. CASE channel' = channel
          BY <5>1
        <5>2. CASE channel' = Append(channel, "ask")
          <6>1. /\ Len(channel) \in Nat /\ Len(channel') = Len(channel) + 1
                /\ channel'[Len(channel) + 1] = "ask"
                /\ \A i \in 1..Len(channel) : channel'[i] = channel[i]
            BY <1>0, <4>2, <5>2, Longer
          <6> QED
            BY <6>1
        <5> QED
          BY <4>3, <5>1, <5>2
      <4>5. stream' = stream
        BY <2>2, <2>7, <3>2
      <4>6. EndHeard' => EndHeard
        BY <1>1, <4>4, <4>5 DEF EndHeard
      <4> QED
        BY <1>1, <2>u, <3>2, <4>6, <1>0, <2>1, <2>3, <2>4, <2>5 DEF PictureInv
    <3> QED
      BY <3>1, <3>2
  <2> QED
    BY <2>6, <2>7
<1> QED
  BY <1>3, <1>4, <1>5

\* The gateway: a turn begins with the one message under way, and what ends it for the client
\* is written when it is over.
LEMMA PictureGateway == CInv /\ (Cl!Gateway \/ Cl!Ask \/ Cl!Die) => PictureInv'
<1> SUFFICES ASSUME CInv, Cl!Gateway \/ Cl!Ask \/ Cl!Die, ~crossed', Cl!Alive' PROVE PictureInv'
  BY DEF PictureInv
<1>0. /\ PictureInv /\ toGateway \in Seq(GatewayFrames) /\ toClient \in Seq(ClientFrames)
      /\ SentBy(toGateway, count.turns) /\ rx \in Nat
  <2>1. rx \in 0..count.turns /\ count.turns \in 0..MaxTurns
    BY DEF CInv, ClientInv
  <2> QED
    BY <2>1, ClientAssumption DEF CInv, ClientInv
<1>1. UNCHANGED <<rx, channel, stream, crossed>>
  BY DEF Cl!Gateway, Cl!Between, Cl!Serve, Cl!GiveUp, Cl!Finish, Cl!Ask, Cl!Die
<1>2. ~crossed /\ Cl!Alive
  BY <1>1 DEF Cl!Gateway, Cl!Between, Cl!Serve, Cl!GiveUp, Cl!Finish, Cl!Ask, Cl!Die, Cl!Alive
<1>3. (EndHeard' <=> EndHeard) /\ (Unsent' <=> Unsent) /\ (rx' = 0 <=> rx = 0)
  BY <1>1 DEF EndHeard, Unsent
<1>4. /\ OneMessage(toGateway, rx)
      /\ ~Messageless(toGateway) => gateway \notin {"turn", "asking"} /\ running # rx
      /\ gateway \in {"turn", "asking"} => running = rx /\ rx # 0
      /\ DoneFirst(toClient, rx)
      /\ ~Doneless(toClient) => Settled /\ rx # 0 /\ ~EndHeard
      /\ rx # 0 /\ ~NoReply(toClient, rx) => Settled
      /\ rx = 0 \/ EndHeard => Settled
      /\ Unsent => Settled /\ running # rx /\ Doneless(toClient) /\ NoReply(toClient, rx) /\ rx # 0
  BY <1>0, <1>2 DEF PictureInv, Unsent
<1>5. ~Settled => Doneless(toClient) /\ NoReply(toClient, rx) /\ rx # 0 /\ ~EndHeard /\ ~Unsent
  BY <1>4
<1> DEFINE
    Takes == toGateway # <<>> /\ toGateway' = Tail(toGateway)
    Writes(f) == toClient' = toClient \o <<f>>
<1>6. ASSUME Takes
      PROVE  /\ IF Cl!Asked.kind = "message" THEN Cl!Asked.from = rx /\ Messageless(toGateway')
                ELSE Cl!Asked.from \in {Cl!Nobody, Cl!Main}
             /\ OneMessage(toGateway', rx)
             /\ Messageless(toGateway) => Messageless(toGateway') /\ Cl!Asked.kind # "message"
  BY <1>0, <1>4, <1>6, Taken DEF Cl!Asked
<1>7. ASSUME NEW kind \in {"ask", "done", "ok", "refused"}, NEW to \in Int, Writes([kind |-> kind, to |-> to])
      PROVE  /\ kind # "done" => (Doneless(toClient') <=> Doneless(toClient)) /\ DoneFirst(toClient', rx)
             /\ kind = "done" /\ ~Settled => DoneFirst(toClient', rx)
             /\ kind \in {"ask", "done"} \/ to # rx => (NoReply(toClient', rx) <=> NoReply(toClient, rx))
  <2> DEFINE f == [kind |-> kind, to |-> to]
  <2>1. f \in ClientFrames /\ f.kind = kind /\ f.to = to /\ toClient' = toClient \o <<f>>
    BY <1>7 DEF ClientFrames
  <2> HIDE DEF f
  <2>2. kind # "done" => (Doneless(toClient') <=> Doneless(toClient)) /\ DoneFirst(toClient', rx)
    BY <1>0, <1>4, <2>1, Written
  <2>3. kind = "done" /\ ~Settled => DoneFirst(toClient', rx)
    BY <1>0, <1>5, <2>1, Written
  <2>4. NoReply(toClient', rx) <=> NoReply(toClient, rx) /\ ~IsReply(f, rx)
    BY <1>0, <2>1, Written
  <2>5. kind \in {"ask", "done"} \/ to # rx => ~IsReply(f, rx)
    BY <2>1 DEF IsReply
  <2> QED
    BY <2>2, <2>3, <2>4, <2>5
<1> HIDE DEF Takes, Writes
<1>8. Cl!Nobody \in Int /\ Cl!Main \in Int /\ Cl!Nobody # rx /\ (rx # 0 => Cl!Main # rx)
  BY <1>0 DEF Cl!Nobody, Cl!Main
<1>9. CASE Cl!Between /\ Cl!Asked.kind = "message"
  <2>1. Takes /\ gateway = "idle" /\ gateway' = "turn" /\ running' = Cl!Asked.from /\ UNCHANGED toClient
    BY <1>9 DEF Cl!Between, Cl!Takes, Takes
  <2>2. running' = rx /\ Messageless(toGateway') /\ OneMessage(toGateway', rx) /\ ~Messageless(toGateway)
    BY <1>6, <1>9, <2>1
  <2>3. Doneless(toClient) /\ NoReply(toClient, rx) /\ rx # 0 /\ ~EndHeard /\ ~Unsent
    BY <1>5, <2>2 DEF Settled
  <2> QED
    BY <1>1, <1>3, <1>4, <2>1, <2>2, <2>3 DEF PictureInv
<1>10. CASE (Cl!Between \/ Cl!Serve) /\ Cl!Asked.kind # "message"
  <2>1. /\ Takes /\ UNCHANGED running
        /\ gateway' \in {"turn", "asking"} <=> gateway \in {"turn", "asking"}
        /\ \/ Writes([kind |-> "ok", to |-> Cl!Asked.from])
           \/ Writes([kind |-> "refused", to |-> Cl!Asked.from])
    BY <1>10 DEF Cl!Between, Cl!Serve, Cl!Takes, Cl!Wrote, Cl!Reply, Cl!core, Takes, Writes
  <2>2. /\ Cl!Asked.from \in Int /\ (rx # 0 => Cl!Asked.from # rx)
    BY <1>6, <1>8, <1>10, <2>1
  <2>3. /\ Doneless(toClient') <=> Doneless(toClient)
        /\ DoneFirst(toClient', rx)
        /\ rx # 0 => (NoReply(toClient', rx) <=> NoReply(toClient, rx))
    BY <1>7, <2>1, <2>2
  <2>4. Settled => Settled'
    BY <1>6, <2>1 DEF Settled
  <2>5. /\ OneMessage(toGateway', rx) /\ (Messageless(toGateway) => Messageless(toGateway'))
    BY <1>6, <2>1
  <2> QED
    BY <1>1, <1>3, <1>4, <2>1, <2>3, <2>4, <2>5 DEF PictureInv
<1>11. CASE Cl!Serve /\ Cl!Asked.kind = "message"
  <2>1. Takes /\ UNCHANGED running /\ Writes([kind |-> "refused", to |-> Cl!Asked.from])
        /\ gateway \in {"turn", "asking", "finishing"} /\ (gateway' = gateway \/ gateway = "asking")
    BY <1>11 DEF Cl!Serve, Cl!Takes, Cl!Wrote, Cl!Reply, Takes, Writes
  <2>2. /\ Cl!Asked.from = rx /\ Messageless(toGateway') /\ OneMessage(toGateway', rx)
        /\ ~Messageless(toGateway)
    BY <1>6, <1>11, <2>1
  <2>3. gateway' = "finishing" /\ Settled'
    BY <1>4, <2>1, <2>2 DEF Settled
  <2>4. ~Settled /\ Doneless(toClient) /\ rx # 0 /\ ~Unsent
    BY <1>5, <2>2 DEF Settled
  <2>5. Doneless(toClient') /\ DoneFirst(toClient', rx)
    BY <1>0, <1>7, <2>1, <2>2, <2>4
  <2> QED
    BY <1>1, <1>3, <2>2, <2>3, <2>4, <2>5 DEF PictureInv
<1>12. CASE Cl!GiveUp
  <2>1. gateway = "asking" /\ gateway' = "turn" /\ UNCHANGED <<running, toGateway, toClient>>
    BY <1>12 DEF Cl!GiveUp
  <2> QED
    BY <1>1, <1>3, <1>4, <1>5, <2>1 DEF PictureInv, Settled
<1>13. CASE Cl!Ask
  <2>1. gateway = "turn" /\ gateway' = "asking" /\ UNCHANGED <<running, toGateway>>
        /\ Writes([kind |-> "ask", to |-> Cl!Nobody])
    BY <1>13 DEF Cl!Ask, Cl!Wrote, Cl!Event, Writes
  <2>2. /\ Doneless(toClient') <=> Doneless(toClient)
        /\ DoneFirst(toClient', rx)
        /\ NoReply(toClient', rx) <=> NoReply(toClient, rx)
    BY <1>7, <1>8, <2>1
  <2> QED
    BY <1>1, <1>3, <1>4, <1>5, <2>1, <2>2 DEF PictureInv, Settled
<1>14. CASE Cl!Finish
  <2>1. CASE gateway = "turn"
    <3>1. /\ running = rx /\ rx # 0 /\ Messageless(toGateway) /\ ~Settled
          /\ Doneless(toClient) /\ ~EndHeard /\ ~Unsent
      BY <1>4, <1>5, <2>1 DEF Settled
    <3>2. /\ gateway' \in {"finishing", "idle"} /\ UNCHANGED toGateway
          /\ Writes([kind |-> "done", to |-> Cl!Nobody]) \/ Writes([kind |-> "refused", to |-> running])
      BY <1>14, <2>1 DEF Cl!Finish, Cl!Wrote, Cl!Event, Cl!Reply, Writes
    <3>3. Settled' /\ Messageless(toGateway')
      BY <3>1, <3>2 DEF Settled
    <3>4. DoneFirst(toClient', rx)
      BY <1>0, <1>7, <1>8, <3>1, <3>2
    <3>5. OneMessage(toGateway', rx)
      BY <1>4, <3>2
    <3> QED
      BY <1>1, <1>3, <3>1, <3>2, <3>3, <3>4, <3>5 DEF PictureInv
  <2>2. CASE gateway = "finishing"
    <3>1. /\ gateway' = "idle" /\ UNCHANGED toGateway /\ running' = 0
          /\ Writes([kind |-> "ok", to |-> running])
      BY <1>14, <2>2 DEF Cl!Finish, Cl!Wrote, Cl!Event, Cl!Reply, Writes
    <3>2. running \in Int
      BY DEF CInv, ClientInv
    <3>3. /\ Doneless(toClient') <=> Doneless(toClient)
          /\ DoneFirst(toClient', rx)
          /\ running # rx => (NoReply(toClient', rx) <=> NoReply(toClient, rx))
      BY <1>7, <3>1, <3>2
    <3>4. Settled' <=> Messageless(toGateway)
      BY <3>1 DEF Settled
    <3>5. Settled <=> Messageless(toGateway)
      BY <2>2 DEF Settled
    <3>6. ~Messageless(toGateway) => rx # 0 /\ running # rx
      BY <1>4, <1>5, <3>5
    <3> QED
      BY <1>1, <1>3, <1>4, <3>1, <3>3, <3>4, <3>5, <3>6 DEF PictureInv
  <2> QED
    BY <1>14, <2>1, <2>2 DEF Cl!Finish
<1>15. ~Cl!Die
  BY DEF Cl!Die, Cl!Alive
<1> QED
  BY <1>9, <1>10, <1>11, <1>12, <1>13, <1>14, <1>15 DEF Cl!Gateway

LEMMA ClientStep == CInv /\ [Cl!Next]_(Cl!vars) => CInv'
<1> SUFFICES ASSUME CInv, [Cl!Next]_(Cl!vars) PROVE CInv'
  OBVIOUS
<1>0. ClientInv /\ QuestionsInv /\ StartInv /\ PictureInv /\ GatewayInv
  BY DEF CInv
<1>1. CASE UNCHANGED Cl!vars
  BY <1>1 DEF Cl!vars, CInv, ClientInv, QuestionsInv, StartInv, PictureInv,
     GatewayInv, Cl!Alive, Settled, EndHeard, Unsent
<1>2. CASE Cl!Next
  <2>1. \/ Cl!Loop \/ Cl!User \/ Cl!SendAnswer
        \/ \E m \in Cl!Messages : Cl!SendMessage(m) \/ Cl!LockStream(m) \/ Cl!ReadStream(m)
        \/ Cl!Gateway \/ Cl!Ask \/ Cl!Die
    BY <1>2 DEF Cl!Next
  <2>2. ClientInv'
    BY <1>0, <2>1, TypesOfLoop, TypesOfStreams, TypesOfGateway
  <2>3. QuestionsInv' /\ StartInv'
    BY <1>0, <1>2, QuestionsStep, StartStep
  <2>4. PictureInv'
    BY <2>1, PictureLoop, PictureUser, PictureStream, PictureGateway
  <2>5. Cl!Loop \/ Cl!User \/ Cl!SendAnswer => UNCHANGED gateway
    BY DEF Cl!Loop, Cl!User, Cl!SendAnswer, Cl!ApplyAsk, Cl!ApplyEnd, Cl!ApplyNothing, Cl!RequestCancel,
           Cl!RequestCall, Cl!RequestNothing, Cl!Poll, Cl!LockMain, Cl!ReadMain, Cl!EnterSend,
           Cl!EnterSteer, Cl!EnterAnswer, Cl!ToggleDialog, Cl!PressCancel, Cl!PressCall,
           Cl!EnterSwitch, Cl!CloseSwitcher, Cl!core
  <2>6. \A m \in Cl!Messages : Cl!SendMessage(m) \/ Cl!LockStream(m) \/ Cl!ReadStream(m) => UNCHANGED gateway
    BY DEF Cl!SendMessage, Cl!LockStream, Cl!ReadStream, Cl!core
  <2>7. Cl!Gateway \/ Cl!Ask \/ Cl!Die => UNCHANGED gateway \/ GatewayInv'
    BY DEF GatewayInv, Cl!Gateway, Cl!Between, Cl!Serve, Cl!GiveUp, Cl!Finish, Cl!Ask, Cl!Die, Cl!core
  <2>8. GatewayInv'
    BY <1>0, <2>1, <2>5, <2>6, <2>7 DEF GatewayInv
  <2> QED
    BY <2>2, <2>3, <2>4, <2>8 DEF CInv
<1> QED
  BY <1>1, <1>2

LEMMA ClientInductive == Cl!Spec => []CInv
BY ClientStarts, ClientStep, PTL DEF Cl!Spec

\* A client that waits for a message has no turn running, however the pipes, the threads and the
\* gateway take turns, unless a response was read by another than it was for.
THEOREM ClientKnowsItsTurn == Cl!Spec => []IdleIsIdle
<1>1. CInv => IdleIsIdle
  <2> SUFFICES ASSUME CInv, rx = 0, ~crossed PROVE gateway \in {"idle", "finishing", "dead"}
    BY DEF IdleIsIdle, Cl!IdleIsIdle
  <2> QED
    BY DEF CInv, PictureInv, GatewayInv, Settled, Cl!Alive
<1> QED
  BY <1>1, ClientInductive, PTL

\* A question is on the screen only while its turn is listened to.
THEOREM QuestionsAreLive == Cl!Spec => []PromptsAreLive
<1>1. CInv => PromptsAreLive
  BY DEF CInv, QuestionsInv, PromptsAreLive, Cl!PromptsAreLive
<1> QED
  BY <1>1, ClientInductive, PTL

-----------------------------------------------------------------------------
(* The keys and the overlays of the terminal client.                       *)

\* The keys of the terminal client and what is drawn over its transcript, of any size.
Question == {q \in [options : Nat, picked : Nat] : q.picked <= q.options}

\* A dialog has a question; who listens has a turn that is shown as one, unless its gateway
\* is gone; and a confirmation to quit is not older than the turn.
ScreenInv ==
    /\ loop \in {"events", "requests", "key"} /\ shownPhase \in {"idle", "streaming", "cancelling"}
    /\ questions \in Seq(Question)
    /\ asking => questions # <<>>
    /\ ~lost => /\ listens => shownPhase # "idle"
                /\ shownPhase = "idle" => questions = <<>>
    /\ DOMAIN quit = {"open", "picked", "midTurn", "lost", "escalate"} /\ Sc!QuitIsTold

\* Enter, when it means something to the turn, comes from a screen without an overlay.
LEMMA EnterIsBare ==
  ASSUME Sc!Press("enter", "loop"), ~sessions
  PROVE  ~help /\ ~sidebar /\ ~quit.open
BY DEF Sc!Press, Sc!Owner

LEMMA NothingOver ==
  ASSUME ~sessions, ~help, ~sidebar, ~quit.open
  PROVE  ~Sc!Covered(1)
<1> SUFFICES ASSUME NEW j \in 2..5, Sc!IsOpen(Sc!Layers[j]) PROVE FALSE
  BY DEF Sc!Covered, Sc!Layers
<1>1. j \in {2, 3, 4, 5}
  OBVIOUS
<1>2. Sc!Layers[j] \in {"sessions", "help", "sidebar", "quit"}
  BY <1>1 DEF Sc!Layers
<1> QED
  BY <1>2 DEF Sc!IsOpen

\* AnswersAreSeen: whatever is open and however the lists come back, the Enter that answers a
\* question comes from a screen with nothing drawn over it (tui.rs, app.rs).
THEOREM AnswersComeFromTheScreen == Sc!Spec => AnswersAreSeen
<1>1. Sc!TakeAnswer => ~Sc!Covered(1)
  BY EnterIsBare, NothingOver DEF Sc!TakeAnswer
<1> QED
  BY <1>1, PTL DEF Sc!Spec, AnswersAreSeen, Sc!AnswersAreSeen

\* A confirmation says whether a turn runs; a turn that is cancelled has no questions.
LEMMA QuitAsked ==
  ASSUME ScreenInv, Sc!RequestQuit, loop' = "events",
         UNCHANGED <<shownPhase, listens, questions, asking, lost>>
  PROVE  ScreenInv'
<1> USE DEF ScreenInv, Sc!QuitIsTold, Sc!Turn
<1>1. CASE sentAny /\ ~asking
  <2>1. quit' = [open |-> TRUE, picked |-> FALSE, midTurn |-> Sc!Turn # "idle",
                 lost |-> Sc!Turn # "idle" /\ Stdio, escalate |-> FALSE]
    BY <1>1 DEF Sc!RequestQuit
  <2>2. quit'.midTurn = (Sc!Turn # "idle") /\ Sc!Turn' = Sc!Turn
    BY <2>1
  <2>3. DOMAIN quit' = {"open", "picked", "midTurn", "lost", "escalate"}
    BY <2>1
  <2> QED
    BY <2>2, <2>3
<1>2. CASE ~(sentAny /\ ~asking)
  BY <1>2 DEF Sc!RequestQuit
<1> QED
  BY <1>1, <1>2

LEMMA TurnCancelled ==
  ASSUME ScreenInv, Sc!Cancel, loop' = "events", UNCHANGED <<listens, quit, lost>>
  PROVE  ScreenInv'
<1> USE DEF ScreenInv, Sc!QuitIsTold, Sc!Turn
<1>1. CASE shownPhase = "streaming"
  BY <1>1 DEF Sc!Cancel
<1>2. CASE shownPhase # "streaming"
  BY <1>2 DEF Sc!Cancel
<1> QED
  BY <1>1, <1>2

\* Where a step leaves the questions and the turn.
LEMMA ScreenStep ==
  ASSUME ScreenInv, [Sc!Next]_(Sc!vars)
  PROVE  ScreenInv'
<1> USE DEF ScreenInv, Sc!QuitIsTold, Sc!Turn
<1>1. ASSUME NEW n \in 0..MaxOptions, NEW default \in 0..n, Sc!Ask(n, default) PROVE ScreenInv'
  <2>1. [options |-> n, picked |-> default] \in Question
    BY DEF Question
  <2>2. questions' \in Seq(Question) /\ questions' # <<>>
    BY <1>1, <2>1 DEF Sc!Ask
  <2>3. UNCHANGED <<loop, shownPhase, listens, quit, lost>> /\ listens
    BY <1>1 DEF Sc!Ask, Sc!over
  <2> QED
    BY <2>2, <2>3
<1>2. ASSUME NEW failed \in BOOLEAN, Sc!EndTurn(failed) PROVE ScreenInv'
  BY <1>2 DEF Sc!EndTurn, Sc!over
<1>3. CASE Sc!NoMoreEvents \/ Sc!Drain
  BY <1>3 DEF Sc!NoMoreEvents, Sc!Drain, Sc!over, Sc!turn, Sc!rest
<1>4. CASE Sc!Disconnect
  BY <1>4 DEF Sc!Disconnect, Sc!over
<1>5. ASSUME NEW key \in Sc!KeyNames, Sc!PickOption(key) PROVE ScreenInv'
  <2> DEFINE f == Head(questions)
             first == IF f.picked = 0 THEN 1 ELSE f.picked
             to == CASE key = "up" -> {((first + f.options - 2) % f.options) + 1}
                     [] key = "down" -> {(first % f.options) + 1}
                     [] key = "digit" -> {f.picked} \cup 1..f.options
                     [] OTHER -> {f.picked}
  <2>1. key # "esc" /\ asking /\ Sc!ListMode /\ loop' = "events" /\ UNCHANGED <<shownPhase, listens, asking, quit, lost>>
    BY <1>5 DEF Sc!PickOption, Sc!Press, Sc!Owner, Sc!OwnerBelow, Sc!over, Sc!rest
  <2>2. PICK i \in to : questions' = <<[f EXCEPT !.picked = i]>> \o Tail(questions)
    BY <1>5 DEF Sc!PickOption
  <2>3. f \in Question /\ f.options # 0 /\ Tail(questions) \in Seq(Question) /\ questions # <<>>
    BY <2>1 DEF Sc!ListMode
  <2>4. first \in Nat /\ first >= 1 /\ f.options \in Nat \ {0} /\ f.picked \in 0..f.options
    BY <2>3 DEF Question
  <2>5. i \in 0..f.options
    <3>1. /\ (first + f.options - 2) % f.options \in 0..(f.options - 1)
          /\ first % f.options \in 0..(f.options - 1)
      <4> HIDE DEF first, f
      <4> QED
        BY <2>4
    <3> HIDE DEF first, f
    <3> QED
      BY <2>2, <2>4, <3>1
  <2>6. [f EXCEPT !.picked = i] \in Question
    <3> HIDE DEF f, first, to, ScreenInv, Sc!QuitIsTold
    <3>1. f = [options |-> f.options, picked |-> f.picked] /\ f.options \in Nat
      BY <2>3 DEF Question
    <3>2. [f EXCEPT !.picked = i] = [options |-> f.options, picked |-> i]
      BY <3>1
    <3>3. i \in Nat /\ i <= f.options
      BY <2>5, <3>1
    <3> QED
      BY <3>1, <3>2, <3>3 DEF Question
  <2> DEFINE one == <<[f EXCEPT !.picked = i]>>
  <2>7. one \in Seq(Question) /\ one # <<>>
    BY <2>6
  <2> HIDE DEF one, f, to
  <2>8. questions' \in Seq(Question) /\ questions' # <<>>
    <3>1. questions' = one \o Tail(questions)
      BY <2>2 DEF one
    <3>2. Len(one) = 1
      BY DEF one
    <3> QED
      BY <2>3, <2>7, <3>1, <3>2, ConcatProperties
  <2> QED
    BY <2>1, <2>3, <2>8
<1>6. ASSUME NEW key \in Sc!KeyNames, Sc!QuitKeys(key) PROVE ScreenInv'
  <2>1. UNCHANGED <<shownPhase, listens, questions, asking, lost>> /\ loop' = "events" /\ quit.open
    BY <1>6 DEF Sc!QuitKeys, Sc!turn, Sc!Press, Sc!Owner, Sc!OwnerBelow
  <2>2. quit' \in {quit, Sc!NoQuit, [quit EXCEPT !.picked = ~@], [quit EXCEPT !.escalate = TRUE]}
    BY <1>6 DEF Sc!QuitKeys
  <2>3. /\ DOMAIN quit' = {"open", "picked", "midTurn", "lost", "escalate"}
        /\ quit'.open => quit'.midTurn = quit.midTurn
    BY <2>2 DEF Sc!NoQuit
  <2> QED
    BY <2>1, <2>3
<1>7. ASSUME NEW key \in Sc!KeyNames, Sc!SessionsKeys(key) \/ Sc!HelpKeys(key) \/ Sc!SidebarKeys(key) \/ Sc!Edit(key) \/ Sc!MenuKeys(key)
      PROVE  ScreenInv'
  BY <1>7 DEF Sc!SessionsKeys, Sc!HelpKeys, Sc!SidebarKeys, Sc!Edit, Sc!MenuKeys, Sc!Press, Sc!turn, Sc!rest, Sc!over
<1>8. ASSUME NEW key \in Sc!KeyNames, Sc!LoopKeys(key) PROVE ScreenInv'
  <2>1. loop' = "events" /\ UNCHANGED <<listens, lost>>
    BY <1>8 DEF Sc!LoopKeys, Sc!Press
  <2>2. \/ Sc!RequestQuit /\ UNCHANGED <<shownPhase, questions, asking>>
        \/ Sc!Cancel /\ UNCHANGED quit
        \/ UNCHANGED <<shownPhase, questions, asking, quit>>
    BY <1>8 DEF Sc!LoopKeys
  <2> QED
    BY <2>1, <2>2, QuitAsked, TurnCancelled
<1>9. ASSUME NEW key \in Sc!KeyNames, NEW command \in Sc!BuiltIns \cup {"invoke"}, Sc!MenuAccept(key, command) PROVE ScreenInv'
  <2>1. loop' = "events" /\ UNCHANGED <<listens, lost>>
    BY <1>9 DEF Sc!MenuAccept, Sc!Press
  <2>2. \/ Sc!RequestQuit /\ UNCHANGED <<shownPhase, questions, asking>>
        \/ Sc!Cancel /\ UNCHANGED quit
        \/ UNCHANGED <<shownPhase, questions, asking, quit>>
    BY <1>9 DEF Sc!MenuAccept, Sc!over
  <2> QED
    BY <2>1, <2>2, QuitAsked, TurnCancelled
<1>10. CASE Sc!CloseDialog \/ Sc!ReopenDialog
  BY <1>10 DEF Sc!CloseDialog, Sc!ReopenDialog, Sc!Press, Sc!EnterMeans, Sc!over, Sc!rest
<1>11. CASE Sc!TakeAnswer
  <2>1. UNCHANGED <<shownPhase, listens, quit, lost>> /\ loop' = "events" /\ questions # <<>>
    BY <1>11 DEF Sc!TakeAnswer, Sc!Press, Sc!EnterMeans, Sc!over, Sc!rest
  <2>2. CASE UNCHANGED <<questions, asking>>
    BY <2>1, <2>2
  <2>3. CASE Sc!TakeFront
    <3>1. questions' = Tail(questions) /\ asking' = (Len(questions) > 1)
      BY <2>3 DEF Sc!TakeFront
    <3>2. questions' \in Seq(Question) /\ Len(questions') = Len(questions) - 1
      BY <2>1, <3>1
    <3>3. Len(questions) > 1 => Len(questions') # 0
      BY <3>2
    <3>4. asking' => questions' # <<>>
      BY <3>1, <3>3
    <3> QED
      BY <2>1, <3>1, <3>2, <3>4
  <2> QED
    BY <1>11, <2>2, <2>3 DEF Sc!TakeAnswer
<1>12. CASE Sc!OpenHelp \/ Sc!OpenSidebar \/ Sc!SwitchSession
  BY <1>12 DEF Sc!OpenHelp, Sc!OpenSidebar, Sc!SwitchSession, Sc!Press, Sc!turn, Sc!rest
<1>13. CASE Sc!Submit
  <2>1. ~quit.open /\ quit' = quit
    BY <1>13, EnterIsBare DEF Sc!Submit, Sc!over
  <2> QED
    BY <1>13, <2>1 DEF Sc!Submit, Sc!Press
<1>14. CASE UNCHANGED Sc!vars
  BY <1>14 DEF Sc!vars
<1> QED
  BY <1>1, <1>2, <1>3, <1>4, <1>5, <1>6, <1>7, <1>8, <1>9, <1>10, <1>11, <1>12, <1>13, <1>14 DEF Sc!Next

LEMMA ScreenBegins == Sc!Init => ScreenInv
BY DEF Sc!Init, Sc!NoQuit, ScreenInv, Sc!QuitIsTold

\* QuitIsTold: who confirms to quit while a turn runs was told that one does: a confirmation
\* is not older than the turn, whatever the gateway does meanwhile (app.rs's request_quit).
THEOREM QuittersAreTold == Sc!Spec => []QuitIsTold
<1>1. ScreenInv => QuitIsTold
  BY DEF ScreenInv, QuitIsTold
<1> QED
  BY <1>1, ScreenBegins, ScreenStep, PTL DEF Sc!Spec

\* HintsAreTrue: with nothing but a question drawn over the transcript Enter, Esc and Ctrl+C
\* do what the status bar says of them (keymap.rs), in every state the client comes to.
THEOREM StatusBarIsTrue == Sc!Spec => []HintsAreTrue
<1>1. ScreenInv => HintsAreTrue
  <2> SUFFICES ASSUME ScreenInv, loop = "key", ~lost, ~Sc!Covered(1), draft # "command",
                      NEW key \in DOMAIN Sc!Said
               PROVE  Sc!Does(key) = Sc!Said[key]
    BY DEF HintsAreTrue, Sc!HintsAreTrue
  <2>1. ~sessions /\ ~help /\ ~sidebar /\ ~quit.open
    <3>1. \A j \in {2, 3, 4, 5} : ~Sc!IsOpen(Sc!Layers[j])
      BY DEF Sc!Covered, Sc!Layers
    <3>2. Sc!Layers[2] = "sessions" /\ Sc!Layers[3] = "help" /\ Sc!Layers[4] = "sidebar" /\ Sc!Layers[5] = "quit"
      BY DEF Sc!Layers
    <3> QED
      BY <3>1, <3>2 DEF Sc!IsOpen
  <2>2. shownPhase \in {"idle", "streaming", "cancelling"} /\ (asking => questions # <<>>)
    BY DEF ScreenInv
  <2>3. /\ Sc!Owner("enter") = "loop" /\ Sc!Owner("ctrl-c") = (IF asking /\ Sc!ListMode THEN "dialog" ELSE "loop")
        /\ Sc!Owner("esc") = (IF asking THEN "dialog" ELSE "loop")
    BY <2>1 DEF Sc!Owner, Sc!OwnerBelow, Sc!IsEnter
  <2> QED
    BY <2>2, <2>3 DEF Sc!Said, Sc!Context, Sc!Does, Sc!EnterMeans, Sc!Turn
<1> QED
  BY <1>1, ScreenBegins, ScreenStep, PTL DEF Sc!Spec

\* FrontsAreFresh: the question that comes to the front is the next one as it came: no key
\* pressed for another has picked for it (app.rs's take_answer and prompt_move).
THEOREM NextQuestionsAreFresh == Sc!Spec => FrontsAreFresh
<1> DEFINE Fresh == Len(questions') < Len(questions) /\ questions' # <<>> => questions' = Tail(questions)
<1>1. ScreenInv /\ [Sc!Next]_(Sc!vars) => [Fresh]_questions
  <2> SUFFICES ASSUME ScreenInv, Sc!Next, questions' # questions PROVE Fresh
    BY DEF Sc!vars
  <2> USE DEF ScreenInv
  <2>1. ASSUME NEW n \in 0..MaxOptions, NEW default \in 0..n, Sc!Ask(n, default) PROVE Fresh
    <3>1. [options |-> n, picked |-> default] \in Question
      BY DEF Question
    <3>2. Len(questions') = Len(questions) + 1
      BY <2>1, <3>1 DEF Sc!Ask
    <3> QED
      BY <3>2
  <2>2. ASSUME NEW key \in Sc!KeyNames, Sc!PickOption(key) PROVE Fresh
    <3>1. PICK i : questions' = <<[Head(questions) EXCEPT !.picked = i]>> \o Tail(questions)
      BY <2>2 DEF Sc!PickOption
    <3> DEFINE one == <<[Head(questions) EXCEPT !.picked = i]>>
    <3>2. one \in Seq({one[1]}) /\ Len(one) = 1
      OBVIOUS
    <3>3. questions # <<>>
      BY <2>2 DEF Sc!PickOption, Sc!Press, Sc!Owner, Sc!OwnerBelow
    <3>4. Tail(questions) \in Seq(Question) /\ Len(Tail(questions)) = Len(questions) - 1
      BY <3>3
    <3> HIDE DEF one
    <3>5. one \in Seq({one[1]} \cup Question) /\ Tail(questions) \in Seq({one[1]} \cup Question)
      BY <3>2, <3>4
    <3>6. Len(one \o Tail(questions)) = 1 + (Len(questions) - 1)
      BY <3>2, <3>4, <3>5, ConcatProperties
    <3>7. questions' = one \o Tail(questions)
      BY <3>1 DEF one
    <3> QED
      BY <3>6, <3>7
  <2>3. CASE Sc!TakeAnswer
    BY <2>3 DEF Sc!TakeAnswer, Sc!TakeFront
  <2>4. ASSUME questions' = <<>> PROVE Fresh
    BY <2>4
  <2>5. (\E failed \in BOOLEAN : Sc!EndTurn(failed)) \/ Sc!Disconnect => questions' = <<>>
    BY DEF Sc!EndTurn, Sc!Disconnect
  <2>6. ASSUME NEW key \in Sc!KeyNames, Sc!LoopKeys(key) \/ \E command \in Sc!BuiltIns \cup {"invoke"} : Sc!MenuAccept(key, command)
        PROVE  questions' = <<>>
    BY <2>6 DEF Sc!LoopKeys, Sc!MenuAccept, Sc!Cancel
  <2>7. ~(Sc!NoMoreEvents \/ Sc!Drain)
    BY DEF Sc!NoMoreEvents, Sc!Drain, Sc!turn
  <2>8. ASSUME NEW key \in Sc!KeyNames
        PROVE  ~(Sc!QuitKeys(key) \/ Sc!SessionsKeys(key) \/ Sc!HelpKeys(key) \/ Sc!SidebarKeys(key) \/ Sc!Edit(key) \/ Sc!MenuKeys(key))
    BY DEF Sc!QuitKeys, Sc!SessionsKeys, Sc!HelpKeys, Sc!SidebarKeys, Sc!Edit, Sc!MenuKeys, Sc!turn
  <2>9. ~(Sc!CloseDialog \/ Sc!ReopenDialog \/ Sc!OpenHelp \/ Sc!OpenSidebar \/ Sc!SwitchSession \/ Sc!Submit)
    BY DEF Sc!CloseDialog, Sc!ReopenDialog, Sc!OpenHelp, Sc!OpenSidebar, Sc!SwitchSession, Sc!Submit, Sc!turn
  <2> HIDE DEF Fresh
  <2> QED
    BY <2>1, <2>2, <2>3, <2>4, <2>5, <2>6, <2>7, <2>8, <2>9, Zenon DEF Sc!Next
<1> HIDE DEF Fresh
<1>2. ScreenInv /\ [Sc!Next]_(Sc!vars) => ScreenInv'
  BY ScreenStep
<1>3. Sc!Spec => [][Fresh]_questions
  BY <1>1, <1>2, ScreenBegins, PTL DEF Sc!Spec
<1> QED
  BY <1>3 DEF Fresh, FrontsAreFresh, Sc!FrontsAreFresh

-----------------------------------------------------------------------------
(* What the terminal client shows of a conversation.                       *)

\* What the terminal client shows of a conversation, however long.
Entry == [kind : {"you", "klod", "note", "tool"}, id : Ids \cup {"none", "stored"},
          status : Tr!Statuses, open : BOOLEAN, rows : Nat]

\* The entries are entries, nothing is running that is not listened to, and the cursor
\* is on a call.
TranscriptInv ==
    /\ entries \in Seq(Entry) /\ cursor \in Nat
    /\ Tr!NothingRunsWhenIdle /\ Tr!CursorOnTool

\* Of a set of places there is a first and a last.
LEMMA FirstAndLast ==
  ASSUME NEW n \in Nat, NEW I \in SUBSET (1 .. n), I # {}
  PROVE  Tr!Min(I) \in I /\ Tr!Max(I) \in I
<1> DEFINE Less == {ss \in Nat \X Nat : ss[1] < ss[2]}
<1>1. IsWellFoundedOn(Less, Nat)
  BY NatLessThanWellFounded, Zenon DEF OpToRel
<1> HIDE DEF Less
<1>2. ASSUME NEW J \in SUBSET Nat, J # {} PROVE \E m \in J : \A y \in J : m <= y
  <2>1. PICK m \in J : \A y \in J : ~ (<<y, m>> \in Less)
    BY <1>1, <1>2, WFMin
  <2>2. ASSUME NEW y \in J, ~(m <= y) PROVE FALSE
    <3>1. y \in Nat /\ m \in Nat /\ y < m
      BY <2>2
    <3>2. <<y, m>> \in Less
      BY <3>1 DEF Less
    <3> QED
      BY <2>1, <3>2
  <2> QED
    BY <2>2
<1>3. \E x \in I : \A y \in I : x <= y
  BY <1>2
<1>4. \E x \in I : \A y \in I : x >= y
  <2> DEFINE J == {j \in Nat : n - j \in I}
  <2>1. J # {}
    <3>1. PICK i \in I : TRUE
      OBVIOUS
    <3>2. n - i \in Nat /\ n - (n - i) = i
      OBVIOUS
    <3> QED
      BY <3>2
  <2>2. PICK m \in J : \A y \in J : m <= y
    <3> HIDE DEF J
    <3>1. J \subseteq Nat
      BY DEF J
    <3> QED
      BY <1>2, <2>1, <3>1
  <2>3. ASSUME NEW y \in I PROVE n - m >= y
    <3>1. n - y \in Nat /\ n - (n - y) = y
      OBVIOUS
    <3>2. m <= n - y
      BY <2>2, <3>1
    <3> QED
      BY <2>2, <3>2
  <2> QED
    BY <2>2, <2>3
<1> QED
  BY <1>3, <1>4 DEF Tr!Min, Tr!Max

LEMMA MoreRows ==
  ASSUME NEW a \in Nat, NEW b \in Nat
  PROVE  Tr!Max({a, b}) \in Nat
<1> DEFINE g == IF a >= b THEN a ELSE b
<1>1. g \in {a, b} /\ \A y \in {a, b} : g >= y
  OBVIOUS
<1>2. \A x \in {a, b} : (\A y \in {a, b} : x >= y) => x = g
  OBVIOUS
<1> HIDE DEF g
<1>3. Tr!Max({a, b}) = g
  BY <1>1, <1>2 DEF Tr!Max
<1> QED
  BY <1>1, <1>3

\* Calls that are cut short are as they were otherwise, and the rest is as it was.
LEMMA CutShort ==
  ASSUME NEW e \in Seq(Entry)
  PROVE  /\ Tr!Interrupted(e) \in Seq(Entry) /\ Len(Tr!Interrupted(e)) = Len(e)
         /\ \A i \in 1 .. Len(e) : /\ Tr!Interrupted(e)[i].kind = e[i].kind
                                   /\ ~Tr!Running(Tr!Interrupted(e)[i])
                                   /\ ~Tr!Running(e[i]) => Tr!Interrupted(e)[i] = e[i]
<1> DEFINE f == Tr!Interrupted(e)
<1>1. f = [i \in 1 .. Len(e) |-> IF Tr!Running(e[i]) THEN [e[i] EXCEPT !.status = "interrupted"] ELSE e[i]]
  BY DEF Tr!Interrupted
<1>2. ASSUME NEW i \in 1 .. Len(e)
      PROVE  /\ f[i] \in Entry /\ f[i].kind = e[i].kind
             /\ ~Tr!Running(f[i])
             /\ ~Tr!Running(e[i]) => f[i] = e[i]
  <2>1. e[i] \in Entry
    OBVIOUS
  <2>2. f[i] = IF Tr!Running(e[i]) THEN [e[i] EXCEPT !.status = "interrupted"] ELSE e[i]
    BY <1>1
  <2> HIDE DEF f
  <2> QED
    BY <2>1, <2>2 DEF Entry, Tr!Statuses, Tr!Running
<1> HIDE DEF f
<1>3. f \in [1 .. Len(e) -> Entry]
  BY <1>1, <1>2
<1>4. f \in Seq(Entry) /\ Len(f) = Len(e)
  BY <1>3
<1> QED
  BY <1>2, <1>4 DEF f

\* What a step leaves of an entry.
Keeps(i) ==
    /\ i \in DOMAIN entries' /\ entries'[i].kind = entries[i].kind
    /\ (i < Len(entries) \/ ~hears) /\ ~Tr!Running(entries[i]) =>
         entries'[i].status = entries[i].status /\ entries'[i].rows = entries[i].rows

\* A step that keeps the calls it finds, and the cursor.
LEMMA CursorStays ==
  ASSUME TranscriptInv, \A i \in DOMAIN entries : Keeps(i), cursor' = cursor
  PROVE  Tr!CursorOnTool'
BY DEF TranscriptInv, Tr!CursorOnTool, Tr!Stops, Keeps

LEMMA Added ==
  ASSUME NEW e \in Seq(Entry), NEW x \in Entry
  PROVE  /\ Append(e, x) \in Seq(Entry) /\ Len(Append(e, x)) = Len(e) + 1
         /\ \A i \in 1 .. Len(e) : Append(e, x)[i] = e[i]
         /\ Append(e, x)[Len(e) + 1] = x
OBVIOUS

LEMMA Replaced ==
  ASSUME NEW e \in Seq(Entry), NEW n \in 1 .. Len(e), NEW x \in Entry
  PROVE  /\ [e EXCEPT ![n] = x] \in Seq(Entry) /\ Len([e EXCEPT ![n] = x]) = Len(e)
         /\ [e EXCEPT ![n] = x][n] = x
         /\ \A i \in 1 .. Len(e) : i # n => [e EXCEPT ![n] = x][i] = e[i]
OBVIOUS

LEMMA Messages ==
  ASSUME NEW n \in Nat
  PROVE  \A who \in {"you", "klod", "note"} : Tr!Message(who, n) \in Entry /\ ~Tr!Running(Tr!Message(who, n))
BY DEF Tr!Message, Entry, Tr!Statuses, Tr!Running

\* An entry is added, to the entries as they are or with those cut short that ran.
LEMMA AddedStep ==
  ASSUME TranscriptInv, NEW x \in Entry, cursor' = cursor,
         \/ entries' = Append(entries, x) /\ (hears' \/ (~Tr!Running(x) /\ hears' = hears))
         \/ entries' = Append(Tr!Interrupted(entries), x) /\ ~Tr!Running(x)
  PROVE  TranscriptInv' /\ \A i \in DOMAIN entries : Keeps(i)
<1> DEFINE e == entries
           c == Tr!Interrupted(entries)
<1>1. e \in Seq(Entry) /\ Len(e) \in Nat /\ DOMAIN e = 1 .. Len(e) /\ cursor \in Nat
  BY DEF TranscriptInv
<1>2. /\ c \in Seq(Entry) /\ Len(c) = Len(e)
      /\ \A i \in 1 .. Len(e) : /\ c[i].kind = e[i].kind /\ ~Tr!Running(c[i])
                                /\ ~Tr!Running(e[i]) => c[i] = e[i]
  BY <1>1, CutShort
<1>3. CASE entries' = Append(entries, x) /\ (hears' \/ (~Tr!Running(x) /\ hears' = hears))
  <2>1. /\ entries' \in Seq(Entry) /\ Len(entries') = Len(e) + 1
        /\ \A i \in 1 .. Len(e) : entries'[i] = e[i]
        /\ entries'[Len(e) + 1] = x
    BY <1>1, <1>3, Added
  <2> HIDE DEF e, c
  <2>2. DOMAIN entries' = 1 .. Len(e) + 1
    BY <1>1, <2>1
  <2>3. \A i \in DOMAIN entries : Keeps(i)
    BY <1>1, <2>1, <2>2 DEF Keeps, e
  <2>4. Tr!NothingRunsWhenIdle'
    BY <1>1, <1>3, <2>1, <2>2 DEF TranscriptInv, Tr!NothingRunsWhenIdle, Tr!Running, e
  <2> QED
    BY <1>1, <2>1, <2>3, <2>4, CursorStays DEF TranscriptInv
<1>4. CASE entries' = Append(c, x) /\ ~Tr!Running(x)
  <2>1. /\ entries' \in Seq(Entry) /\ Len(entries') = Len(c) + 1
        /\ \A i \in 1 .. Len(c) : entries'[i] = c[i]
        /\ entries'[Len(c) + 1] = x
    BY <1>2, <1>4, Added
  <2> HIDE DEF e, c
  <2>2. DOMAIN entries' = 1 .. Len(e) + 1
    BY <1>1, <1>2, <2>1
  <2>3. \A i \in DOMAIN entries : Keeps(i)
    BY <1>1, <1>2, <2>1, <2>2 DEF Keeps, e
  <2>4. Tr!NothingRunsWhenIdle'
    <3> SUFFICES ASSUME NEW i \in 1 .. Len(e) + 1 PROVE ~Tr!Running(entries'[i])
      BY <2>2 DEF Tr!NothingRunsWhenIdle, Tr!Running
    <3>1. CASE i \in 1 .. Len(e)
      BY <1>2, <2>1, <3>1
    <3>2. CASE i = Len(e) + 1
      BY <1>2, <1>4, <2>1, <3>2
    <3> QED
      BY <1>1, <3>1, <3>2
  <2> QED
    BY <1>1, <2>1, <2>3, <2>4, CursorStays DEF TranscriptInv
<1> QED
  BY <1>3, <1>4

\* The entries as they are, or with those cut short that ran.
LEMMA CutStep ==
  ASSUME TranscriptInv, cursor' = cursor,
         (entries' = entries /\ hears' = hears) \/ entries' = Tr!Interrupted(entries)
  PROVE  TranscriptInv' /\ \A i \in DOMAIN entries : Keeps(i)
<1> DEFINE e == entries
           c == Tr!Interrupted(entries)
<1>1. e \in Seq(Entry) /\ Len(e) \in Nat /\ DOMAIN e = 1 .. Len(e) /\ cursor \in Nat
  BY DEF TranscriptInv
<1>2. /\ c \in Seq(Entry) /\ Len(c) = Len(e)
      /\ \A i \in 1 .. Len(e) : /\ c[i].kind = e[i].kind /\ ~Tr!Running(c[i])
                                /\ ~Tr!Running(e[i]) => c[i] = e[i]
  BY <1>1, CutShort
<1>3. CASE entries' = entries /\ hears' = hears
  BY <1>1, <1>3 DEF TranscriptInv, Keeps, Tr!NothingRunsWhenIdle, Tr!CursorOnTool, Tr!Stops, Tr!Running
<1>4. CASE entries' = c
  <2> HIDE DEF e, c
  <2>1. DOMAIN entries' = 1 .. Len(e)
    BY <1>1, <1>2, <1>4
  <2>2. \A i \in DOMAIN entries : Keeps(i)
    BY <1>1, <1>2, <1>4, <2>1 DEF Keeps, e
  <2>3. Tr!NothingRunsWhenIdle'
    BY <1>2, <1>4, <2>1 DEF Tr!NothingRunsWhenIdle, Tr!Running
  <2> QED
    BY <1>1, <1>2, <1>4, <2>2, <2>3, CursorStays DEF TranscriptInv
<1> QED
  BY <1>3, <1>4

\* One entry is another one of its kind: the last, or one that ran, or one that looks the same.
LEMMA OneStep ==
  ASSUME TranscriptInv, cursor' = cursor, NEW n \in DOMAIN entries, NEW x \in Entry,
         entries' = [entries EXCEPT ![n] = x], hears' = hears, x.kind = entries[n].kind,
         \/ n = Len(entries) /\ hears
         \/ Tr!Running(entries[n]) /\ hears
         \/ x.status = entries[n].status /\ x.rows = entries[n].rows
  PROVE  TranscriptInv' /\ \A i \in DOMAIN entries : Keeps(i)
<1>1. entries \in Seq(Entry) /\ Len(entries) \in Nat /\ DOMAIN entries = 1 .. Len(entries) /\ cursor \in Nat
  BY DEF TranscriptInv
<1>2. /\ entries' \in Seq(Entry) /\ DOMAIN entries' = DOMAIN entries
      /\ entries'[n] = x /\ \A i \in DOMAIN entries : i # n => entries'[i] = entries[i]
  BY <1>1
<1>3. \A i \in DOMAIN entries : Keeps(i)
  BY <1>1, <1>2 DEF Keeps
<1>4. Tr!NothingRunsWhenIdle'
  BY <1>1, <1>2 DEF TranscriptInv, Tr!NothingRunsWhenIdle, Tr!Running
<1> QED
  BY <1>1, <1>2, <1>3, <1>4, CursorStays DEF TranscriptInv

\* What the events of a turn do.
LEMMA EventStep ==
  ASSUME TranscriptInv,
         \/ Tr!Delta \/ Tr!Done \/ Tr!Ends
         \/ \E id \in Ids : Tr!Invoked(id) \/ \E failed \in BOOLEAN : Tr!Result(id, failed)
  PROVE  TranscriptInv' /\ \A i \in DOMAIN entries : Keeps(i)
<1> USE TextAssumption
<1>1. /\ entries \in Seq(Entry) /\ Len(entries) \in Nat /\ DOMAIN entries = 1 .. Len(entries)
      /\ \A i \in DOMAIN entries : entries[i] \in Entry
  BY DEF TranscriptInv
<1>2. hears /\ cursor' = cursor
  BY DEF Tr!Delta, Tr!Done, Tr!Ends, Tr!Invoked, Tr!Result, Tr!Applies, Tr!Aside, Tr!Over, Tr!shown
<1>3. CASE Tr!Delta
  <2>1. hears' = hears
    BY <1>3 DEF Tr!Delta, Tr!Aside
  <2>2. ASSUME NEW rows \in RowsOf, Tr!Adds(Tr!Message("klod", rows)) PROVE TranscriptInv' /\ \A i \in DOMAIN entries : Keeps(i)
    <3>1. Tr!Message("klod", rows) \in Entry /\ ~Tr!Running(Tr!Message("klod", rows))
      BY Messages
    <3> QED
      BY <1>2, <2>1, <2>2, <3>1, AddedStep DEF Tr!Adds
  <2>3. ASSUME entries # <<>>, NEW rows \in RowsOf,
               entries' = [entries EXCEPT ![Len(entries)].rows = Tr!Max({@, rows})]
        PROVE  TranscriptInv' /\ \A i \in DOMAIN entries : Keeps(i)
    <3> DEFINE n == Len(entries)
               x == [entries[n] EXCEPT !.rows = Tr!Max({@, rows})]
    <3>1. n \in DOMAIN entries
      BY <1>1, <2>3
    <3>2. Tr!Max({entries[n].rows, rows}) \in Nat
      BY <1>1, <3>1, MoreRows DEF Entry
    <3>3. x \in Entry /\ x.kind = entries[n].kind
      BY <1>1, <3>1, <3>2 DEF Entry
    <3>4. entries' = [entries EXCEPT ![n] = x]
      BY <2>3
    <3> HIDE DEF x
    <3> QED
      BY <1>2, <2>1, <3>1, <3>3, <3>4, OneStep
  <2> QED
    BY <1>3, <2>2, <2>3 DEF Tr!Delta
<1>4. CASE Tr!Done
  <2> DEFINE left == Tr!Interrupted(entries)
  <2>1. /\ left \in Seq(Entry) /\ Len(left) = Len(entries)
        /\ \A i \in 1 .. Len(entries) : /\ left[i].kind = entries[i].kind /\ ~Tr!Running(left[i])
                                        /\ ~Tr!Running(entries[i]) => left[i] = entries[i]
    BY <1>1, CutShort
  <2>2. PICK rows \in RowsOf :
          \/ left # <<>> /\ entries' = [left EXCEPT ![Len(left)].rows = rows]
          \/ entries' = Append(left, Tr!Message("klod", rows))
    BY <1>4 DEF Tr!Done
  <2>3. CASE entries' = Append(left, Tr!Message("klod", rows))
    <3>1. Tr!Message("klod", rows) \in Entry /\ ~Tr!Running(Tr!Message("klod", rows))
      BY Messages
    <3> QED
      BY <1>2, <2>3, <3>1, AddedStep
  <2>4. CASE left # <<>> /\ entries' = [left EXCEPT ![Len(left)].rows = rows]
    <3> DEFINE n == Len(entries)
               x == [left[n] EXCEPT !.rows = rows]
    <3> HIDE DEF left
    <3>1. n \in 1 .. n /\ left[n] \in Entry
      BY <1>1, <2>1, <2>4
    <3>2. x \in Entry /\ x.kind = entries[n].kind /\ ~Tr!Running(x)
      BY <2>1, <3>1 DEF Entry, Tr!Running
    <3>3. entries' = [left EXCEPT ![n] = x]
      BY <2>1, <2>4
    <3> HIDE DEF x
    <3>4. /\ entries' \in Seq(Entry) /\ Len(entries') = Len(left)
          /\ entries'[n] = x /\ \A i \in 1 .. Len(left) : i # n => entries'[i] = left[i]
      <4>1. n \in 1 .. Len(left)
        BY <1>1, <2>1, <3>1
      <4> HIDE DEF n
      <4> QED
        BY <2>1, <3>2, <3>3, <4>1, Replaced
    <3>8. DOMAIN entries' = 1 .. Len(entries')
      BY <3>4
    <3>7. DOMAIN entries' = 1 .. n /\ DOMAIN entries = 1 .. n /\ n = Len(entries) /\ n \in Nat
      BY <1>1, <2>1, <3>4, <3>8
    <3> HIDE DEF n
    <3>5. ASSUME NEW i \in DOMAIN entries PROVE Keeps(i)
      <4>1. i \in 1 .. n
        BY <3>7
      <4>2. CASE i = n
        <5>1. ~(i < Len(entries)) /\ i \in DOMAIN entries' /\ hears
          BY <1>2, <3>7, <4>1, <4>2
        <5>2. entries'[i].kind = entries[i].kind
          BY <3>2, <3>4, <4>2
        <5> QED
          BY <5>1, <5>2 DEF Keeps
      <4>3. CASE i # n
        BY <2>1, <3>4, <3>7, <4>1, <4>3 DEF Keeps
      <4> QED
        BY <4>2, <4>3
    <3>6. Tr!NothingRunsWhenIdle'
      BY <2>1, <3>2, <3>4, <3>7 DEF Tr!NothingRunsWhenIdle, Tr!Running
    <3> QED
      BY <1>2, <3>4, <3>5, <3>6, CursorStays DEF TranscriptInv
  <2> QED
    BY <2>2, <2>3, <2>4
<1>5. CASE Tr!Ends
  <2>1. Tr!Message("note", 1) \in Entry /\ ~Tr!Running(Tr!Message("note", 1))
    BY Messages
  <2> QED
    BY <1>2, <1>5, <2>1, AddedStep, CutStep DEF Tr!Ends, Tr!HungUp
<1>6. ASSUME NEW id \in Ids, Tr!Invoked(id) PROVE TranscriptInv' /\ \A i \in DOMAIN entries : Keeps(i)
  <2>1. PICK rows \in RowsOf : Tr!Adds(Tr!Tool(id, rows, "running"))
    BY <1>6 DEF Tr!Invoked
  <2>2. Tr!Tool(id, rows, "running") \in Entry
    BY DEF Tr!Tool, Entry, Tr!Statuses
  <2>3. hears' = hears
    BY <1>6 DEF Tr!Invoked, Tr!Aside
  <2> QED
    BY <1>2, <2>1, <2>2, <2>3, AddedStep DEF Tr!Adds
<1>7. ASSUME NEW id \in Ids, NEW failed \in BOOLEAN, Tr!Result(id, failed)
      PROVE  TranscriptInv' /\ \A i \in DOMAIN entries : Keeps(i)
  <2>1. hears' = hears
    BY <1>7 DEF Tr!Result, Tr!Aside
  <2>2. CASE Tr!OpenCalls(id) = {}
    <3>1. Tr!Message("note", 1) \in Entry /\ ~Tr!Running(Tr!Message("note", 1))
      BY Messages
    <3> QED
      BY <1>2, <1>7, <2>1, <2>2, <3>1, AddedStep DEF Tr!Result, Tr!Adds
  <2>3. CASE Tr!OpenCalls(id) # {}
    <3> DEFINE n == Tr!Max(Tr!OpenCalls(id))
               x == [entries[n] EXCEPT !.open = failed, !.status = IF failed THEN "failed" ELSE "done"]
    <3>1. n \in Tr!OpenCalls(id)
      <4>1. Tr!OpenCalls(id) \subseteq 1 .. Len(entries)
        BY <1>1 DEF Tr!OpenCalls
      <4> QED
        BY <1>1, <2>3, <4>1, FirstAndLast
    <3>2. n \in DOMAIN entries /\ Tr!Running(entries[n])
      BY <3>1 DEF Tr!OpenCalls
    <3>3. x \in Entry /\ x.kind = entries[n].kind
      <4> HIDE DEF n
      <4> QED
        BY <1>1, <3>2 DEF Entry, Tr!Statuses
    <3>4. entries' = [entries EXCEPT ![n] = x]
      BY <1>7, <2>3 DEF Tr!Result
    <3> HIDE DEF n, x
    <3> QED
      BY <1>2, <2>1, <3>2, <3>3, <3>4, OneStep
  <2> QED
    BY <2>2, <2>3
<1> QED
  BY <1>3, <1>4, <1>5, <1>6, <1>7
\* What the keys do.
LEMMA KeyStep ==
  ASSUME TranscriptInv,
         \/ Tr!Draw \/ Tr!Send \/ Tr!Cancel \/ Tr!CursorUp \/ Tr!CursorDown \/ Tr!ToggleExpanded
         \/ Tr!Scroll \/ Tr!OtherKey
  PROVE  TranscriptInv' /\ \A i \in DOMAIN entries : Keeps(i)
<1> USE TextAssumption
<1>1. /\ entries \in Seq(Entry) /\ Len(entries) \in Nat /\ DOMAIN entries = 1 .. Len(entries)
      /\ \A i \in DOMAIN entries : entries[i] \in Entry
  BY DEF TranscriptInv
<1>2. CASE Tr!Draw \/ Tr!Scroll \/ Tr!OtherKey
  <2>1. entries' = entries /\ hears' = hears /\ cursor' = cursor
    BY <1>2 DEF Tr!Draw, Tr!Scroll, Tr!OtherKey
  <2> QED
    BY <2>1, CutStep
<1>3. CASE Tr!Send
  <2>1. PICK rows \in RowsOf : Tr!Adds(Tr!Message("you", rows))
    BY <1>3 DEF Tr!Send
  <2>2. hears' /\ cursor' = cursor
    BY <1>3 DEF Tr!Send
  <2> DEFINE x == Tr!Message("you", rows)
  <2>3. x \in Entry
    BY Messages
  <2>4. entries' = Append(entries, x)
    BY <2>1 DEF Tr!Adds
  <2> HIDE DEF x
  <2>5. \/ entries' = Append(entries, x) /\ (hears' \/ (~Tr!Running(x) /\ hears' = hears))
        \/ entries' = Append(Tr!Interrupted(entries), x) /\ ~Tr!Running(x)
    BY <2>2, <2>4
  <2>6. cursor' = cursor
    BY <2>2
  <2> QED
    BY <2>3, <2>5, <2>6, AddedStep, Zenon
<1>4. CASE Tr!Cancel
  BY <1>4, CutStep DEF Tr!Cancel
<1>5. CASE Tr!ToggleExpanded
  <2> DEFINE x == [entries[cursor] EXCEPT !.open = ~@]
  <2>1. cursor \in DOMAIN entries /\ cursor' = cursor /\ hears' = hears
    BY <1>5 DEF Tr!ToggleExpanded, Tr!Reveals, TranscriptInv, Tr!CursorOnTool, Tr!Stops
  <2>2. entries[cursor].open \in BOOLEAN
    BY <1>1, <2>1 DEF Entry
  <2>3. /\ x \in Entry /\ x.kind = entries[cursor].kind
        /\ x.status = entries[cursor].status /\ x.rows = entries[cursor].rows
    BY <1>1, <2>1, <2>2 DEF Entry
  <2>4. entries' = [entries EXCEPT ![cursor] = x]
    BY <1>5 DEF Tr!ToggleExpanded
  <2> HIDE DEF x
  <2>5. \/ cursor = Len(entries) /\ hears
        \/ Tr!Running(entries[cursor]) /\ hears
        \/ x.status = entries[cursor].status /\ x.rows = entries[cursor].rows
    BY <2>3
  <2>6. TranscriptInv /\ x \in Entry /\ x.kind = entries[cursor].kind
    BY <2>3
  <2> QED
    BY <2>1, <2>4, <2>5, <2>6, OneStep, Zenon
<1>6. CASE Tr!CursorUp \/ Tr!CursorDown
  <2> DEFINE before == {i \in Tr!Stops : cursor = 0 \/ i < cursor}
             after == {i \in Tr!Stops : i > cursor}
  <2>1. before \subseteq 1 .. Len(entries) /\ after \subseteq 1 .. Len(entries)
    BY <1>1 DEF Tr!Stops
  <2>2. (before # {} => Tr!Max(before) \in before) /\ (after # {} => Tr!Min(after) \in after)
    <3> HIDE DEF before, after
    <3> QED
      BY <1>1, <2>1, FirstAndLast
  <2>3. entries' = entries /\ hears' = hears
    BY <1>6 DEF Tr!CursorUp, Tr!CursorDown, Tr!Reveals
  <2>4. \/ cursor' = IF before = {} THEN cursor ELSE Tr!Max(before)
        \/ cursor' = IF after = {} THEN 0 ELSE Tr!Min(after)
    BY <1>6 DEF Tr!CursorUp, Tr!CursorDown, Tr!Reveals
  <2>5. cursor' = cursor \/ cursor' = 0 \/ cursor' \in Tr!Stops
    <3>1. before \subseteq Tr!Stops /\ after \subseteq Tr!Stops
      OBVIOUS
    <3> HIDE DEF before, after
    <3> QED
      BY <2>2, <2>4, <3>1
  <2>6. cursor' \in Nat
    BY <1>1, <2>5 DEF TranscriptInv, Tr!Stops
  <2>7. Tr!CursorOnTool'
    BY <2>3, <2>5 DEF TranscriptInv, Tr!CursorOnTool, Tr!Stops
  <2>8. \A i \in DOMAIN entries : Keeps(i)
    BY <2>3 DEF Keeps
  <2>9. Tr!NothingRunsWhenIdle'
    BY <2>3 DEF TranscriptInv, Tr!NothingRunsWhenIdle, Tr!Running
  <2> QED
    BY <2>3, <2>6, <2>7, <2>8, <2>9 DEF TranscriptInv
<1> QED
  BY <1>2, <1>3, <1>4, <1>5, <1>6

LEMMA LoadStep ==
  ASSUME TranscriptInv, NEW stored \in Tr!StoredSessions, Tr!LoadSession(stored)
  PROVE  TranscriptInv'
<1>1. entries' = stored /\ cursor' = 0
  BY DEF Tr!LoadSession
<1> DEFINE you == Tr!Message("you", 1)
           call == Tr!Tool("stored", 1, "done")
           klod == Tr!Message("klod", 1)
<1>2. you \in Entry /\ call \in Entry /\ klod \in Entry /\ ~Tr!Running(you) /\ ~Tr!Running(call) /\ ~Tr!Running(klod)
  BY Messages DEF Tr!Tool, Entry, Tr!Statuses, Tr!Running
<1>3. stored = <<>> \/ stored = <<you, call, klod>>
  BY DEF Tr!StoredSessions
<1> HIDE DEF you, call, klod
<1>4. stored \in Seq(Entry) /\ \A i \in DOMAIN stored : ~Tr!Running(stored[i])
  <2>1. CASE stored = <<>>
    BY <2>1
  <2>2. CASE stored = <<you, call, klod>>
    <3>1. stored \in Seq(Entry) /\ Len(stored) = 3 /\ stored[1] = you /\ stored[2] = call /\ stored[3] = klod
      BY <1>2, <2>2
    <3>2. DOMAIN stored = {1, 2, 3}
      BY <3>1
    <3> QED
      BY <1>2, <3>1, <3>2
  <2> QED
    BY <1>3, <2>1, <2>2
<1> QED
  BY <1>1, <1>4 DEF TranscriptInv, Tr!NothingRunsWhenIdle, Tr!CursorOnTool, Tr!Running

LEMMA TranscriptBegins == Tr!Init => TranscriptInv
<1> SUFFICES ASSUME Tr!Init PROVE TranscriptInv
  OBVIOUS
<1> DEFINE note == Tr!Message("note", 1)
<1>1. note \in Entry /\ ~Tr!Running(note)
  BY Messages
<1>2. entries = <<note>> /\ cursor = 0
  BY DEF Tr!Init
<1> HIDE DEF note
<1> QED
  BY <1>1, <1>2 DEF TranscriptInv, Tr!NothingRunsWhenIdle, Tr!CursorOnTool

LEMMA TranscriptStep ==
  ASSUME TranscriptInv, [Tr!Next]_(Tr!vars)
  PROVE  /\ TranscriptInv'
         /\ \/ \E stored \in Tr!StoredSessions : Tr!LoadSession(stored)
            \/ \A i \in DOMAIN entries : Keeps(i)
<1>1. CASE UNCHANGED Tr!vars
  <2>1. entries' = entries /\ hears' = hears /\ cursor' = cursor
    BY <1>1 DEF Tr!vars
  <2> QED
    BY <2>1, CutStep
<1>2. CASE Tr!Next
  BY <1>2, EventStep, KeyStep, LoadStep DEF Tr!Next
<1> QED
  BY <1>1, <1>2

\* HistoryStays: what was answered stays as it was, also when a model uses an id again or
\* an answer follows an answer, until another session is loaded (app.rs's record_tool_result,
\* apply_delta and finish_turn), for texts of any number of rows.
THEOREM AnsweredStays == Tr!Spec => HistoryStays
<1> DEFINE Stays ==
        (\A stored \in Tr!StoredSessions : ~Tr!LoadSession(stored)) =>
          \A i \in DOMAIN entries :
              (i < Len(entries) \/ ~hears) /\ ~Tr!Running(entries[i]) =>
                  entries'[i].status = entries[i].status /\ entries'[i].rows = entries[i].rows
<1>1. TranscriptInv /\ [Tr!Next]_(Tr!vars) => [Stays]_entries
  BY TranscriptStep DEF Keeps
<1>2. TranscriptInv /\ [Tr!Next]_(Tr!vars) => TranscriptInv'
  BY TranscriptStep
<1> HIDE DEF Stays
<1>3. Tr!Spec => [][Stays]_entries
  BY <1>1, <1>2, TranscriptBegins, PTL DEF Tr!Spec
<1> QED
  BY <1>3 DEF Stays, HistoryStays, Tr!HistoryStays

\* CursorOnTool and NothingRunsWhenIdle: the cursor is on a call of what is shown (app.rs:97),
\* and no call is shown as running when its turn is over, however that ended.
THEOREM CallsAreShownAsTheyAre == Tr!Spec => [](CursorOnTool /\ NothingRunsWhenIdle)
<1>1. TranscriptInv => CursorOnTool /\ NothingRunsWhenIdle
  BY DEF TranscriptInv, CursorOnTool, NothingRunsWhenIdle
<1>2. TranscriptInv /\ [Tr!Next]_(Tr!vars) => TranscriptInv'
  BY TranscriptStep
<1> QED
  BY <1>1, <1>2, TranscriptBegins, PTL DEF Tr!Spec
===============================================================================
