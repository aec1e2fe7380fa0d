------------------------------ MODULE FleetProofs ------------------------------
(***************************************************************************)
(* What holds of the tools of any agents, whatever guests they own,        *)
(* whichever of them break, and however the storage calls of their guests  *)
(* interleave: a guest reads what guests of its id wrote for its session,  *)
(* and loses nothing but to a race over a row that is not a session's.     *)
(* And of the processes they start, whatever those write, leave behind and *)
(* when they die: an exit is reported whole, a death with its last words.  *)
(* And of the guests behind the boundary, whichever there are, whatever    *)
(* they contribute and whenever they trap: what clients show is what they  *)
(* offer, a failure stays one, and who died lets no call pass.             *)
(* And of a file that they edit, whatever its lines are and their hashes:  *)
(* an edit lands where its editor saw it.                                  *)
(***************************************************************************)
EXTENDS MCFleet, TLAPS, WellFoundedInduction, SequenceTheorems, FiniteSetTheorems

InTurn  == {"turn", "guest", "asking", "read"}
InGuest == {"guest", "asking", "read"}

Fleets == [pending : {ToolList, <<>>}, live : {None} \cup [guests : {ToolList, <<>>}],
           session : Sessions \cup {None}, bound : [Tools -> Sessions \cup {None}]]

\* In a turn the guests that are alive are bound to its session, and those to come will be.
BoundInv ==
    \A a \in Agents : call[a].at \in InTurn =>
        /\ call[a].session \in Sessions /\ tools[a].session = call[a].session
        /\ Live(tools[a]) =>
             \A t \in Range(tools[a].live.guests) : Bound(a, t) = call[a].session

\* Outside a turn an agent has no session; a session has one agent.
ApartInv ==
    \A a \in Agents :
        /\ call[a].at \notin InTurn => call[a].session = None
        /\ \A b \in Agents : a # b /\ call[a].session # None => call[a].session # call[b].session

\* A call is in a guest that is alive, and overtaken only between its read and its write.
CallInv ==
    \A a \in Agents :
        /\ call[a].at \in InGuest =>
             Live(tools[a]) /\ call[a].tool \in Range(tools[a].live.guests)
        /\ call[a].at \notin InGuest => call[a].tool = None
        /\ call[a].overtaken => call[a].at = "read"

\* What a row holds was written by guests of its owner's id, in its session if it has one, and
\* in its agent if it is not durable.
OwnRow(s, items) ==
    \A i \in items :
        /\ i.tool = s.owner
        /\ s.session # None => i.session = s.session
        /\ s.agent # None => i.agent = s.agent

RowsInv == \A s \in Scopes : OwnRow(s, rows[s])

\* What a guest read is what it would read now, unless it was overtaken.
FreshInv ==
    \A a \in Agents : call[a].at = "read" =>
        /\ ~Refused(a, call[a].tool)
        /\ OwnRow(Scope(a, call[a].tool), call[a].seen)
        /\ ~call[a].overtaken => call[a].seen = rows[Scope(a, call[a].tool)]

IInv ==
    /\ TypeOK /\ BoundInv /\ ApartInv /\ CallInv /\ RowsInv /\ FreshInv
    /\ LostOnlyToARace /\ WholeOrEmpty /\ NativeNeverShadows

-----------------------------------------------------------------------------
(* Fleets. *)

\* A set of numbers has a least one.
LEMMA Least ==
    ASSUME NEW T, T \subseteq Nat, T # {}
    PROVE  \E x \in T : \A y \in T : ~(y < x)
<1> DEFINE R == OpToRel(<, Nat)
<1>1. IsWellFoundedOn(R, Nat)
    BY NatLessThanWellFounded, Zenon
<1>2. R = {ss \in Nat \X Nat : ss[1] < ss[2]}
    BY DEF OpToRel
<1> HIDE DEF R
<1>3. PICK x \in T : \A y \in T : <<y, x>> \notin R
    BY <1>1, WFMin, Zenon
<1> QED BY <1>2, <1>3

LEMMA Guests ==
    /\ Range(ToolList) = Tools /\ Range(<<>>) = {} /\ None \notin Tools
    /\ DOMAIN ToolList \subseteq Nat \ {0} /\ \A n \in DOMAIN ToolList : 1..(n - 1) \subseteq DOMAIN ToolList
<1>1. Range(ToolList) = Tools /\ Range(<<>>) = {} /\ None \notin Tools
    BY FleetAssumption DEF Range, Tools
<1>2. DOMAIN ToolList = 1..Len(ToolList) /\ Len(ToolList) \in Nat
    BY FleetAssumption
<1> QED BY <1>1, <1>2

\* The first live guest of a name, and none only where none has it.
LEMMA LookUp ==
    ASSUME NEW f \in Fleets, NEW name
    PROVE  /\ ToolNamed(f, name) # None =>
                Live(f) /\ ToolNamed(f, name) \in Range(f.live.guests) /\ ToolNamed(f, name) \in Tools
           /\ ToolNamed(f, name) = None =>
                ~Live(f) \/ \A t \in Range(f.live.guests) : NameOf[t] # name
<1> DEFINE g == f.live.guests
           P(i) == NameOf[g[i]] = name /\ \A j \in 1 .. (i - 1) : NameOf[g[j]] # name
           found == Live(f) /\ \E t \in Range(g) : NameOf[t] = name
<1>1. Live(f) => g \in {ToolList, <<>>}
    BY DEF Live, Fleets
<1>2. CASE ~found
    <2>1. ToolNamed(f, name) = None
        BY <1>2 DEF ToolNamed
    <2> QED BY <1>2, <2>1
<1>3. CASE found
    <2>1. g = ToolList
        BY <1>1, <1>3, Guests
    <2> DEFINE T == {i \in DOMAIN g : NameOf[g[i]] = name}
    <2>2. T \subseteq Nat /\ T # {}
        BY <1>3, <2>1, Guests DEF Range
    <2>3. PICK i \in T : \A j \in T : ~(j < i)
        BY <2>2, Least
    <2>4. P(i)
        <3>1. i \in Nat /\ i \in DOMAIN g
            BY <2>2, <2>3
        <3>2. ASSUME NEW j \in 1 .. (i - 1) PROVE j \in DOMAIN g /\ j < i
            BY <2>1, <3>1, Guests
        <3> QED BY <2>3, <3>1, <3>2
    <2> DEFINE n == CHOOSE m \in DOMAIN g : P(m)
    <2>5. ToolNamed(f, name) = g[n]
        BY <1>3 DEF ToolNamed
    <2>6. n \in DOMAIN g
        BY <2>3, <2>4
    <2> HIDE DEF n
    <2>7. g[n] \in Range(g) /\ g[n] \in Tools
        <3>1. g[n] \in Range(g)
            BY <2>6 DEF Range
        <3> QED BY <2>1, <3>1, Guests
    <2> QED BY <1>3, <2>5, <2>7, Guests
<1> QED BY <1>2, <1>3

\* What instantiation makes of a fleet.
LEMMA Ensuring ==
    ASSUME NEW f \in Fleets, NEW bad
    PROVE  LET g == Ensured(f, bad)
           IN  /\ g \in Fleets /\ g.session = f.session
               /\ Live(f) => g = f
               /\ ~Live(f) /\ Live(g) => /\ g.live.guests = f.pending /\ g.pending = <<>>
                                         /\ f.session # None =>
                                              \A t \in Range(f.pending) : g.bound[t] = f.session
               /\ bad = None => Live(g)
<1> DEFINE g == Ensured(f, bad)
           fails == bad \in Range(f.pending)
           bound == IF fails \/ f.session = None THEN f.bound
                    ELSE [t \in Tools |-> IF t \in Range(f.pending) THEN f.session ELSE f.bound[t]]
           live  == IF fails THEN None ELSE [guests |-> f.pending]
<1>1. CASE Live(f)
    BY <1>1 DEF Ensured
<1>2. CASE ~Live(f)
    <2>1. /\ f.pending \in {ToolList, <<>>} /\ f.session \in Sessions \cup {None}
          /\ f.bound \in [Tools -> Sessions \cup {None}]
        BY DEF Fleets
    <2>2. g = [f EXCEPT !.pending = <<>>, !.live = live, !.bound = bound]
        BY <1>2 DEF Ensured
    <2>3. bound \in [Tools -> Sessions \cup {None}]
        BY <2>1
    <2>4. live \in {None} \cup [guests : {ToolList, <<>>}]
        BY <2>1
    <2> HIDE DEF bound, live, fails
    <2>5. g = [pending |-> <<>>, live |-> live, session |-> f.session, bound |-> bound]
        BY <2>2 DEF Fleets
    <2>6. g \in Fleets /\ g.session = f.session /\ g.pending = <<>> /\ g.live = live /\ g.bound = bound
        BY <2>1, <2>3, <2>4, <2>5 DEF Fleets
    <2>7. Live(g) => ~fails /\ g.live.guests = f.pending
        BY <2>6 DEF live, Live
    <2>8. ~fails /\ f.session # None => \A t \in Range(f.pending) : bound[t] = f.session
        BY <2>1, Guests DEF bound
    <2>9. bad = None => Live(g)
        <3>1. bad = None => ~fails
            BY <2>1, Guests DEF fails
        <3>2. [guests |-> f.pending] # None
            BY <2>1, FleetAssumption
        <3> QED BY <2>6, <3>1, <3>2 DEF live, Live
    <2> QED BY <1>2, <2>6, <2>7, <2>8, <2>9
<1> QED BY <1>1, <1>2

\* What binding a session makes of it.
LEMMA Binding ==
    ASSUME NEW f \in Fleets, NEW s \in Sessions
    PROVE  LET g == BindSession(f, s)
           IN  /\ g \in Fleets /\ g.session = s /\ g.live = f.live /\ g.pending = f.pending
               /\ Live(f) => \A t \in Range(f.live.guests) : g.bound[t] = s
<1> DEFINE g == BindSession(f, s)
           bound == IF Live(f)
                    THEN [t \in Tools |-> IF t \in Range(f.live.guests) THEN s ELSE f.bound[t]]
                    ELSE f.bound
<1>1. g = [f EXCEPT !.session = s, !.bound = bound]
    BY DEF BindSession
<1>2. bound \in [Tools -> Sessions \cup {None}]
    BY DEF Fleets
<1>3. Live(f) => \A t \in Range(f.live.guests) : bound[t] = s
    <2>1. Live(f) => f.live.guests \in {ToolList, <<>>}
        BY DEF Live, Fleets
    <2> QED BY <2>1, Guests
<1> HIDE DEF bound
<1>4. g = [pending |-> f.pending, live |-> f.live, session |-> s, bound |-> bound]
    BY <1>1 DEF Fleets
<1> QED BY <1>2, <1>3, <1>4 DEF Fleets

Registered == [skills : {SkillList, <<>>}, mcp : {McpList, <<>>}, live : BOOLEAN]

\* What instantiation makes of the registries.
LEMMA RegEnsuring ==
    ASSUME NEW r \in Registered, NEW bad
    PROVE  LET q == RegEnsured(r, bad)
           IN  /\ q \in Registered
               /\ r.live => q = r
               /\ bad = None => q = [r EXCEPT !.live = TRUE]
<1>1. None \notin Range(SkillList) \cup Range(McpList) /\ Range(<<>>) = {}
    BY FleetAssumption DEF Registries, Range
<1>2. r.skills \in {SkillList, <<>>} /\ r.mcp \in {McpList, <<>>} /\ r.live \in BOOLEAN
    BY DEF Registered
<1>3. CASE r.live
    <2>1. RegEnsured(r, bad) = r
        BY <1>3, Zenon DEF RegEnsured
    <2>2. r = [r EXCEPT !.live = TRUE]
        BY <1>3 DEF Registered
    <2> QED BY <1>3, <2>1, <2>2
<1>4. CASE ~r.live /\ bad \in Range(r.skills)
    BY <1>1, <1>2, <1>4 DEF RegEnsured, Registered
<1>5. CASE ~r.live /\ bad \notin Range(r.skills) /\ bad \in Range(r.mcp)
    BY <1>1, <1>2, <1>5 DEF RegEnsured, Registered
<1>6. CASE ~r.live /\ bad \notin Range(r.skills) /\ bad \notin Range(r.mcp)
    BY <1>1, <1>2, <1>6 DEF RegEnsured, Registered
<1> QED BY <1>3, <1>4, <1>5, <1>6

-----------------------------------------------------------------------------
(* Types. *)

Calls == [at : {"unbuilt", "idle", "turn", "guest", "asking", "read"},
          session : Sessions \cup {None}, tool : Tools \cup {None},
          asks : 0 .. (MaxAsks - 1), seen : SUBSET Items,
          overtaken : BOOLEAN, native : NativeNames \cup {None}]

LEMMA Typed ==
    TypeOK <=> /\ tools \in [Agents -> Fleets] /\ regs \in [Agents -> Registered]
               /\ rows \in [Scopes -> SUBSET Items] /\ call \in [Agents -> Calls]
               /\ kept \subseteq Scopes \X Items /\ broke \subseteq Agents /\ eager \in BOOLEAN
BY DEF TypeOK, Fleets, Registered, Calls

\* The calls of the model, field by field.
LEMMA Fields ==
    ASSUME NEW c \in Calls
    PROVE  /\ c.session \in Sessions \cup {None} /\ c.tool \in Tools \cup {None}
           /\ c.asks \in 0 .. (MaxAsks - 1) /\ c.seen \subseteq Items /\ c.overtaken \in BOOLEAN
           /\ \A at \in {"unbuilt", "idle", "turn", "guest", "asking", "read"} :
                [c EXCEPT !.at = at] \in Calls
BY DEF Calls

LEMMA Resting ==
    /\ Idle \in Calls /\ [Idle EXCEPT !.at = "unbuilt"] \in Calls
    /\ \A s \in Sessions : [Idle EXCEPT !.at = "turn", !.session = s] \in Calls
<1>1. 0 \in 0 .. (MaxAsks - 1)
    BY FleetAssumption
<1> QED BY <1>1 DEF Idle, Calls

LEMMA Returning ==
    ASSUME TypeOK, NEW a \in Agents
    PROVE  /\ Returned(a) \in [Agents -> Calls]
           /\ \A b \in Agents : b # a => Returned(a)[b] = call[b]
           /\ LET c == Returned(a)[a]
              IN  /\ c.at = "turn" /\ c.tool = None /\ c.session = call[a].session /\ c.seen = {}
                  /\ c.overtaken = FALSE /\ c.native = call[a].native
<1>1. 0 \in 0 .. (MaxAsks - 1)
    BY FleetAssumption
<1>2. call \in [Agents -> Calls]
    BY Typed
<1>3. Returned(a)[a] = [call[a] EXCEPT !.at = "turn", !.tool = None, !.asks = 0, !.seen = {}, !.overtaken = FALSE]
    BY <1>2 DEF Returned
<1>4. call[a] \in Calls
    BY <1>2
<1>5. Returned(a)[a] \in Calls
    BY <1>1, <1>3, <1>4 DEF Calls
<1>6. \A b \in Agents : b # a => Returned(a)[b] = call[b]
    BY <1>2 DEF Returned
<1>7. Returned(a) \in [Agents -> Calls]
    BY <1>2, <1>5, <1>6 DEF Returned
<1> QED BY <1>3, <1>4, <1>6, <1>7 DEF Calls

\* The row of a call.
LEMMA Scoping ==
    ASSUME TypeOK, BoundInv, CallInv, NEW a \in Agents, call[a].at \in InGuest
    PROVE  /\ call[a].tool \in Tools /\ call[a].session \in Sessions /\ call[a].session # None
           /\ Bound(a, call[a].tool) = call[a].session
           /\ Scope(a, call[a].tool) = ScopeAt(a, call[a].tool, call[a].session)
           /\ Scope(a, call[a].tool) \in Scopes /\ Item(a) \in Items
<1>1. tools[a] \in Fleets /\ call[a].at \in InTurn
    BY Typed DEF InGuest, InTurn
<1>2. Live(tools[a]) /\ call[a].tool \in Range(tools[a].live.guests)
    BY DEF CallInv
<1>3. tools[a].live.guests \in {ToolList, <<>>}
    BY <1>1, <1>2 DEF Live, Fleets
<1>4. call[a].tool \in Tools
    BY <1>2, <1>3, Guests
<1>5. call[a].session \in Sessions /\ Bound(a, call[a].tool) = call[a].session
    BY <1>1, <1>2 DEF BoundInv
<1>6. Scope(a, call[a].tool) = ScopeAt(a, call[a].tool, call[a].session)
    BY <1>5 DEF Scope
<1>7. ScopeAt(a, call[a].tool, call[a].session) \in Scopes /\ Item(a) \in Items
    BY <1>4, <1>5 DEF ScopeAt, Scopes, Item, Items
<1> QED BY <1>4, <1>5, <1>6, <1>7, FleetAssumption

LEMMA TypeInit == Init => TypeOK
<1> SUFFICES ASSUME Init PROVE TypeOK
    OBVIOUS
<1>1. call \in [Agents -> Calls]
    BY Resting DEF Init
<1>2. tools \in [Agents -> Fleets]
    BY DEF Init, Fleets
<1>3. regs \in [Agents -> Registered]
    BY DEF Init, Registered
<1> QED BY <1>1, <1>2, <1>3, Typed DEF Init

LEMMA TypeStep == ASSUME TypeOK, BoundInv, CallInv, [Next]_vars PROVE TypeOK'
<1>0. /\ tools \in [Agents -> Fleets] /\ regs \in [Agents -> Registered]
      /\ rows \in [Scopes -> SUBSET Items] /\ call \in [Agents -> Calls]
      /\ kept \subseteq Scopes \X Items /\ broke \subseteq Agents /\ eager \in BOOLEAN
    BY Typed
<1> DEFINE P == /\ tools \in [Agents -> Fleets] /\ regs \in [Agents -> Registered]
                /\ rows \in [Scopes -> SUBSET Items] /\ call \in [Agents -> Calls]
                /\ kept \subseteq Scopes \X Items /\ broke \subseteq Agents /\ eager \in BOOLEAN
<1>1. ASSUME NEW a \in Agents, BuildAgent(a) PROVE P'
    <2>1. tools' \in [Agents -> Fleets]
        <3>1. Ensured(tools[a], None) \in Fleets
            BY <1>0, Ensuring
        <3> QED BY <1>0, <1>1, <3>1 DEF BuildAgent
    <2>2. regs' \in [Agents -> Registered]
        <3>1. RegEnsured(regs[a], None) \in Registered
            BY <1>0, RegEnsuring
        <3> QED BY <1>0, <1>1, <3>1 DEF BuildAgent
    <2> QED BY <1>0, <1>1, <2>1, <2>2, Resting DEF BuildAgent
<1>2. ASSUME NEW a \in Agents, NEW s \in Sessions, BeginTurn(a, s) PROVE P'
    <2>1. BindSession(tools[a], s) \in Fleets
        BY <1>0, Binding
    <2> QED BY <1>0, <1>2, <2>1, Resting DEF BeginTurn
<1>3. ASSUME NEW a \in Agents, EndTurn(a) PROVE P'
    BY <1>0, <1>3, Resting DEF EndTurn
<1>4. ASSUME NEW a \in Agents, NEW name, NEW bad, NEW regBad, Dispatch(a, name, bad, regBad) PROVE P'
    <2> DEFINE f == Ensured(tools[a], bad)
               toRegistry == ToolNamed(f, name) = None
               r == IF toRegistry THEN RegEnsured(regs[a], regBad) ELSE regs[a]
               by == AnsweredBy(f, r, toRegistry /\ ~r.live, name)
               c == [call[a] EXCEPT !.at = IF by = "tool" THEN "guest" ELSE "turn",
                                    !.tool = ToolNamed(f, name),
                                    !.native = IF by = "native" THEN name ELSE None]
    <2>1. f \in Fleets /\ tools[a] \in Fleets /\ regs[a] \in Registered /\ call[a] \in Calls
        BY <1>0, Ensuring
    <2>2. RegEnsured(regs[a], regBad) \in Registered
        BY <2>1, RegEnsuring
    <2>3. r \in Registered
        BY <2>1, <2>2
    <2>4. ToolNamed(f, name) \in Tools \cup {None}
        BY <2>1, LookUp
    <2>5. by = "native" => name \in NativeNames
        BY DEF AnsweredBy
    <2>6. /\ tools' = [tools EXCEPT ![a] = f] /\ regs' = [regs EXCEPT ![a] = r]
          /\ call' = [call EXCEPT ![a] = c] /\ broke' \in {broke, broke \cup {a}}
          /\ UNCHANGED <<rows, kept, eager>>
        BY <1>4 DEF Dispatch
    <2> HIDE DEF f, r, by
    <2>7. c \in Calls
        BY <2>1, <2>4, <2>5 DEF Calls
    <2> HIDE DEF c
    <2> QED BY <1>0, <2>1, <2>3, <2>6, <2>7
<1>5. ASSUME NEW a \in Agents, GuestAsks(a) PROVE P'
    <2>1. [call[a] EXCEPT !.at = "asking"] \in Calls
        BY <1>0, Fields
    <2> QED BY <1>0, <1>5, <2>1 DEF GuestAsks
<1>6. ASSUME NEW a \in Agents, DriverAnswers(a) PROVE P'
    <2>1. CASE call[a].asks + 1 = MaxAsks
        BY <1>0, <1>6, <2>1, Returning DEF DriverAnswers
    <2>2. CASE call[a].asks + 1 # MaxAsks
        <3>1. call[a] \in Calls /\ call[a].asks \in 0 .. (MaxAsks - 1)
            BY <1>0, Fields
        <3>2. call[a].asks + 1 \in 0 .. (MaxAsks - 1)
            BY <2>2, <3>1, FleetAssumption
        <3>3. [call[a] EXCEPT !.at = "guest", !.asks = call[a].asks + 1] \in Calls
            BY <3>1, <3>2 DEF Calls
        <3>4. call' = [call EXCEPT ![a] = [call[a] EXCEPT !.at = "guest", !.asks = call[a].asks + 1]]
            BY <1>6, <2>2, Zenon DEF DriverAnswers
        <3>5. call' \in [Agents -> Calls]
            BY <1>0, <3>3, <3>4
        <3> QED BY <1>0, <1>6, <3>5 DEF DriverAnswers
    <2> QED BY <2>1, <2>2
<1>7. ASSUME NEW a \in Agents, GuestReturns(a) PROVE P'
    BY <1>0, <1>7, Returning DEF GuestReturns
<1>8. ASSUME NEW a \in Agents, GuestReads(a) PROVE P'
    <2>1. rows[Scope(a, call[a].tool)] \subseteq Items
        BY <1>0, <1>8, Scoping DEF GuestReads, InGuest
    <2>2. [call[a] EXCEPT !.at = "read", !.seen = rows[Scope(a, call[a].tool)], !.overtaken = FALSE] \in Calls
        BY <1>0, <2>1 DEF Calls
    <2>3. call' \in [Agents -> Calls]
        BY <1>0, <1>8, <2>2 DEF GuestReads
    <2> QED BY <1>0, <1>8, <2>3 DEF GuestReads
<1>9. ASSUME NEW a \in Agents, NEW row \in Rendered(a), GuestWrites(a, row) PROVE P'
    <2>1. call[a].at = "read" /\ call[a].seen \subseteq Items
        BY <1>0, <1>9, Fields DEF GuestWrites
    <2>2. /\ Scope(a, call[a].tool) \in Scopes /\ Item(a) \in Items
          /\ ScopeAt(a, call[a].tool, call[a].session) \in Scopes
        BY <2>1, Scoping DEF InGuest
    <2>3. row \subseteq Items
        BY <2>1, <2>2 DEF Rendered
    <2>4. rows' \in [Scopes -> SUBSET Items]
        BY <1>0, <1>9, <2>2, <2>3 DEF GuestWrites
    <2>5. kept' \subseteq Scopes \X Items
        BY <1>0, <1>9, <2>2, <2>3 DEF GuestWrites
    <2>6. call' \in [Agents -> Calls]
        <3>1. ASSUME NEW b \in Agents, b # a, NEW over \in BOOLEAN
              PROVE  [call[b] EXCEPT !.overtaken = over] \in Calls
            BY <1>0, <3>1 DEF Calls
        <3>2. ASSUME NEW b \in Agents PROVE call'[b] \in Calls
            <4>1. CASE b = a
                BY <1>9, <4>1, Returning DEF GuestWrites
            <4>2. CASE b # a
                <5> DEFINE over == call[b].overtaken
                                     \/ (call[b].at = "read" /\ Scope(b, call[b].tool) = Scope(a, call[a].tool))
                <5>1. over \in BOOLEAN
                    BY <1>0, Fields
                <5>2. call'[b] = [call[b] EXCEPT !.overtaken = over]
                    BY <1>9, <4>2 DEF GuestWrites
                <5> HIDE DEF over
                <5> QED BY <3>1, <4>2, <5>1, <5>2
            <4> QED BY <4>1, <4>2
        <3>3. DOMAIN call' = Agents /\ call' = [b \in Agents |-> call'[b]]
            BY <1>9 DEF GuestWrites
        <3> QED BY <3>2, <3>3
    <2> QED BY <1>0, <1>9, <2>4, <2>5, <2>6 DEF GuestWrites
<1>10. ASSUME UNCHANGED vars PROVE P'
    BY <1>0, <1>10 DEF vars
<1>11. P'
    BY <1>1, <1>2, <1>3, <1>4, <1>5, <1>6, <1>7, <1>8, <1>9, <1>10 DEF Next
<1> QED BY <1>11 DEF TypeOK, Fleets, Registered, Calls

-----------------------------------------------------------------------------
(* Turns and calls. *)

\* A step of one agent.
By(a) ==
    \/ BuildAgent(a) \/ EndTurn(a) \/ GuestAsks(a) \/ DriverAnswers(a)
    \/ GuestReturns(a) \/ GuestReads(a)
    \/ \E row \in Rendered(a) : GuestWrites(a, row)
    \/ \E s \in Sessions : BeginTurn(a, s)
    \/ \E name \in Names, bad, regBad \in MayBreak : Dispatch(a, name, bad, regBad)

\* It leaves the others where they are, but for what it writes.
LEMMA Elsewhere ==
    ASSUME TypeOK, NEW a \in Agents, By(a), NEW b \in Agents, b # a
    PROVE  /\ tools'[b] = tools[b] /\ regs'[b] = regs[b]
           /\ call'[b].at = call[b].at /\ call'[b].session = call[b].session
           /\ call'[b].tool = call[b].tool /\ call'[b].seen = call[b].seen
           /\ call'[b].native = call[b].native
           /\ call[b].overtaken => call'[b].overtaken
           /\ call'[b].overtaken # call[b].overtaken =>
                /\ call[a].at = "read" /\ call[b].at = "read"
                /\ Scope(b, call[b].tool) = Scope(a, call[a].tool)
           /\ rows' # rows => /\ \E row \in Rendered(a) : GuestWrites(a, row)
                              /\ call[b].at = "read" /\ Scope(b, call[b].tool) = Scope(a, call[a].tool) =>
                                    call'[b].overtaken
<1>0. tools \in [Agents -> Fleets] /\ regs \in [Agents -> Registered] /\ call \in [Agents -> Calls]
    BY Typed
<1>1. ASSUME NEW row \in Rendered(a), GuestWrites(a, row)
      PROVE  /\ UNCHANGED <<tools, regs>>
             /\ call'[b] = [call[b] EXCEPT !.overtaken =
                   @ \/ (call[b].at = "read" /\ Scope(b, call[b].tool) = Scope(a, call[a].tool))]
    BY <1>1 DEF GuestWrites
<1>2. ASSUME NEW row \in Rendered(a), GuestWrites(a, row)
      PROVE  /\ call'[b].at = call[b].at /\ call'[b].session = call[b].session
             /\ call'[b].tool = call[b].tool /\ call'[b].seen = call[b].seen
             /\ call'[b].native = call[b].native
             /\ call'[b].overtaken = (call[b].overtaken
                   \/ (call[b].at = "read" /\ Scope(b, call[b].tool) = Scope(a, call[a].tool)))
    <2> DEFINE over == call[b].overtaken
                          \/ (call[b].at = "read" /\ Scope(b, call[b].tool) = Scope(a, call[a].tool))
    <2>1. call'[b] = [call[b] EXCEPT !.overtaken = over]
        BY <1>1, <1>2
    <2> HIDE DEF over
    <2>2. call'[b].overtaken = over
        BY <1>0, <2>1 DEF Calls
    <2> QED BY <1>0, <2>1, <2>2 DEF Calls, over
<1>3. ASSUME BuildAgent(a) \/ EndTurn(a) \/ GuestAsks(a) \/ DriverAnswers(a) \/ GuestReturns(a) \/ GuestReads(a)
                \/ \E s \in Sessions : BeginTurn(a, s)
      PROVE  tools'[b] = tools[b] /\ regs'[b] = regs[b] /\ call'[b] = call[b] /\ rows' = rows
    BY <1>0, <1>3, Returning
        DEF BuildAgent, EndTurn, GuestAsks, DriverAnswers, GuestReturns, GuestReads, BeginTurn
<1>4. ASSUME NEW name, NEW bad, NEW regBad, Dispatch(a, name, bad, regBad)
      PROVE  tools'[b] = tools[b] /\ regs'[b] = regs[b] /\ call'[b] = call[b] /\ rows' = rows
    BY <1>0, <1>4 DEF Dispatch
<1>5. CASE \E row \in Rendered(a) : GuestWrites(a, row)
    <2>1. PICK row \in Rendered(a) : GuestWrites(a, row)
        BY <1>5
    <2> DEFINE here == call[b].at = "read" /\ Scope(b, call[b].tool) = Scope(a, call[a].tool)
    <2>2. call'[b].overtaken = (call[b].overtaken \/ here)
        BY <1>2, <2>1
    <2>3. /\ call'[b].overtaken # call[b].overtaken => here
          /\ call[b].overtaken => call'[b].overtaken
          /\ here => call'[b].overtaken
        <3>0. call[b].overtaken => call'[b].overtaken
            BY <2>2, Zenon
        <3>1. here => call'[b].overtaken
            BY <2>2, Zenon
        <3>2. ASSUME ~here PROVE call'[b].overtaken = call[b].overtaken
            <4>1. call[b].overtaken \in BOOLEAN
                BY <1>0, Fields
            <4>2. call'[b].overtaken = (call[b].overtaken \/ FALSE)
                BY <2>2, <3>2, Zenon
            <4> QED BY <4>1, <4>2, Zenon
        <3> HIDE DEF here
        <3> QED BY <3>0, <3>1, <3>2, Zenon
    <2>4. tools'[b] = tools[b] /\ regs'[b] = regs[b]
        BY <1>1, <2>1
    <2>5. /\ call'[b].at = call[b].at /\ call'[b].session = call[b].session
          /\ call'[b].tool = call[b].tool /\ call'[b].seen = call[b].seen
          /\ call'[b].native = call[b].native
        BY <1>2, <2>1
    <2>6. call[a].at = "read"
        BY <2>1 DEF GuestWrites
    <2> QED BY <1>5, <2>3, <2>4, <2>5, <2>6, Zenon
<1> QED BY <1>3, <1>4, <1>5 DEF By

\* What one agent's step makes of its own call, c, and its fleet, f.
Placed(a, c, f) ==
    /\ c.at \in InTurn =>
         /\ c.session \in Sessions /\ f.session = c.session
         /\ Live(f) => \A t \in Range(f.live.guests) : f.bound[t] = c.session
    /\ c.at \notin InTurn => c.session = None
    /\ c.session # None => \A b \in Agents : b # a => call[b].session # c.session
    /\ c.at \in InGuest => Live(f) /\ c.tool \in Range(f.live.guests)
    /\ c.at \notin InGuest => c.tool = None
    /\ c.overtaken => c.at = "read" /\ call[a].overtaken

LEMMA Here ==
    ASSUME TypeOK, BoundInv, ApartInv, CallInv, NEW a \in Agents, By(a)
    PROVE  Placed(a, call'[a], tools'[a])
<1>0. /\ tools \in [Agents -> Fleets] /\ call \in [Agents -> Calls]
      /\ tools[a] \in Fleets /\ call[a] \in Calls
    BY Typed
<1>1. Placed(a, call[a], tools[a])
    <2>1. call[a].at \in InTurn =>
            /\ call[a].session \in Sessions /\ tools[a].session = call[a].session
            /\ Live(tools[a]) => \A t \in Range(tools[a].live.guests) : tools[a].bound[t] = call[a].session
        BY DEF BoundInv, Bound
    <2>2. /\ call[a].at \notin InTurn => call[a].session = None
          /\ call[a].session # None => \A b \in Agents : b # a => call[b].session # call[a].session
        BY DEF ApartInv
    <2> QED BY <2>1, <2>2 DEF Placed, CallInv
<1>2. ASSUME NEW f PROVE Placed(a, Idle, f)
    BY DEF Placed, Idle, InTurn, InGuest
<1>3. ASSUME BuildAgent(a) \/ EndTurn(a) PROVE Placed(a, call'[a], tools'[a])
    BY <1>0, <1>2, <1>3 DEF BuildAgent, EndTurn
<1>4. ASSUME NEW s \in Sessions, BeginTurn(a, s) PROVE Placed(a, call'[a], tools'[a])
    <2>1. tools'[a] = BindSession(tools[a], s)
        BY <1>0, <1>4 DEF BeginTurn
    <2>2. call'[a] = [Idle EXCEPT !.at = "turn", !.session = s]
        BY <1>0, <1>4 DEF BeginTurn
    <2>3. /\ call'[a].at = "turn" /\ call'[a].session = s /\ call'[a].tool = None
          /\ call'[a].overtaken = FALSE
        BY <2>2 DEF Idle
    <2>4. /\ tools'[a].session = s
          /\ Live(tools'[a]) => \A t \in Range(tools'[a].live.guests) : tools'[a].bound[t] = s
        BY <1>0, <2>1, Binding DEF Live
    <2>5. \A b \in Agents : call[b].session # s
        BY <1>4 DEF BeginTurn
    <2> QED BY <2>3, <2>4, <2>5 DEF Placed, InTurn, InGuest
<1>5. ASSUME NEW name, NEW bad, NEW regBad, Dispatch(a, name, bad, regBad)
      PROVE  Placed(a, call'[a], tools'[a])
    <2> DEFINE f == Ensured(tools[a], bad)
               toRegistry == ToolNamed(f, name) = None
               r == IF toRegistry THEN RegEnsured(regs[a], regBad) ELSE regs[a]
               by == AnsweredBy(f, r, toRegistry /\ ~r.live, name)
               at == IF by = "tool" THEN "guest" ELSE "turn"
               native == IF by = "native" THEN name ELSE None
    <2>1. f \in Fleets /\ tools'[a] = f
        BY <1>0, <1>5, Ensuring DEF Dispatch
    <2>2. call[a].at = "turn"
          /\ call'[a] = [call[a] EXCEPT !.at = at, !.tool = ToolNamed(f, name), !.native = native]
        BY <1>0, <1>5 DEF Dispatch
    <2>3. by = "tool" <=> ToolNamed(f, name) # None
        BY DEF AnsweredBy
    <2>4. ToolNamed(f, name) # None => Live(f) /\ ToolNamed(f, name) \in Range(f.live.guests)
        BY <2>1, LookUp
    <2>5. f.session = tools[a].session
          /\ (Live(f) => \A t \in Range(f.live.guests) : f.bound[t] = call[a].session)
        <3>1. /\ call[a].session \in Sessions /\ tools[a].session = call[a].session
              /\ Live(tools[a]) => \A t \in Range(tools[a].live.guests) : tools[a].bound[t] = call[a].session
            BY <1>1, <2>2 DEF Placed, InTurn
        <3>2. call[a].session # None
            BY <3>1, FleetAssumption
        <3>3. /\ f.session = tools[a].session
              /\ Live(tools[a]) => f = tools[a]
              /\ ~Live(tools[a]) /\ Live(f) =>
                    /\ f.live.guests = tools[a].pending
                    /\ tools[a].session # None =>
                         \A t \in Range(tools[a].pending) : f.bound[t] = tools[a].session
            BY <1>0, Ensuring
        <3> HIDE DEF f
        <3> QED BY <3>1, <3>2, <3>3
    <2> HIDE DEF f, r, by, native
    <2>6. /\ call'[a].at = at /\ call'[a].tool = ToolNamed(f, name)
          /\ call'[a].session = call[a].session /\ call'[a].overtaken = call[a].overtaken
        BY <1>0, <2>2 DEF Calls
    <2>7. call[a].session \in Sessions /\ tools[a].session = call[a].session /\ ~call[a].overtaken
          /\ (call[a].session # None => \A b \in Agents : b # a => call[b].session # call[a].session)
        BY <1>1, <2>2 DEF Placed, InTurn
    <2> QED BY <2>1, <2>3, <2>4, <2>5, <2>6, <2>7 DEF Placed, InTurn, InGuest
<1>6. ASSUME NEW c, c.at \in InTurn, call[a].at \in InTurn, c.session = call[a].session,
             c.at \in InGuest => call[a].at \in InGuest /\ c.tool = call[a].tool,
             c.at \notin InGuest => c.tool = None,
             c.overtaken => c.at = "read" /\ call[a].overtaken
      PROVE  Placed(a, c, tools[a])
    BY <1>1, <1>6 DEF Placed
<1>7. ASSUME call[a].at \in InTurn PROVE Placed(a, Returned(a)[a], tools[a])
    <2>1. LET c == Returned(a)[a]
          IN  c.at = "turn" /\ c.tool = None /\ c.session = call[a].session /\ c.overtaken = FALSE
        BY Returning
    <2> DEFINE c == Returned(a)[a]
    <2>2. c.at = "turn" /\ c.tool = None /\ c.session = call[a].session /\ c.overtaken = FALSE
        BY <2>1
    <2> HIDE DEF c
    <2>3. Placed(a, c, tools[a])
        BY <1>6, <1>7, <2>2 DEF InTurn, InGuest
    <2> QED BY <2>3 DEF c
<1>8. ASSUME GuestAsks(a) PROVE Placed(a, call'[a], tools'[a])
    <2>1. call[a].at = "guest" /\ ~call[a].overtaken
        BY <1>1, <1>8 DEF GuestAsks, Placed
    <2>2. call'[a].at = "asking" /\ call'[a].session = call[a].session
          /\ call'[a].tool = call[a].tool /\ call'[a].overtaken = call[a].overtaken
        BY <1>0, <1>8 DEF GuestAsks, Calls
    <2>3. Placed(a, call'[a], tools[a])
        BY <1>6, <2>1, <2>2 DEF InTurn, InGuest
    <2> QED BY <1>8, <2>3 DEF GuestAsks
<1>9. ASSUME DriverAnswers(a) PROVE Placed(a, call'[a], tools'[a])
    <2>1. call[a].at = "asking" /\ ~call[a].overtaken /\ tools' = tools
        BY <1>1, <1>9 DEF DriverAnswers, Placed
    <2>2. CASE call[a].asks + 1 = MaxAsks
        BY <1>7, <1>9, <2>1, <2>2 DEF DriverAnswers, InTurn
    <2>3. CASE call[a].asks + 1 # MaxAsks
        <3>1. call'[a] = [call[a] EXCEPT !.at = "guest", !.asks = call[a].asks + 1]
            BY <1>0, <1>9, <2>3 DEF DriverAnswers
        <3>2. call'[a].at = "guest" /\ call'[a].session = call[a].session
              /\ call'[a].tool = call[a].tool /\ call'[a].overtaken = call[a].overtaken
            BY <1>0, <3>1 DEF Calls
        <3>3. Placed(a, call'[a], tools[a])
            BY <1>6, <2>1, <3>2 DEF InTurn, InGuest
        <3> QED BY <2>1, <3>3
    <2> QED BY <2>2, <2>3
<1>10. ASSUME GuestReturns(a) PROVE Placed(a, call'[a], tools'[a])
    BY <1>7, <1>10 DEF GuestReturns, InTurn
<1>11. ASSUME GuestReads(a) PROVE Placed(a, call'[a], tools'[a])
    <2>1. call[a].at = "guest"
        BY <1>11 DEF GuestReads
    <2>2. call'[a].at = "read" /\ call'[a].session = call[a].session
          /\ call'[a].tool = call[a].tool /\ call'[a].overtaken = FALSE
        BY <1>0, <1>11 DEF GuestReads, Calls
    <2>3. Placed(a, call'[a], tools[a])
        BY <1>6, <2>1, <2>2 DEF InTurn, InGuest
    <2> QED BY <1>11, <2>3 DEF GuestReads
<1>12. ASSUME NEW row \in Rendered(a), GuestWrites(a, row) PROVE Placed(a, call'[a], tools'[a])
    <2>1. call[a].at = "read" /\ call'[a] = Returned(a)[a] /\ tools' = tools
        BY <1>12 DEF GuestWrites
    <2> QED BY <1>7, <2>1 DEF InTurn
<1> QED BY <1>3, <1>4, <1>5, <1>8, <1>9, <1>10, <1>11, <1>12 DEF By

LEMMA CallStep ==
    ASSUME TypeOK, BoundInv, ApartInv, CallInv, [Next]_vars
    PROVE  BoundInv' /\ ApartInv' /\ CallInv'
<1>1. CASE UNCHANGED vars
    BY <1>1 DEF BoundInv, ApartInv, CallInv, Bound, vars
<1>2. ASSUME NEW a \in Agents, By(a) PROVE BoundInv' /\ ApartInv' /\ CallInv'
    <2>0. Placed(a, call'[a], tools'[a])
        BY <1>2, Here
    <2>1. ASSUME NEW b \in Agents, b # a
          PROVE  /\ tools'[b] = tools[b] /\ call'[b].at = call[b].at
                 /\ call'[b].session = call[b].session /\ call'[b].tool = call[b].tool
                 /\ call'[b].overtaken => call[b].at = "read"
        <3>1. call[b].overtaken => call[b].at = "read"
            BY DEF CallInv
        <3>2. call'[b].overtaken # call[b].overtaken => call[b].at = "read"
            BY <1>2, <2>1, Elsewhere
        <3>3. call'[b].overtaken => call[b].at = "read"
            BY <3>1, <3>2, Zenon
        <3> QED BY <1>2, <2>1, <3>3, Elsewhere
    <2>2. BoundInv'
        <3>1. ASSUME NEW b \in Agents, call'[b].at \in InTurn
              PROVE  /\ call'[b].session \in Sessions /\ tools'[b].session = call'[b].session
                     /\ Live(tools'[b]) =>
                          \A t \in Range(tools'[b].live.guests) : tools'[b].bound[t] = call'[b].session
            <4>1. CASE b = a
                BY <2>0, <3>1, <4>1 DEF Placed
            <4>2. CASE b # a
                BY <2>1, <3>1, <4>2 DEF BoundInv, Bound
            <4> QED BY <4>1, <4>2
        <3> QED BY <3>1 DEF BoundInv, Bound, Live
    <2>3. ApartInv'
        <3>1. ASSUME NEW b \in Agents PROVE call'[b].at \notin InTurn => call'[b].session = None
            BY <2>0, <2>1 DEF Placed, ApartInv
        <3>2. ASSUME NEW b \in Agents, NEW c \in Agents, b # c, call'[b].session # None
              PROVE  call'[b].session # call'[c].session
            <4>1. CASE b = a
                BY <2>0, <2>1, <3>2, <4>1 DEF Placed
            <4>2. CASE c = a
                BY <2>0, <2>1, <3>2, <4>2 DEF Placed
            <4>3. CASE b # a /\ c # a
                BY <2>1, <3>2, <4>3 DEF ApartInv
            <4> QED BY <4>1, <4>2, <4>3
        <3> QED BY <3>1, <3>2 DEF ApartInv
    <2>4. CallInv'
        <3>1. ASSUME NEW b \in Agents
              PROVE  /\ call'[b].at \in InGuest =>
                          Live(tools'[b]) /\ call'[b].tool \in Range(tools'[b].live.guests)
                     /\ call'[b].at \notin InGuest => call'[b].tool = None
                     /\ call'[b].overtaken => call'[b].at = "read"
            <4>1. CASE b = a
                BY <2>0, <4>1 DEF Placed
            <4>2. CASE b # a
                BY <2>1, <4>2 DEF CallInv
            <4> QED BY <4>1, <4>2
        <3> QED BY <3>1 DEF CallInv, Live
    <2> QED BY <2>2, <2>3, <2>4
<1> QED BY <1>1, <1>2 DEF Next, By

-----------------------------------------------------------------------------
(* What guests read and write. *)

\* A call reads and writes rows of its own.
LEMMA OwnItem ==
    ASSUME TypeOK, BoundInv, CallInv, NEW a \in Agents, call[a].at \in InGuest
    PROVE  OwnRow(Scope(a, call[a].tool), {Item(a)})
<1>1. Scope(a, call[a].tool) = ScopeAt(a, call[a].tool, call[a].session)
    BY Scoping
<1> QED BY <1>1 DEF ScopeAt, Item, OwnRow

\* Two agents write the same row only if it is a durable one of no session.
LEMMA Alone ==
    ASSUME TypeOK, BoundInv, ApartInv, CallInv, NEW a \in Agents, NEW b \in Agents, a # b,
           call[a].at \in InGuest, call[b].at \in InGuest,
           Scope(a, call[a].tool) = Scope(b, call[b].tool)
    PROVE  call[a].tool = call[b].tool /\ call[a].tool \notin PerSession
<1>1. /\ Scope(a, call[a].tool) = ScopeAt(a, call[a].tool, call[a].session)
      /\ Scope(b, call[b].tool) = ScopeAt(b, call[b].tool, call[b].session)
      /\ call[a].session # None
    BY Scoping
<1> DEFINE row(x, t, s) == ScopeAt(x, t, s)
<1>2. ASSUME NEW x, NEW t, NEW s
      PROVE  row(x, t, s).owner = t /\ row(x, t, s).session = IF t \in PerSession THEN s ELSE None
    BY DEF ScopeAt
<1>3. row(a, call[a].tool, call[a].session) = row(b, call[b].tool, call[b].session)
    BY <1>1
<1>4. call[a].session # call[b].session
    BY <1>1 DEF ApartInv
<1> HIDE DEF row
<1> QED BY <1>2, <1>3, <1>4

\* A write leaves in the row what was read and what it adds, if it leaves anything.
LEMMA Writing ==
    ASSUME TypeOK, BoundInv, CallInv, RowsInv, FreshInv,
           NEW a \in Agents, NEW row \in Rendered(a), GuestWrites(a, row)
    PROVE  /\ call[a].at = "read" /\ Scope(a, call[a].tool) \in Scopes
           /\ row \subseteq call[a].seen \cup {Item(a)}
           /\ OwnRow(Scope(a, call[a].tool), row)
           /\ rows' = [rows EXCEPT ![Scope(a, call[a].tool)] = row]
<1>1. call[a].at = "read" /\ rows' = [rows EXCEPT ![Scope(a, call[a].tool)] = row]
    BY DEF GuestWrites
<1>2. call[a].at \in InGuest
    BY <1>1 DEF InGuest
<1>3. row \subseteq call[a].seen \cup {Item(a)}
    BY DEF Rendered
<1>4. OwnRow(Scope(a, call[a].tool), call[a].seen) /\ OwnRow(Scope(a, call[a].tool), {Item(a)})
    BY <1>1, <1>2, OwnItem DEF FreshInv
<1>5. OwnRow(Scope(a, call[a].tool), row)
    BY <1>3, <1>4 DEF OwnRow
<1> QED BY <1>1, <1>2, <1>3, <1>5, Scoping

\* Only a write changes the rows.
LEMMA RowStep ==
    ASSUME TypeOK, BoundInv, CallInv, RowsInv, FreshInv, NEW a \in Agents, By(a)
    PROVE  RowsInv'
<1>0. rows \in [Scopes -> SUBSET Items]
    BY Typed
<1>1. ASSUME NEW row \in Rendered(a), GuestWrites(a, row) PROVE RowsInv'
    <2>1. ASSUME NEW s \in Scopes PROVE OwnRow(s, rows'[s])
        BY <1>0, <1>1, Writing DEF RowsInv
    <2> QED BY <2>1 DEF RowsInv, OwnRow
<1>2. ASSUME rows' = rows PROVE RowsInv'
    BY <1>2 DEF RowsInv, OwnRow
<1> QED BY <1>1, <1>2
    DEF By, BuildAgent, EndTurn, GuestAsks, DriverAnswers, GuestReturns, GuestReads, BeginTurn, Dispatch

\* Who has read has just read, or read before.
LEMMA Reading ==
    ASSUME TypeOK, NEW a \in Agents, By(a), call'[a].at = "read"
    PROVE  /\ ~Refused(a, call[a].tool) /\ call[a].at = "guest" /\ tools' = tools /\ rows' = rows
           /\ call'[a].tool = call[a].tool /\ call'[a].overtaken = FALSE
           /\ call'[a].seen = rows[Scope(a, call[a].tool)]
<1>0. call \in [Agents -> Calls]
    BY Typed
<1>1. \A b \in Agents : Returned(b)[b].at # "read"
    BY Returning
<1>2. ~(BuildAgent(a) \/ EndTurn(a) \/ GuestAsks(a))
    BY <1>0 DEF BuildAgent, EndTurn, GuestAsks, Idle, Calls
<1>3. ~\E s \in Sessions : BeginTurn(a, s)
    BY <1>0 DEF BeginTurn, Idle
<1>4. ~(DriverAnswers(a) \/ GuestReturns(a))
    <2>1. ~GuestReturns(a)
        BY <1>1 DEF GuestReturns
    <2>2. ASSUME DriverAnswers(a) PROVE FALSE
        <3>1. call[a].asks + 1 # MaxAsks
            BY <1>1, <2>2 DEF DriverAnswers
        <3>2. call' = [call EXCEPT ![a] = [call[a] EXCEPT !.at = "guest", !.asks = call[a].asks + 1]]
            BY <2>2, <3>1, Zenon DEF DriverAnswers
        <3> QED BY <1>0, <3>2 DEF Calls
    <2> QED BY <2>1, <2>2
<1>5. ~\E row \in Rendered(a) : GuestWrites(a, row)
    BY <1>1 DEF GuestWrites
<1>6. ASSUME NEW name, NEW bad, NEW regBad, Dispatch(a, name, bad, regBad) PROVE FALSE
    <2>1. PICK at, tool, native : /\ at # "read"
                                  /\ call'[a] = [call[a] EXCEPT !.at = at, !.tool = tool, !.native = native]
        BY <1>0, <1>6 DEF Dispatch
    <2> QED BY <1>0, <2>1 DEF Calls
<1>7. GuestReads(a)
    BY <1>2, <1>3, <1>4, <1>5, <1>6 DEF By
<1> QED BY <1>0, <1>7 DEF GuestReads, Calls

LEMMA FreshStep ==
    ASSUME TypeOK, BoundInv, CallInv, RowsInv, FreshInv, NEW a \in Agents, By(a)
    PROVE  FreshInv'
<1>0. rows \in [Scopes -> SUBSET Items]
    BY Typed
<1> SUFFICES ASSUME NEW b \in Agents, call'[b].at = "read"
             PROVE  LET t == call'[b].tool
                        s == ScopeAt(b, t, tools'[b].bound[t])
                    IN  /\ ~(t \in PerSession /\ tools'[b].bound[t] = None)
                        /\ OwnRow(s, call'[b].seen)
                        /\ ~call'[b].overtaken => call'[b].seen = rows'[s]
    BY DEF FreshInv, OwnRow, Refused, Scope, Bound
<1> DEFINE t == call[b].tool
           s == Scope(b, t)
<1>1. CASE b = a
    <2>1. /\ ~Refused(b, t) /\ call[b].at = "guest" /\ tools' = tools /\ rows' = rows
          /\ call'[b].tool = t /\ call'[b].seen = rows[s]
        BY <1>1, Reading
    <2>2. s \in Scopes
        BY <2>1, Scoping DEF InGuest
    <2>3. OwnRow(s, rows[s])
        BY <2>2 DEF RowsInv
    <2> QED BY <2>1, <2>3 DEF Refused, Scope, Bound
<1>2. CASE b # a
    <2>1. /\ tools'[b] = tools[b] /\ call[b].at = "read" /\ call'[b].tool = t
          /\ call'[b].seen = call[b].seen /\ (call[b].overtaken => call'[b].overtaken)
        BY <1>2, Elsewhere
    <2>2. s \in Scopes
        BY <2>1, Scoping DEF InGuest
    <2>3. /\ ~Refused(b, t) /\ OwnRow(s, call[b].seen)
          /\ (~call[b].overtaken => call[b].seen = rows[s])
        BY <2>1 DEF FreshInv
    <2>4. ~call'[b].overtaken => rows'[s] = rows[s]
        <3>1. SUFFICES ASSUME ~call'[b].overtaken, rows' # rows PROVE rows'[s] = rows[s]
            OBVIOUS
        <3>2. PICK row \in Rendered(a) : GuestWrites(a, row)
            BY <1>2, <3>1, Elsewhere
        <3>3. Scope(a, call[a].tool) # s
            BY <1>2, <2>1, <3>1, Elsewhere
        <3>4. rows' = [rows EXCEPT ![Scope(a, call[a].tool)] = row]
            BY <3>2, Writing
        <3> HIDE DEF s
        <3> QED BY <1>0, <2>2, <3>3, <3>4
    <2>5. call'[b].seen = call[b].seen /\ (~call'[b].overtaken => call'[b].seen = rows'[s])
        BY <2>1, <2>3, <2>4, Zenon
    <2> QED BY <2>1, <2>3, <2>5 DEF Refused, Scope, Bound
<1> QED BY <1>1, <1>2

\* Only a write changes what is kept.
LEMMA KeptStep ==
    ASSUME TypeOK, BoundInv, ApartInv, CallInv, RowsInv, FreshInv, LostOnlyToARace,
           NEW a \in Agents, By(a)
    PROVE  LostOnlyToARace'
<1>0. rows \in [Scopes -> SUBSET Items] /\ kept \subseteq Scopes \X Items
    BY Typed
<1>1. \A k \in kept' : k[2] \in rows'[k[1]]
    <2>1. ASSUME NEW row \in Rendered(a), GuestWrites(a, row)
          PROVE  \A k \in kept' : k[2] \in rows'[k[1]]
        <3> DEFINE meant == ScopeAt(a, call[a].tool, call[a].session)
                   added == {<<meant, i>> : i \in row \cap {Item(a)}}
                   gone  == {k \in kept : /\ k[1] = meant /\ k[2] \notin row
                                          /\ k[2] \in call[a].seen \/ call[a].overtaken}
        <3>1. /\ call[a].at = "read" /\ Scope(a, call[a].tool) \in Scopes
              /\ rows' = [rows EXCEPT ![Scope(a, call[a].tool)] = row]
            BY <2>1, Writing
        <3>2. meant = Scope(a, call[a].tool)
            BY <3>1, Scoping DEF InGuest
        <3>3. kept' = (kept \ gone) \cup added
            BY <2>1 DEF GuestWrites
        <3>4. ~call[a].overtaken => call[a].seen = rows[meant]
            BY <3>1, <3>2 DEF FreshInv
        <3>5. \A k \in kept : k \in Scopes \X Items /\ k[2] \in rows[k[1]]
            BY <1>0 DEF LostOnlyToARace
        <3>6. rows'[meant] = row /\ \A s \in Scopes : s # meant => rows'[s] = rows[s]
            BY <1>0, <3>1, <3>2
        <3> HIDE DEF meant
        <3>7. ASSUME NEW k \in kept, k \notin gone PROVE k[2] \in rows'[k[1]]
            <4>1. CASE k[1] # meant
                BY <3>5, <3>6, <4>1
            <4>2. CASE k[1] = meant
                <5>1. k[2] \in row \/ (k[2] \notin call[a].seen /\ ~call[a].overtaken)
                    BY <3>7, <4>2
                <5>2. k[2] \in rows[meant]
                    BY <3>5, <4>2
                <5> QED BY <3>4, <3>6, <4>2, <5>1, <5>2
            <4> QED BY <4>1, <4>2
        <3>8. ASSUME NEW k \in added PROVE k[2] \in rows'[k[1]]
            BY <3>6
        <3> QED BY <3>3, <3>7, <3>8
    <2>2. ASSUME rows' = rows, kept' = kept PROVE \A k \in kept' : k[2] \in rows'[k[1]]
        BY <2>2 DEF LostOnlyToARace
    <2> QED BY <2>1, <2>2
        DEF By, BuildAgent, EndTurn, GuestAsks, DriverAnswers, GuestReturns, GuestReads, BeginTurn, Dispatch
<1>2. ASSUME NEW b \in Agents, call'[b].tool \in PerSession PROVE ~call'[b].overtaken
    <2>1. CASE b = a
        <3>1. call'[b].overtaken => call'[b].at = "read"
            BY <2>1, Here DEF Placed
        <3> QED BY <2>1, <3>1, Reading
    <2>2. CASE b # a
        <3>1. /\ call'[b].tool = call[b].tool
              /\ call'[b].overtaken # call[b].overtaken =>
                   /\ call[a].at = "read" /\ call[b].at = "read"
                   /\ Scope(b, call[b].tool) = Scope(a, call[a].tool)
            BY <2>2, Elsewhere
        <3>2. ~call[b].overtaken
            BY <1>2, <3>1 DEF LostOnlyToARace
        <3>3. ~(/\ call[a].at = "read" /\ call[b].at = "read"
                /\ Scope(b, call[b].tool) = Scope(a, call[a].tool))
            BY <1>2, <2>2, <3>1, Alone DEF InGuest
        <3> QED BY <3>1, <3>2, <3>3, Zenon
    <2> QED BY <2>1, <2>2
<1> QED BY <1>1, <1>2 DEF LostOnlyToARace

-----------------------------------------------------------------------------
(* Agents none of whose guests failed. *)

\* A fleet and registries that are whole, of an agent that has lost nothing.
Whole(f, r) ==
    /\ f.pending = IF Live(f) THEN <<>> ELSE ToolList
    /\ Live(f) => f.live.guests = ToolList
    /\ r.skills = SkillList /\ r.mcp = McpList

Shadowed == {NameOf[t] : t \in Tools} \cup UNION {OffersOf[r] : r \in Registries}

LEMMA EnsuringWhole ==
    ASSUME NEW f \in Fleets, NEW r \in Registered, Whole(f, r)
    PROVE  /\ Whole(Ensured(f, None), r) /\ Whole(f, RegEnsured(r, None))
           /\ Whole(Ensured(f, None), RegEnsured(r, None))
           /\ Live(Ensured(f, None)) /\ RegEnsured(r, None).live
<1> DEFINE g == Ensured(f, None)
           q == RegEnsured(r, None)
<1>1. /\ Live(g)
      /\ Live(f) => g = f
      /\ ~Live(f) /\ Live(g) => g.live.guests = f.pending /\ g.pending = <<>>
    BY Ensuring
<1>2. q = [r EXCEPT !.live = TRUE]
    BY RegEnsuring
<1> HIDE DEF g, q
<1>3. q.skills = r.skills /\ q.mcp = r.mcp /\ q.live
    BY <1>2 DEF Registered
<1>4. g.pending = <<>> /\ g.live.guests = ToolList
    BY <1>1 DEF Whole
<1>5. Whole(g, r) /\ Whole(f, q) /\ Whole(g, q) /\ Live(g) /\ q.live
    BY <1>1, <1>3, <1>4 DEF Whole
<1> QED BY <1>5 DEF g, q

\* The host's own tool is asked only for a name no extension of a whole fleet has.
LEMMA Consulted ==
    ASSUME NEW f \in Fleets, NEW r \in Registered, Whole(f, r), Live(f), NEW name,
           AnsweredBy(f, r, ToolNamed(f, name) = None /\ ~r.live, name) = "native"
    PROVE  name \notin Shadowed
<1>1. ToolNamed(f, name) = None
    BY DEF AnsweredBy
<1>2. \A t \in Tools : NameOf[t] # name
    <2>1. \A t \in Range(f.live.guests) : NameOf[t] # name
        BY <1>1, LookUp
    <2> QED BY <2>1, Guests DEF Whole
<1>3. r.live
    BY <1>1 DEF AnsweredBy
<1>4. ~RegistryOffers(r, name)
    BY <1>1, <1>3 DEF AnsweredBy
<1>5. \A g \in Registries : name \notin OffersOf[g]
    BY <1>3, <1>4 DEF RegistryOffers, Whole, Registries
<1> QED BY <1>2, <1>5 DEF Shadowed

LEMMA WholeStep ==
    ASSUME TypeOK, WholeOrEmpty, NativeNeverShadows, NEW a \in Agents, By(a)
    PROVE  WholeOrEmpty' /\ NativeNeverShadows'
<1>0. /\ tools \in [Agents -> Fleets] /\ regs \in [Agents -> Registered] /\ call \in [Agents -> Calls]
      /\ tools[a] \in Fleets /\ regs[a] \in Registered /\ call[a] \in Calls
    BY Typed
<1>1. broke \subseteq broke'
    BY DEF By, BuildAgent, EndTurn, GuestAsks, DriverAnswers, GuestReturns, GuestReads, GuestWrites,
           BeginTurn, Dispatch
<1>2. ASSUME NEW b \in Agents, b \notin broke
      PROVE  Whole(tools[b], regs[b]) /\ call[b].native \notin Shadowed
    BY <1>2 DEF WholeOrEmpty, NativeNeverShadows, Whole, Shadowed
<1>3. None \notin Shadowed
    BY FleetAssumption DEF Shadowed, Names
<1>4. ASSUME a \notin broke'
      PROVE  Whole(tools'[a], regs'[a]) /\ call'[a].native \notin Shadowed
    <2>0. Whole(tools[a], regs[a]) /\ call[a].native \notin Shadowed
        BY <1>1, <1>2, <1>4
    <2>1. CASE BuildAgent(a)
        <3>1. /\ tools'[a] \in {tools[a], Ensured(tools[a], None)}
              /\ regs'[a] \in {regs[a], RegEnsured(regs[a], None)} /\ call'[a] = Idle
            BY <1>0, <2>1 DEF BuildAgent
        <3>2. Whole(tools'[a], regs'[a])
            BY <1>0, <2>0, <3>1, EnsuringWhole
        <3> QED BY <1>3, <3>1, <3>2 DEF Idle
    <2>2. CASE \E s \in Sessions : BeginTurn(a, s)
        <3>1. PICK s \in Sessions : BeginTurn(a, s)
            BY <2>2
        <3>2. tools'[a] = BindSession(tools[a], s) /\ regs' = regs
              /\ call'[a] = [Idle EXCEPT !.at = "turn", !.session = s]
            BY <1>0, <3>1 DEF BeginTurn
        <3>3. tools'[a].live = tools[a].live /\ tools'[a].pending = tools[a].pending
            BY <1>0, <3>2, Binding
        <3>4. call'[a].native = None
            BY <3>2 DEF Idle
        <3> QED BY <1>3, <2>0, <3>2, <3>3, <3>4 DEF Whole, Live
    <2>3. ASSUME NEW name, NEW bad, NEW regBad, Dispatch(a, name, bad, regBad)
          PROVE  Whole(tools'[a], regs'[a]) /\ call'[a].native \notin Shadowed
        <3>1. bad = None /\ regBad = None
            BY <1>4, <2>3 DEF Dispatch
        <3> DEFINE f == Ensured(tools[a], None)
                   toRegistry == ToolNamed(f, name) = None
                   r == IF toRegistry THEN RegEnsured(regs[a], None) ELSE regs[a]
                   by == AnsweredBy(f, r, toRegistry /\ ~r.live, name)
                   native == IF by = "native" THEN name ELSE None
        <3>2. tools'[a] = f /\ regs'[a] = r
            BY <1>0, <2>3, <3>1 DEF Dispatch
        <3>3. f \in Fleets /\ Live(f) /\ RegEnsured(regs[a], None) \in Registered
            BY <1>0, <3>1, Ensuring, RegEnsuring
        <3>4. Whole(f, r) /\ r \in Registered
            BY <1>0, <2>0, <3>3, EnsuringWhole
        <3>5. by = "native" => name \notin Shadowed
            BY <3>3, <3>4, Consulted
        <3>6. PICK at, tool : call'[a] = [call[a] EXCEPT !.at = at, !.tool = tool, !.native = native]
            BY <1>0, <2>3, <3>1 DEF Dispatch
        <3> HIDE DEF f, r, by
        <3>7. native \notin Shadowed
            BY <1>3, <3>5
        <3> HIDE DEF native
        <3>8. call'[a].native = native
            BY <1>0, <3>6 DEF Calls
        <3> QED BY <3>2, <3>4, <3>7, <3>8
    <2>4. CASE EndTurn(a)
        BY <1>0, <1>3, <2>0, <2>4 DEF EndTurn, Idle
    <2>5. CASE \/ GuestAsks(a) \/ DriverAnswers(a) \/ GuestReturns(a) \/ GuestReads(a)
               \/ \E row \in Rendered(a) : GuestWrites(a, row)
        <3>1. UNCHANGED <<tools, regs>>
            BY <2>5 DEF GuestAsks, DriverAnswers, GuestReturns, GuestReads, GuestWrites
        <3>2. call'[a].native = call[a].native
            <4>1. Returned(a)[a].native = call[a].native
                BY Returning
            <4>2. CASE GuestAsks(a) \/ GuestReads(a)
                BY <1>0, <4>2 DEF GuestAsks, GuestReads, Calls
            <4>3. CASE GuestReturns(a) \/ \E row \in Rendered(a) : GuestWrites(a, row)
                BY <4>1, <4>3 DEF GuestReturns, GuestWrites
            <4>4. CASE DriverAnswers(a)
                <5>1. CASE call[a].asks + 1 = MaxAsks
                    BY <4>1, <4>4, <5>1 DEF DriverAnswers
                <5>2. CASE call[a].asks + 1 # MaxAsks
                    <6>1. call'[a] = [call[a] EXCEPT !.at = "guest", !.asks = call[a].asks + 1]
                        BY <1>0, <4>4, <5>2 DEF DriverAnswers
                    <6> QED BY <1>0, <6>1 DEF Calls
                <5> QED BY <5>1, <5>2
            <4> QED BY <2>5, <4>2, <4>3, <4>4
        <3> QED BY <2>0, <3>1, <3>2
    <2> QED BY <2>1, <2>2, <2>3, <2>4, <2>5 DEF By
<1>5. ASSUME NEW b \in Agents, b \notin broke'
      PROVE  Whole(tools'[b], regs'[b]) /\ call'[b].native \notin Shadowed
    <2>1. CASE b = a
        BY <1>4, <1>5, <2>1
    <2>2. CASE b # a
        BY <1>1, <1>2, <1>5, <2>2, Elsewhere
    <2> QED BY <2>1, <2>2
<1> QED BY <1>5 DEF WholeOrEmpty, NativeNeverShadows, Whole, Shadowed, Live

-----------------------------------------------------------------------------
(* The invariant. *)

LEMMA Initially == Init => IInv
<1> SUFFICES ASSUME Init PROVE IInv
    OBVIOUS
<1>1. TypeOK
    BY TypeInit
<1>2. \A a \in Agents : /\ call[a].at = "unbuilt" /\ call[a].session = None /\ call[a].tool = None
                        /\ call[a].overtaken = FALSE /\ call[a].native = None
    BY DEF Init, Idle
<1>3. BoundInv /\ ApartInv /\ CallInv /\ FreshInv
    BY <1>2 DEF BoundInv, ApartInv, CallInv, FreshInv, InTurn, InGuest
<1>4. RowsInv
    BY DEF Init, RowsInv, OwnRow
<1>5. LostOnlyToARace
    BY <1>2 DEF Init, LostOnlyToARace
<1>6. WholeOrEmpty
    BY DEF Init, WholeOrEmpty, Live
<1>7. NativeNeverShadows
    BY <1>2, FleetAssumption DEF NativeNeverShadows, Names
<1> QED BY <1>1, <1>3, <1>4, <1>5, <1>6, <1>7 DEF IInv

LEMMA Inductive == IInv /\ [Next]_vars => IInv'
<1> SUFFICES ASSUME IInv, [Next]_vars PROVE IInv'
    OBVIOUS
<1>1. TypeOK /\ BoundInv /\ ApartInv /\ CallInv /\ RowsInv /\ FreshInv
      /\ LostOnlyToARace /\ WholeOrEmpty /\ NativeNeverShadows
    BY DEF IInv
<1>2. TypeOK' /\ BoundInv' /\ ApartInv' /\ CallInv'
    BY <1>1, TypeStep, CallStep
<1>3. CASE UNCHANGED vars
    <2>1. RowsInv' /\ FreshInv'
        BY <1>1, <1>3 DEF vars, RowsInv, FreshInv, OwnRow, Refused, Scope, Bound
    <2>2. LostOnlyToARace' /\ WholeOrEmpty' /\ NativeNeverShadows'
        BY <1>1, <1>3 DEF vars, LostOnlyToARace, WholeOrEmpty, NativeNeverShadows, Live
    <2> QED BY <1>2, <2>1, <2>2 DEF IInv
<1>4. CASE \E a \in Agents : By(a)
    BY <1>1, <1>2, <1>4, RowStep, FreshStep, KeptStep, WholeStep DEF IInv
<1> QED BY <1>3, <1>4 DEF Next, By

LEMMA Invariant == Spec => []IInv
BY Initially, Inductive, PTL DEF Spec

\* TypeOK for every number of agents, sessions and guests.
THEOREM TypeCorrect == Spec => []TypeOK
<1>1. IInv => TypeOK
    BY DEF IInv
<1> QED BY <1>1, Invariant, PTL

\* A guest reads what guests of its id wrote: in turns of the session it is in when it is
\* session-scoped, and in its own agent when it is not durable, however instances are shared
\* between sessions (GuestStorage::scope, bind_session).
THEOREM GuestsSeeTheirOwn == Spec => []SeesItsOwn
<1>1. ASSUME IInv PROVE SeesItsOwn
    <2>1. TypeOK /\ BoundInv /\ CallInv /\ FreshInv
        BY <1>1 DEF IInv
    <2> SUFFICES ASSUME NEW a \in Agents, call[a].at = "read", NEW i \in call[a].seen
                 PROVE  /\ i.tool = call[a].tool
                        /\ call[a].tool \in PerSession => i.session = call[a].session
                        /\ call[a].tool \notin Durable => i.agent = a
        BY DEF SeesItsOwn
    <2> DEFINE s == ScopeAt(a, call[a].tool, call[a].session)
    <2>2. Scope(a, call[a].tool) = s /\ call[a].session # None
        BY <2>1, Scoping DEF InGuest
    <2>3. OwnRow(s, call[a].seen)
        BY <2>1, <2>2 DEF FreshInv
    <2>4. /\ s.owner = call[a].tool
          /\ s.session = IF call[a].tool \in PerSession THEN call[a].session ELSE None
          /\ s.agent = IF call[a].tool \in Durable THEN None ELSE a
        BY DEF ScopeAt
    <2> QED BY <2>2, <2>3, <2>4, FleetAssumption DEF OwnRow
<1> QED BY <1>1, Invariant, PTL

\* An addition that was acknowledged stays until a guest clears it, or a write that another
\* agent's write overtook runs over it; a session-scoped guest is in no such race.
THEOREM OnlyRacesLose == Spec => []LostOnlyToARace
<1>1. IInv => LostOnlyToARace
    BY DEF IInv
<1> QED BY <1>1, Invariant, PTL

\* A fleet comes alive whole, unless some guest of its agent failed to instantiate (`ensure`).
THEOREM FleetsAreWhole == Spec => []WholeOrEmpty
<1>1. IInv => WholeOrEmpty
    BY DEF IInv
<1> QED BY <1>1, Invariant, PTL

\* The host's own tools answer no name an extension has, in such an agent (CombinedFleet).
THEOREM NativeComesLast == Spec => []NativeNeverShadows
<1>1. IInv => NativeNeverShadows
    BY DEF IInv
<1> QED BY <1>1, Invariant, PTL

-----------------------------------------------------------------------------
(* The child processes of a tool. *)

\* What was taken of a pipe had been written to it.
PipesInv ==
    /\ wrote \in [HP!Procs -> [HP!Streams -> Nat]] /\ got \in [HP!Procs -> [HP!Streams -> Nat]]
    /\ \A p \in HP!Procs, s \in HP!Streams : got[p][s] <= wrote[p][s]
    /\ lo \in [HP!Handles -> Nat]

\* exec reads when its child has exited, standard error once it is done with the output.
ReadingInv ==
    /\ doingCall.op \in {"out", "err"} => 0 \notin alive
    /\ doingCall.op = "err" => HP!FullyRead("out")

\* While its result stands nothing is read, and what was left unread is beyond the cap.
ReadInv == last.result = "exit" =>
    /\ doingCall.op \notin HP!ExecOps /\ 0 \notin alive
    /\ \A s \in HP!Streams : HP!FullyRead(s)
    /\ last.out = HP!Kept(0, "out") /\ last.err = HP!Kept(0, "err")
    /\ last.cut = {s \in HP!Streams : got[0][s] > Cap}

\* The thread of a child's stderr ends when nothing more can come.
TailInv == \A h \in tail : h <= next /\ HP!Drained(h, "err")

ProcessInv ==
    /\ HP!TypeOK /\ PipesInv /\ ReadingInv /\ ReadInv /\ TailInv /\ HP!StaleIsDead

LEMMA Bounds == {MaxSpawns, Pipe, Cap, MaxIn} \subseteq Nat
BY HostProcessAssumption

LEMMA ProcessesStart ==
    ASSUME HP!Init
    PROVE  ProcessInv
<1>1. HP!TypeOK
  BY HostProcessAssumption DEF HP!Init, HP!TypeOK, HP!Idle, HP!NoExit, HP!Procs, HP!Handles, HP!Streams, HP!Silent
<1>2. PipesInv
  BY DEF HP!Init, PipesInv
<1> QED
  BY <1>1, <1>2 DEF HP!Init, ProcessInv, ReadingInv, ReadInv, TailInv, HP!StaleIsDead, HP!Idle, HP!NoExit, HP!ExecOps

\* What a child does to its pipes, and its exit.
LEMMA ChildStep ==
    ASSUME ProcessInv, NEW p \in HP!Procs, HP!Child(p)
    PROVE  ProcessInv'
<1> USE DEF HP!Streams, HP!Procs, HP!Handles, HP!Open, HP!Drained, HP!FullyRead, HP!Kept
<1>0. HP!TypeOK /\ PipesInv /\ ReadingInv /\ ReadInv /\ TailInv /\ HP!StaleIsDead
  BY DEF ProcessInv
<1>1. ASSUME NEW s \in HP!Streams, HP!Writes(p, s)
      PROVE  ProcessInv'
  <2> USE <1>1 DEF HP!Writes
  <2>1. PipesInv' /\ wrote'[p][s] = wrote[p][s] + 1
    BY <1>0 DEF PipesInv
  <2>2. \A q \in HP!Procs, t \in HP!Streams : q # p \/ t # s => wrote'[q][t] = wrote[q][t]
    BY <1>0 DEF PipesInv
  <2>3. HP!TypeOK'
    <3>1. \A q \in HP!Procs, t \in HP!Streams : wrote'[q][t] - got[q][t] \in 0..Pipe
      <4> SUFFICES ASSUME NEW q \in HP!Procs, NEW t \in HP!Streams
                   PROVE  wrote'[q][t] - got[q][t] \in 0..Pipe
        OBVIOUS
      <4>1. wrote[q][t] - got[q][t] \in 0..Pipe /\ wrote[q][t] \in Nat /\ got[q][t] \in Nat
        BY <1>0 DEF HP!TypeOK, PipesInv
      <4> QED
        BY <4>1, <2>1, <2>2, HostProcessAssumption
    <3> QED
      BY <1>0, <3>1 DEF HP!TypeOK
  <2>4. ReadingInv'
    BY <1>0, <2>1, <2>2, HostProcessAssumption DEF ReadingInv
  <2>5. ReadInv'
    BY <1>0, <2>1, <2>2, HostProcessAssumption DEF ReadInv
  <2>6. TailInv' /\ HP!StaleIsDead'
    <3>1. tail \subseteq HP!Procs
      BY <1>0 DEF HP!TypeOK
    <3> QED
      BY <1>0, <2>1, <2>2, <3>1 DEF TailInv, HP!StaleIsDead
  <2> QED
    BY <2>1, <2>3, <2>4, <2>5, <2>6 DEF ProcessInv
<1>2. ASSUME HP!Reads(p)
      PROVE  ProcessInv'
  <2> USE <1>2 DEF HP!Reads
  <2>1. stdin' \in [HP!Procs -> 0..Pipe]
    <3>1. stdin[p] \in 0..Pipe /\ Pipe \in Nat
      BY <1>0, HostProcessAssumption DEF HP!TypeOK
    <3>2. stdin[p] # 0
      OBVIOUS
    <3>3. stdin[p] - 1 \in 0..Pipe
      BY <3>1, <3>2
    <3> QED
      BY <1>0, <3>3 DEF HP!TypeOK
  <2>2. HP!TypeOK'
    BY <1>0, <2>1 DEF HP!TypeOK
  <2> QED
    BY <1>0, <2>2 DEF ProcessInv, PipesInv, ReadingInv, ReadInv, TailInv, HP!StaleIsDead
<1>3. ASSUME HP!LeavesAHolder(p) \/ HP!Exits(p)
      PROVE  ProcessInv'
  <2> USE <1>3 DEF HP!LeavesAHolder, HP!Exits
  <2>1. HP!TypeOK' /\ PipesInv'
    BY <1>0 DEF HP!TypeOK, PipesInv
  <2>2. ReadingInv' /\ ReadInv'
    BY <1>0 DEF ReadingInv, ReadInv
  <2>3. TailInv' /\ HP!StaleIsDead'
    BY <1>0 DEF TailInv, HP!StaleIsDead
  <2> QED
    BY <2>1, <2>2, <2>3 DEF ProcessInv
<1> QED
  BY <1>1, <1>2, <1>3 DEF HP!Child

\* The calls that leave the pipes alone: a refusal, the end of a wait, the use of a handle.
LEMMA CallsStep ==
    ASSUME ProcessInv,
           \/ HP!ExecRefused \/ HP!SeesExit \/ HP!Deadline
           \/ \E h \in HP!Handles, op \in {"write", "read", "look"} : HP!Call(op, h)
    PROVE  ProcessInv'
<1> USE DEF HP!Streams, HP!Procs, HP!Handles, HP!Open, HP!Drained, HP!FullyRead, HP!Kept
<1>0. HP!TypeOK /\ PipesInv /\ ReadingInv /\ ReadInv /\ TailInv /\ HP!StaleIsDead
  BY DEF ProcessInv
<1>c. doingCall \in [op : HP!ExecOps \cup {"idle", "dropped", "write", "read", "look"},
                    child : HP!Procs, left : 0..MaxIn]
  BY <1>0 DEF HP!TypeOK
<1>1. ASSUME HP!ExecRefused
      PROVE  ProcessInv'
  <2>1. PICK why \in {"denied", "spawn-failed"} : last' = [HP!NoExit EXCEPT !.result = why]
    BY <1>1 DEF HP!ExecRefused, HP!Returns
  <2>2. last'.result = why
    BY <2>1 DEF HP!NoExit
  <2>3. /\ doingCall = HP!Idle /\ doingCall' = HP!Idle
        /\ UNCHANGED <<alive, holding, stdin, wrote, got, lo, tail, handles, next, said>>
    BY <1>1 DEF HP!ExecRefused, HP!Returns, HP!pipes, HP!children
  <2>4. HP!TypeOK'
    BY <1>0, <2>2, <2>3 DEF HP!TypeOK
  <2> QED
    BY <1>0, <2>2, <2>3, <2>4
    DEF ProcessInv, PipesInv, TailInv, HP!StaleIsDead, ReadingInv, ReadInv
<1>2. ASSUME HP!SeesExit
      PROVE  ProcessInv'
  <2> USE <1>2 DEF HP!SeesExit, HP!pipes, HP!children
  <2>1. doingCall' = [doingCall EXCEPT !.op = "out"] /\ doingCall'.op = "out"
    BY <1>0 DEF HP!TypeOK
  <2>2. HP!TypeOK'
    BY <1>0, <2>1 DEF HP!TypeOK, HP!ExecOps
  <2> QED
    BY <1>0, <2>1, <2>2
    DEF ProcessInv, PipesInv, TailInv, HP!StaleIsDead, ReadingInv, ReadInv, HP!ExecOps
<1>3. ASSUME HP!Deadline
      PROVE  ProcessInv'
  <2>1. last'.result = "timeout" /\ doingCall' = HP!Idle /\ alive' = alive \ {0}
    BY <1>3 DEF HP!Deadline, HP!Returns, HP!NoExit
  <2>2. UNCHANGED <<holding, stdin, wrote, got, lo, tail, handles, next, said>>
    BY <1>3 DEF HP!Deadline, HP!pipes, HP!children
  <2>3. HP!TypeOK'
    <3>1. HP!Idle \in [op : {"idle"}, child : 0..MaxSpawns, left : 0..MaxIn]
      BY Bounds DEF HP!Idle
    <3> QED
      BY <1>0, <2>1, <2>2, <3>1 DEF HP!TypeOK
  <2> QED
    BY <1>0, <2>1, <2>2, <2>3
    DEF ProcessInv, PipesInv, TailInv, HP!StaleIsDead, ReadingInv, ReadInv, HP!Idle
<1>4. ASSUME NEW h \in HP!Handles, NEW op \in {"write", "read", "look"}, HP!Call(op, h)
      PROVE  ProcessInv'
  <2> USE <1>4 DEF HP!Call, HP!pipes, HP!children
  <2>1. doingCall' \in [op : {"write", "read", "look"}, child : HP!Procs, left : 0..MaxIn]
    BY Bounds
  <2>2. HP!TypeOK'
    BY <1>0, <2>1 DEF HP!TypeOK
  <2> QED
    BY <1>0, <2>1, <2>2
    DEF ProcessInv, PipesInv, TailInv, HP!StaleIsDead, ReadingInv, ReadInv, HP!ExecOps
<1> QED
  BY <1>1, <1>2, <1>3, <1>4

\* exec begins and feeds; a call on a handle writes, reads or looks, and is over.
LEMMA FeedStep ==
    ASSUME ProcessInv, (\E n \in 0..MaxIn : HP!Exec(n)) \/ HP!Feed \/ HP!WriteStdin \/ HP!ReadStdout
    PROVE  ProcessInv'
<1> USE DEF HP!Streams, HP!Procs, HP!Handles, HP!Open, HP!Drained, HP!FullyRead, HP!Kept
<1>0. HP!TypeOK /\ PipesInv /\ ReadingInv /\ ReadInv /\ TailInv /\ HP!StaleIsDead
  BY DEF ProcessInv
<1>c. doingCall \in [op : HP!ExecOps \cup {"idle", "dropped", "write", "read", "look"},
                    child : HP!Procs, left : 0..MaxIn]
  BY <1>0 DEF HP!TypeOK
<1>s. stdin \in [HP!Procs -> 0..Pipe]
  BY <1>0 DEF HP!TypeOK
<1>i. HP!Idle \in [op : {"idle"}, child : 0..MaxSpawns, left : 0..MaxIn]
  BY Bounds DEF HP!Idle
<1>1. ASSUME NEW n \in 0..MaxIn, HP!Exec(n)
      PROVE  ProcessInv'
  <2> USE <1>1 DEF HP!Exec, HP!children
  <2>1. /\ last'.result = "none" /\ doingCall'.op = "feed"
        /\ doingCall' \in [op : {"feed"}, child : {0}, left : 0..MaxIn]
    BY DEF HP!NoExit
  <2>2. \A p \in HP!Procs, t \in HP!Streams :
           /\ p # 0 => wrote'[p] = wrote[p] /\ got'[p] = got[p]
           /\ p = 0 => wrote'[p][t] = 0 /\ got'[p][t] = 0
    BY <1>0 DEF PipesInv
  <2>3. wrote' \in [HP!Procs -> [HP!Streams -> Nat]] /\ got' \in [HP!Procs -> [HP!Streams -> Nat]]
    BY <1>0 DEF PipesInv
  <2>4. PipesInv'
    BY <1>0, <2>2, <2>3 DEF PipesInv
  <2>5. HP!TypeOK'
    <3>1. \A q \in HP!Procs, t \in HP!Streams : wrote[q][t] - got[q][t] \in 0..Pipe
      BY <1>0 DEF HP!TypeOK
    <3>2. \A q \in HP!Procs, t \in HP!Streams : wrote'[q][t] - got'[q][t] \in 0..Pipe
      BY <2>2, <3>1, Bounds
    <3>3. stdin' \in [HP!Procs -> 0..Pipe]
      BY <1>s, Bounds
    <3>4. alive' \subseteq HP!Procs /\ doingCall' \in [op : {"feed"}, child : HP!Procs, left : 0..MaxIn]
      BY <1>0, <2>1, Bounds DEF HP!TypeOK
    <3>5. \A h \in HP!Handles : got'[h]["out"] - lo'[h] \in 0..Cap
      BY <1>0, <2>2 DEF HP!TypeOK
    <3> QED
      BY <1>0, <2>1, <3>2, <3>3, <3>4, <3>5 DEF HP!TypeOK, HP!ExecOps
  <2>6. TailInv' /\ HP!StaleIsDead'
    <3>1. tail \subseteq HP!Handles
      BY <1>0 DEF HP!TypeOK
    <3> QED
      BY <1>0, <2>2, <3>1 DEF TailInv, HP!StaleIsDead
  <2> QED
    BY <2>1, <2>4, <2>5, <2>6 DEF ProcessInv, ReadingInv, ReadInv
<1>2. ASSUME HP!Feed
      PROVE  ProcessInv'
  <2> USE <1>2 DEF HP!Feed, HP!pipes, HP!children
  <2>1. stdin' \in [HP!Procs -> 0..Pipe]
    BY <1>s, Bounds
  <2>2. doingCall'.op \in {"feed", "wait"}
    BY <1>c
  <2>3. doingCall' \in [op : HP!ExecOps, child : HP!Procs, left : 0..MaxIn]
    <3>1. CASE doingCall' = [doingCall EXCEPT !.left = @ - 1] /\ doingCall.left > 0
      BY <1>c, <3>1, Bounds DEF HP!ExecOps
    <3>2. CASE doingCall' = [doingCall EXCEPT !.op = "wait", !.left = 0]
      <4>1. doingCall' = [op |-> "wait", child |-> doingCall.child, left |-> 0]
        BY <1>c, <3>2
      <4> QED
        BY <1>c, <4>1, Bounds DEF HP!ExecOps
    <3> QED
      BY <3>1, <3>2
  <2>4. HP!TypeOK'
    BY <1>0, <2>1, <2>3 DEF HP!TypeOK
  <2> QED
    BY <1>0, <2>2, <2>4
    DEF ProcessInv, PipesInv, TailInv, HP!StaleIsDead, ReadingInv, ReadInv, HP!ExecOps
<1>3. ASSUME HP!WriteStdin
      PROVE  ProcessInv'
  <2> USE <1>3 DEF HP!WriteStdin, HP!pipes, HP!children
  <2>1. stdin' \in [HP!Procs -> 0..Pipe]
    BY <1>s, Bounds
  <2>2. HP!TypeOK'
    BY <1>0, <1>i, <2>1 DEF HP!TypeOK
  <2> QED
    BY <1>0, <1>i, <2>2
    DEF ProcessInv, PipesInv, TailInv, HP!StaleIsDead, ReadingInv, ReadInv, HP!ExecOps
<1>4. ASSUME HP!ReadStdout
      PROVE  ProcessInv'
  <2> USE <1>4 DEF HP!ReadStdout, HP!children
  <2> DEFINE h == doingCall.child
  <2>1. \A c \in HP!Handles : got[c]["out"] - lo[c] \in 0..Cap
    BY <1>0 DEF HP!TypeOK
  <2>a. \A c \in HP!Handles : got[c]["out"] \in Nat /\ lo[c] \in Nat
    BY <1>0 DEF PipesInv
  <2>2. /\ lo' \in [HP!Handles -> Nat]
        /\ \A c \in HP!Handles : got[c]["out"] - lo'[c] \in 0..Cap
    <3>1. CASE UNCHANGED lo
      BY <1>0, <2>1, <3>1 DEF PipesInv
    <3>2. ASSUME NEW k \in 1..(got[h]["out"] - lo[h]), lo' = [lo EXCEPT ![h] = @ + k]
          PROVE  /\ lo' \in [HP!Handles -> Nat]
                 /\ \A c \in HP!Handles : got[c]["out"] - lo'[c] \in 0..Cap
      <4>1. CASE h \in HP!Handles
        <5>1. lo'[h] = lo[h] + k /\ \A c \in HP!Handles \ {h} : lo'[c] = lo[c]
          BY <1>0, <3>2, <4>1 DEF PipesInv
        <5>2. lo'[h] \in Nat /\ got[h]["out"] - lo'[h] \in 0..Cap
          BY <2>1, <2>a, <4>1, <5>1, Bounds
        <5> QED
          BY <1>0, <2>1, <3>2, <5>1, <5>2 DEF PipesInv
      <4>2. CASE h \notin HP!Handles
        BY <1>0, <2>1, <3>2, <4>2 DEF PipesInv
      <4> QED
        BY <4>1, <4>2
    <3> QED
      BY <3>1, <3>2
  <2>3. HP!TypeOK'
    BY <1>0, <1>i, <2>2 DEF HP!TypeOK
  <2> QED
    BY <1>0, <1>i, <2>2, <2>3
    DEF ProcessInv, PipesInv, TailInv, HP!StaleIsDead, ReadingInv, ReadInv, HP!ExecOps
<1> QED
  BY <1>1, <1>2, <1>3, <1>4, Zenon

\* What is read of a pipe, by exec and by the two threads of a child, and what it then holds.
LEMMA ReadStep ==
    ASSUME ProcessInv,
           \/ \E s \in HP!Streams : HP!ReadExec(s) \/ HP!ReadDone(s)
           \/ \E h \in HP!Handles : HP!ReadsStdout(h) \/ HP!ReadsStderr(h)
    PROVE  ProcessInv'
<1> USE DEF HP!Streams, HP!Procs, HP!Handles, HP!Open, HP!Drained, HP!FullyRead, HP!Kept
<1>0. HP!TypeOK /\ PipesInv /\ ReadingInv /\ ReadInv /\ TailInv /\ HP!StaleIsDead
  BY DEF ProcessInv
<1>c. doingCall \in [op : HP!ExecOps \cup {"idle", "dropped", "write", "read", "look"},
                    child : HP!Procs, left : 0..MaxIn]
  BY <1>0 DEF HP!TypeOK
<1>d. /\ tail \subseteq HP!Handles
      /\ \A q \in HP!Procs, t \in HP!Streams : wrote[q][t] - got[q][t] \in 0..Pipe
      /\ \A h \in HP!Handles : got[h]["out"] - lo[h] \in 0..Cap
  BY <1>0 DEF HP!TypeOK
<1>p. \A q \in HP!Procs, t \in HP!Streams : wrote[q][t] \in Nat /\ got[q][t] \in Nat
  BY <1>0 DEF PipesInv
<1>i. HP!Idle \in [op : {"idle"}, child : 0..MaxSpawns, left : 0..MaxIn]
  BY Bounds DEF HP!Idle
\* One chunk more.
<1>r. \A p \in HP!Procs, s \in HP!Streams :
        got[p][s] < wrote[p][s] /\ got' = [got EXCEPT ![p][s] = @ + 1] =>
          /\ got'[p][s] = got[p][s] + 1
          /\ \A q \in HP!Procs, t \in HP!Streams : q # p \/ t # s => got'[q][t] = got[q][t]
          /\ got' \in [HP!Procs -> [HP!Streams -> Nat]]
          /\ \A q \in HP!Procs, t \in HP!Streams :
               got'[q][t] <= wrote[q][t] /\ wrote[q][t] - got'[q][t] \in 0..Pipe
  <2> TAKE p \in HP!Procs, s \in HP!Streams
  <2> HAVE got[p][s] < wrote[p][s] /\ got' = [got EXCEPT ![p][s] = @ + 1]
  <2>1. /\ got'[p][s] = got[p][s] + 1 /\ got' \in [HP!Procs -> [HP!Streams -> Nat]]
        /\ \A q \in HP!Procs, t \in HP!Streams : q # p \/ t # s => got'[q][t] = got[q][t]
    BY <1>0 DEF PipesInv
  <2>2. got'[p][s] <= wrote[p][s] /\ wrote[p][s] - got'[p][s] \in 0..Pipe
    <3>1. wrote[p][s] \in Nat /\ got[p][s] \in Nat /\ wrote[p][s] - got[p][s] \in 0..Pipe
      BY <1>d, <1>p
    <3> QED
      BY <2>1, <3>1, Bounds
  <2> QED
    BY <1>0, <1>d, <2>1, <2>2 DEF PipesInv
<1>1. ASSUME NEW s \in HP!Streams, HP!ReadExec(s)
      PROVE  ProcessInv'
  <2> USE <1>1 DEF HP!ReadExec, HP!children
  <2>1. /\ got'[0][s] = got[0][s] + 1
        /\ \A q \in HP!Procs, t \in HP!Streams : q # 0 \/ t # s => got'[q][t] = got[q][t]
        /\ got' \in [HP!Procs -> [HP!Streams -> Nat]]
        /\ \A q \in HP!Procs, t \in HP!Streams :
             got'[q][t] <= wrote[q][t] /\ wrote[q][t] - got'[q][t] \in 0..Pipe
    <3>1. got[0][s] < wrote[0][s] /\ got' = [got EXCEPT ![0][s] = @ + 1] /\ 0 \in HP!Procs
      BY Bounds
    <3> QED
      BY <1>r, <3>1, Zenon
  <2>2. HP!TypeOK'
    <3>1. \A h \in HP!Handles : got'[h]["out"] - lo[h] \in 0..Cap
      BY <1>d, <2>1
    <3> QED
      BY <1>0, <2>1, <3>1 DEF HP!TypeOK
  <2>3. PipesInv' /\ TailInv'
    BY <1>0, <1>d, <2>1 DEF PipesInv, TailInv
  <2>4. ReadingInv' /\ ReadInv'
    BY <1>0, <1>p, <2>1, Bounds DEF ReadingInv, ReadInv, HP!ExecOps
  <2> QED
    BY <1>0, <2>2, <2>3, <2>4 DEF ProcessInv, HP!StaleIsDead
<1>2. ASSUME HP!ReadDone("out")
      PROVE  ProcessInv'
  <2> USE <1>2 DEF HP!ReadDone, HP!pipes, HP!children
  <2>1. doingCall'.op = "err" /\ doingCall' \in [op : {"err"}, child : HP!Procs, left : 0..MaxIn]
    BY <1>c
  <2>2. HP!TypeOK'
    BY <1>0, <2>1 DEF HP!TypeOK, HP!ExecOps
  <2> QED
    BY <1>0, <2>1, <2>2
    DEF ProcessInv, PipesInv, TailInv, HP!StaleIsDead, ReadingInv, ReadInv, HP!ExecOps
<1>3. ASSUME HP!ReadDone("err")
      PROVE  ProcessInv'
  <2> USE <1>3 DEF HP!ReadDone, HP!Returns, HP!pipes, HP!children
  <2>1. HP!TypeOK'
    BY <1>0, <1>i DEF HP!TypeOK
  <2> QED
    BY <1>0, <1>i, <2>1
    DEF ProcessInv, PipesInv, TailInv, HP!StaleIsDead, ReadingInv, ReadInv, HP!ExecOps
<1>4. ASSUME NEW h \in HP!Handles, HP!ReadsStdout(h)
      PROVE  ProcessInv'
  <2> USE <1>4 DEF HP!ReadsStdout, HP!children
  <2>1. /\ got'[h]["out"] = got[h]["out"] + 1
        /\ \A q \in HP!Procs, t \in HP!Streams : q # h \/ t # "out" => got'[q][t] = got[q][t]
        /\ got' \in [HP!Procs -> [HP!Streams -> Nat]]
        /\ \A q \in HP!Procs, t \in HP!Streams :
             got'[q][t] <= wrote[q][t] /\ wrote[q][t] - got'[q][t] \in 0..Pipe
    <3>1. got[h]["out"] < wrote[h]["out"] /\ got' = [got EXCEPT ![h]["out"] = @ + 1]
          /\ h \in HP!Procs
      OBVIOUS
    <3> QED
      BY <1>r, <3>1, Zenon
  <2>2. /\ lo' \in [HP!Handles -> Nat] /\ \A c \in HP!Handles \ {h} : lo'[c] = lo[c]
        /\ got'[h]["out"] - lo'[h] \in 0..Cap
    <3>1. lo[h] \in Nat /\ got[h]["out"] - lo[h] \in 0..Cap /\ got[h]["out"] \in Nat
      BY <1>0, <1>d, <1>p DEF PipesInv
    <3>2. /\ lo'[h] = IF got'[h]["out"] - lo[h] > Cap THEN got'[h]["out"] - Cap ELSE lo[h]
          /\ \A c \in HP!Handles \ {h} : lo'[c] = lo[c]
      BY <1>0 DEF PipesInv
    <3>3. lo'[h] \in Nat /\ got'[h]["out"] - lo'[h] \in 0..Cap
      BY <2>1, <3>1, <3>2, Bounds
    <3> QED
      BY <1>0, <3>2, <3>3 DEF PipesInv
  <2>3. HP!TypeOK'
    <3>1. \A c \in HP!Handles : got'[c]["out"] - lo'[c] \in 0..Cap
      BY <1>d, <2>1, <2>2
    <3> QED
      BY <1>0, <2>1, <3>1 DEF HP!TypeOK
  <2>4. PipesInv' /\ TailInv' /\ HP!StaleIsDead'
    BY <1>0, <1>d, <2>1, <2>2 DEF PipesInv, TailInv, HP!StaleIsDead
  <2>5. ReadingInv' /\ ReadInv'
    BY <1>0, <2>1, Bounds DEF ReadingInv, ReadInv
  <2> QED
    BY <2>3, <2>4, <2>5 DEF ProcessInv
<1>5. ASSUME NEW h \in HP!Handles, HP!ReadsStderr(h)
      PROVE  ProcessInv'
  <2> USE <1>5 DEF HP!ReadsStderr, HP!children
  <2>1. CASE h <= next /\ h \notin tail /\ HP!Drained(h, "err") /\ tail' = tail \cup {h} /\ UNCHANGED got
    BY <1>0, <2>1 DEF ProcessInv, HP!TypeOK, PipesInv, ReadingInv, ReadInv, TailInv, HP!StaleIsDead
  <2>2. CASE /\ got[h]["err"] < wrote[h]["err"] /\ got' = [got EXCEPT ![h]["err"] = @ + 1]
             /\ UNCHANGED tail
    <3>1. /\ got'[h]["err"] = got[h]["err"] + 1
          /\ \A q \in HP!Procs, t \in HP!Streams : q # h \/ t # "err" => got'[q][t] = got[q][t]
          /\ got' \in [HP!Procs -> [HP!Streams -> Nat]]
          /\ \A q \in HP!Procs, t \in HP!Streams :
               got'[q][t] <= wrote[q][t] /\ wrote[q][t] - got'[q][t] \in 0..Pipe
      <4>1. h \in HP!Procs /\ "err" \in HP!Streams
        OBVIOUS
      <4> QED
        BY <1>r, <2>2, <4>1, Zenon
    <3>2. HP!TypeOK'
      <4>1. \A c \in HP!Handles : got'[c]["out"] - lo[c] \in 0..Cap
        BY <1>d, <3>1
      <4> QED
        BY <1>0, <2>2, <3>1, <4>1 DEF HP!TypeOK
    <3>3. h \notin tail
      BY <1>0, <2>2, <1>p DEF TailInv
    <3>4. PipesInv' /\ TailInv' /\ HP!StaleIsDead'
      BY <1>0, <1>d, <2>2, <3>1, <3>3 DEF PipesInv, TailInv, HP!StaleIsDead
    <3>5. ReadingInv' /\ ReadInv'
      BY <1>0, <2>2, <3>1, Bounds DEF ReadingInv, ReadInv
    <3> QED
      BY <3>2, <3>4, <3>5 DEF ProcessInv
  <2> QED
    BY <2>1, <2>2
<1> QED
  BY <1>1, <1>2, <1>3, <1>4, <1>5 DEF HP!ReadDone, HP!ReadExec

\* A look reports a death once, with all that came before the thread ended.
LEMMA LookStep ==
    ASSUME ProcessInv, HP!IsRunning
    PROVE  /\ ProcessInv'
           /\ \A h \in HP!Handles : said[h] = HP!Silent /\ said'[h] # HP!Silent /\ h \notin holding
                => said'[h] = HP!Smaller(wrote[h]["err"], Cap)
<1> DEFINE h == doingCall.child
<1> USE DEF HP!Streams, HP!Procs, HP!Handles, HP!Open, HP!Drained
<1>0. HP!TypeOK /\ PipesInv /\ ReadingInv /\ ReadInv /\ TailInv /\ HP!StaleIsDead
  BY DEF ProcessInv
<1>1. /\ doingCall' = HP!Idle
      /\ UNCHANGED <<alive, holding, stdin, wrote, got, lo, tail, handles, next, last>>
  BY DEF HP!IsRunning, HP!pipes
<1>2. \/ UNCHANGED said
      \/ said' = [said EXCEPT ![h] = HP!Kept(h, "err")] /\ h \in tail
      \/ said' = [said EXCEPT ![h] = 0] /\ h \in holding
  BY DEF HP!IsRunning
<1>3. said \in [HP!Handles -> HP!Silent..Cap] /\ tail \subseteq HP!Handles
  BY <1>0 DEF HP!TypeOK
<1>4. \A c \in tail : HP!Kept(c, "err") = HP!Smaller(wrote[c]["err"], Cap) /\ HP!Kept(c, "err") \in 0..Cap
  <2> TAKE c \in tail
  <2>1. got[c]["err"] = wrote[c]["err"] /\ got[c]["err"] \in Nat
    BY <1>0, <1>3 DEF TailInv, PipesInv
  <2> QED
    BY <2>1, Bounds DEF HP!Kept, HP!Smaller
<1>5. said' \in [HP!Handles -> HP!Silent..Cap]
  <2>1. \A c \in tail : HP!Kept(c, "err") \in HP!Silent..Cap
    BY <1>4, Bounds DEF HP!Silent
  <2>2. 0 \in HP!Silent..Cap
    BY Bounds DEF HP!Silent
  <2> QED
    BY <1>2, <1>3, <2>1, <2>2
<1>6. HP!Idle \in [op : {"idle"}, child : 0..MaxSpawns, left : 0..MaxIn]
  BY Bounds DEF HP!Idle
<1>7. HP!TypeOK'
  BY <1>0, <1>1, <1>5, <1>6 DEF HP!TypeOK
<1>8. ProcessInv'
  BY <1>0, <1>1, <1>6, <1>7
  DEF ProcessInv, PipesInv, TailInv, HP!StaleIsDead, ReadingInv, ReadInv, HP!ExecOps, HP!FullyRead, HP!Kept
<1>9. \A c \in HP!Handles : said[c] = HP!Silent /\ said'[c] # HP!Silent /\ c \notin holding
        => said'[c] = HP!Smaller(wrote[c]["err"], Cap)
  BY <1>2, <1>3, <1>4
<1> QED
  BY <1>8, <1>9

\* A handle is given out, taken back, and goes with the instance.
LEMMA HandleStep ==
    ASSUME ProcessInv, HP!Spawn \/ (\E h \in HP!Handles : HP!Kill(h)) \/ HP!DropInstance
    PROVE  ProcessInv'
<1> USE DEF HP!Streams, HP!Procs, HP!Handles, HP!Open, HP!Drained, HP!FullyRead, HP!Kept
<1>0. HP!TypeOK /\ PipesInv /\ ReadingInv /\ ReadInv /\ TailInv /\ HP!StaleIsDead
  BY DEF ProcessInv
<1>t. next \in 0..MaxSpawns /\ handles \subseteq 1..next /\ alive \subseteq HP!Procs /\ tail \subseteq HP!Handles
  BY <1>0 DEF HP!TypeOK
<1>1. ASSUME HP!Spawn
      PROVE  ProcessInv'
  <2> USE <1>1 DEF HP!Spawn, HP!pipes
  <2>1. /\ next' = next + 1 /\ next' \in 1..MaxSpawns /\ next' \in HP!Procs
        /\ handles' \subseteq 1..next' /\ alive' \subseteq HP!Procs
    BY <1>t, Bounds
  <2>2. HP!TypeOK'
    BY <1>0, <2>1 DEF HP!TypeOK
  <2>3. PipesInv' /\ ReadingInv' /\ ReadInv'
    BY <1>0, <2>1 DEF PipesInv, ReadingInv, ReadInv
  <2>4. TailInv' /\ HP!StaleIsDead'
    BY <1>0, <1>t, <2>1, Bounds DEF TailInv, HP!StaleIsDead
  <2> QED
    BY <2>2, <2>3, <2>4 DEF ProcessInv
<1>2. ASSUME NEW h \in HP!Handles, HP!Kill(h)
      PROVE  ProcessInv'
  <2> USE <1>2 DEF HP!Kill, HP!pipes
  <2>1. HP!TypeOK'
    BY <1>0 DEF HP!TypeOK
  <2> QED
    BY <1>0, <2>1 DEF ProcessInv, PipesInv, TailInv, HP!StaleIsDead, ReadingInv, ReadInv
<1>3. ASSUME HP!DropInstance
      PROVE  ProcessInv'
  <2> USE <1>3 DEF HP!DropInstance, HP!pipes
  <2>1. doingCall'.op = "dropped" /\ doingCall' \in [op : {"dropped"}, child : HP!Procs, left : 0..MaxIn]
    BY Bounds DEF HP!Idle
  <2>2. HP!TypeOK'
    BY <1>0, <2>1 DEF HP!TypeOK
  <2> QED
    BY <1>0, <2>1, <2>2
    DEF ProcessInv, PipesInv, TailInv, HP!StaleIsDead, ReadingInv, ReadInv, HP!ExecOps
<1> QED
  BY <1>1, <1>2, <1>3

\* Every step, and what only a look says.
LEMMA ProcessStep ==
    ASSUME ProcessInv, [HP!Next]_(HP!vars)
    PROVE  ProcessInv' /\ (HP!IsRunning \/ UNCHANGED said)
<1>1. CASE UNCHANGED HP!vars
  BY <1>1 DEF HP!vars, ProcessInv, HP!TypeOK, PipesInv, ReadingInv, ReadInv, TailInv, HP!StaleIsDead,
              HP!FullyRead, HP!Drained, HP!Open, HP!Kept
<1>2. CASE HP!Next
  <2>1. ASSUME NEW p \in HP!Procs, HP!Child(p)
        PROVE  ProcessInv' /\ UNCHANGED said
    BY <2>1, ChildStep DEF HP!Child, HP!Reads, HP!LeavesAHolder, HP!Exits, HP!Writes
  <2>2. ASSUME \/ HP!ExecRefused \/ HP!SeesExit \/ HP!Deadline
               \/ \E h \in HP!Handles, op \in {"write", "read", "look"} : HP!Call(op, h)
        PROVE  ProcessInv' /\ UNCHANGED said
    <3>1. ProcessInv'
      BY <2>2, CallsStep
    <3> QED
      BY <2>2, <3>1 DEF HP!ExecRefused, HP!SeesExit, HP!Deadline, HP!Call, HP!children
  <2>3. ASSUME (\E n \in 0..MaxIn : HP!Exec(n)) \/ HP!Feed \/ HP!WriteStdin \/ HP!ReadStdout
        PROVE  ProcessInv' /\ UNCHANGED said
    <3>1. ProcessInv'
      BY <2>3, FeedStep
    <3> QED
      BY <2>3, <3>1 DEF HP!Exec, HP!Feed, HP!WriteStdin, HP!ReadStdout, HP!children
  <2>4. ASSUME \/ \E s \in HP!Streams : HP!ReadExec(s) \/ HP!ReadDone(s)
               \/ \E h \in HP!Handles : HP!ReadsStdout(h) \/ HP!ReadsStderr(h)
        PROVE  ProcessInv' /\ UNCHANGED said
    <3>1. ProcessInv'
      BY <2>4, ReadStep
    <3> QED
      BY <2>4, <3>1 DEF HP!ReadExec, HP!ReadDone, HP!ReadsStdout, HP!ReadsStderr, HP!children
  <2>5. ASSUME HP!Spawn \/ (\E h \in HP!Handles : HP!Kill(h)) \/ HP!DropInstance
        PROVE  ProcessInv' /\ UNCHANGED said
    <3>1. ProcessInv'
      BY <2>5, HandleStep
    <3> QED
      BY <2>5, <3>1 DEF HP!Spawn, HP!Kill, HP!DropInstance
  <2> QED
    BY <1>2, <2>1, <2>2, <2>3, <2>4, <2>5, LookStep DEF HP!Next, HP!InCall, HP!Guest
<1> QED
  BY <1>1, <1>2

LEMMA ProcessInductive == HP!Spec => []ProcessInv
<1>1. HP!Init => ProcessInv
  BY ProcessesStart
<1>2. ProcessInv /\ [HP!Next]_(HP!vars) => ProcessInv'
  BY ProcessStep
<1> QED
  BY <1>1, <1>2, PTL DEF HP!Spec

\* The state of the child processes is typed, their pipes and the buffers of their readers bounded.
THEOREM ProcessesAreTyped == HP!Spec => []ProcessTypes
<1>1. ProcessInv => ProcessTypes
  BY DEF ProcessInv, ProcessTypes
<1> QED
  BY <1>1, ProcessInductive, PTL

\* What exec returns of its child's output is what the child wrote, or its beginning and marked so:
\* it is read after the exit, until nobody can write any more or the cap is passed.
THEOREM ExitsAreWhole == HP!Spec => []ExitIsWhole
<1>1. ProcessInv => ExitIsWhole
  <2> SUFFICES ASSUME ProcessInv, last.result = "exit"
               PROVE  /\ last.out = HP!Smaller(wrote[0]["out"], Cap)
                      /\ last.err = HP!Smaller(wrote[0]["err"], Cap)
                      /\ last.cut = {s \in HP!Streams : wrote[0][s] > Cap}
    BY DEF ExitIsWhole, HP!ExitIsWhole
  <2>1. \A s \in HP!Streams :
          /\ got[0][s] \in Nat /\ wrote[0][s] \in Nat /\ got[0][s] <= wrote[0][s]
          /\ got[0][s] > Cap \/ got[0][s] = wrote[0][s]
    BY Bounds DEF ProcessInv, PipesInv, ReadInv, HP!FullyRead, HP!Drained, HP!Procs
  <2>2. \A s \in HP!Streams : HP!Kept(0, s) = HP!Smaller(wrote[0][s], Cap)
    BY <2>1, Bounds DEF HP!Kept, HP!Smaller
  <2>3. /\ last.out = HP!Kept(0, "out") /\ last.err = HP!Kept(0, "err")
        /\ last.cut = {s \in HP!Streams : got[0][s] > Cap}
    BY DEF ProcessInv, ReadInv
  <2>4. {s \in HP!Streams : got[0][s] > Cap} = {s \in HP!Streams : wrote[0][s] > Cap}
    <3>1. \A s \in HP!Streams : (got[0][s] > Cap) <=> (wrote[0][s] > Cap)
      BY <2>1, Bounds
    <3> QED
      BY <3>1
  <2>5. "out" \in HP!Streams /\ "err" \in HP!Streams
    BY DEF HP!Streams
  <2> QED
    BY <2>2, <2>3, <2>4, <2>5, Zenon
<1> QED
  BY <1>1, ProcessInductive, PTL

\* The report of a child's death has all it wrote to standard error, up to the cap, unless a
\* process it left holds that pipe.
THEOREM LastWordsAreHeard == HP!Spec => LastWords
<1> DEFINE Heard == \A h \in HP!Handles :
        said[h] = HP!Silent /\ said'[h] # HP!Silent /\ h \notin holding
          => said'[h] = HP!Smaller(wrote[h]["err"], Cap)
<1>1. ProcessInv /\ [HP!Next]_(HP!vars) => [Heard]_(HP!vars)
  BY ProcessStep, LookStep
<1> QED
  BY <1>1, ProcessInductive, PTL DEF HP!Spec, LastWords, HP!LastWords

\* No process runs behind a handle that was taken back, nor behind an instance that is gone.
THEOREM StaleHandlesAreDead == HP!Spec => []StaleIsDead
<1>1. ProcessInv => StaleIsDead
  BY DEF ProcessInv, StaleIsDead
<1> QED
  BY <1>1, ProcessInductive, PTL

-----------------------------------------------------------------------------
(* What guests contribute to a client's interface.                         *)

Surfaces == U!Clients

Now == U!Declared(offers, dead)

\* What the client has once it has read all that was written to it.
Latest(c) == IF line[c] # <<>> /\ line[c][1].is = "contributions" THEN line[c][1].sets ELSE held[c]

\* What may have been written to a client: an answer, with what changed before it; to one that
\* asks, what it asked for.
LineFits(c) ==
    \/ line[c] = <<>>
    \/ line[c] = <<line[c][1]>> /\ line[c][1].is = "reply"
    \/ line[c] = <<line[c][1]>> /\ line[c][1].is = "contributions" /\ c \in Browsers
    \/ /\ line[c] = <<line[c][1], line[c][2]>> /\ c \in Piped
       /\ line[c][1].is = "contributions" /\ line[c][2].is = "reply"

\* Who waits for nothing has read everything, and shows it; who was never told has nothing.
ClientFits(c) ==
    /\ LineFits(c)
    /\ doing[c] = U!NoRequest => line[c] = <<>> /\ menu[c] = U!Shown(held[c])
    /\ c \in Browsers => menu[c] = U!Shown(held[c])
    /\ "never" \in since[c] => /\ line[c] = <<>> /\ held[c] = <<>>
                               /\ doing[c].kind \in {"none", "hello", "get"}
    /\ doing[c].kind = "hello" => c \in Piped /\ (line[c] = <<>> => held[c] = <<>>)
    /\ doing[c].kind = "get" => c \in Browsers
    /\ since[c] = {} => Latest(c) = Now

ClientsTyped ==
    /\ DOMAIN line = Surfaces /\ DOMAIN held = Surfaces /\ DOMAIN menu = Surfaces
    /\ DOMAIN doing = Surfaces /\ DOMAIN since = Surfaces
    /\ offers \in [U!Guests -> Offer]

ClientsInv == ClientsTyped /\ \A c \in Surfaces : ClientFits(c)

\* A frame or two written to an empty line are all of it.
LEMMA Written ==
  ASSUME NEW f, NEW g
  PROVE  /\ <<>> \o <<f>> = <<f>>
         /\ <<>> \o (<<>> \o <<f>>) = <<f>>
         /\ <<>> \o (<<f>> \o <<g>>) = <<f, g>>
<1> DEFINE S == {f, g}
<1>1. <<f>> \in Seq(S) /\ <<g>> \in Seq(S) /\ <<f, g>> \in Seq(S)
  OBVIOUS
<1>2. <<>> \o <<f>> = <<f>>
  BY <1>1, ConcatEmptySeq
<1>3. <<f>> \o <<g>> = <<f, g>>
  <2> DEFINE one == <<f>>
             two == <<g>>
             both == <<f, g>>
  <2>1. /\ Len(one) = 1 /\ Len(two) = 1 /\ Len(both) = 2
        /\ one[1] = f /\ two[1] = g /\ both[1] = f /\ both[2] = g
    OBVIOUS
  <2> HIDE DEF one, two, both, S
  <2>2. /\ one \o two \in Seq(S) /\ Len(one \o two) = Len(one) + Len(two)
        /\ \A i \in 1 .. Len(one) + Len(two) : (one \o two)[i] = IF i <= Len(one) THEN one[i] ELSE two[i - Len(one)]
    BY <1>1, ConcatProperties, Zenon DEF one, two
  <2>3. /\ Len(one \o two) = 2 /\ (one \o two)[1] = f /\ (one \o two)[2] = g
    BY <2>1, <2>2
  <2>4. both \in Seq(S)
    BY <1>1 DEF both
  <2>5. one \o two = both
    BY <2>1, <2>2, <2>3, <2>4, SeqEqual
  <2> QED
    BY <2>5 DEF one, two, both
<1>4. <<>> \o <<f, g>> = <<f, g>>
  BY <1>1, ConcatEmptySeq
<1> QED
  BY <1>2, <1>3, <1>4

LEMMA ReadOff ==
  ASSUME NEW f, NEW g
  PROVE  /\ Head(<<f>>) = f /\ Tail(<<f>>) = <<>> /\ Head(<<f, g>>) = f /\ Tail(<<f, g>>) = <<g>>
OBVIOUS

LEMMA NowIs == Now' = U!Declared(offers', dead')
BY DEF Now

LEMMA NowStays ==
  ASSUME offers' = offers, dead' = dead
  PROVE  Now' = Now
BY NowIs DEF Now

\* A guest changes, or none: the clients go on with what they have.
LEMMA Aside ==
  ASSUME ClientsInv, UNCHANGED <<line, held, menu, doing>>, DOMAIN since' = Surfaces,
         offers' \in [U!Guests -> Offer],
         \A c \in Surfaces : /\ since'[c] = {} => since[c] = {} /\ Now' = Now
                             /\ "never" \in since'[c] => "never" \in since[c]
  PROVE  ClientsInv'
<1>1. ClientsTyped' /\ Surfaces' = Surfaces
  BY DEF ClientsInv, ClientsTyped, Surfaces, U!Clients
<1>2. ASSUME NEW c \in Surfaces PROVE ClientFits(c)'
  <2>1. ClientFits(c)
    BY DEF ClientsInv
  <2>2. LineFits(c)' = LineFits(c) /\ Latest(c)' = Latest(c) /\ U!Shown(held[c])' = U!Shown(held[c])
    BY DEF LineFits, Latest
  <2>3. ASSUME since'[c] = {} PROVE Latest(c)' = Now'
    <3>1. since[c] = {} /\ Now' = Now
      BY <2>3
    <3>2. Latest(c) = Now
      BY <2>1, <3>1 DEF ClientFits
    <3> QED
      BY <2>2, <3>1, <3>2
  <2>4. "never" \in since'[c] => "never" \in since[c]
    OBVIOUS
  <2>5. line' = line /\ held' = held /\ menu' = menu /\ doing' = doing
    OBVIOUS
  <2> HIDE DEF Now
  <2> QED
    BY <2>1, <2>2, <2>3, <2>4, <2>5, Zenon DEF ClientFits
<1> QED
  BY <1>1, <1>2 DEF ClientsInv

\* A client that waits is served: what is written to it is all that it has not read.
LEMMA Served ==
  ASSUME ClientsInv, NEW c \in Surfaces, UNCHANGED <<held, menu, doing>>, NEW frames,
         line[c] = <<>>, doing[c] # U!NoRequest, line' = [line EXCEPT ![c] = frames],
         offers' \in [U!Guests -> Offer],
         LineFits(c)', DOMAIN since' = Surfaces, "never" \notin since'[c],
         frames # <<>>,
         since'[c] = {} => Latest(c)' = Now',
         \A d \in Surfaces \ {c} : /\ since'[d] = {} => since[d] = {} /\ Now' = Now
                                   /\ "never" \in since'[d] => "never" \in since[d]
  PROVE  ClientsInv'
<1>1. ClientsTyped' /\ Surfaces' = Surfaces /\ line'[c] = frames /\ \A d \in Surfaces \ {c} : line'[d] = line[d]
  BY DEF ClientsInv, ClientsTyped, Surfaces, U!Clients
<1>4. held' = held /\ menu' = menu /\ doing' = doing
  OBVIOUS
<1>2. ClientFits(c)'
  <2>1. ClientFits(c)
    BY DEF ClientsInv
  <2>2. U!Shown(held[c])' = U!Shown(held[c])
    OBVIOUS
  <2> QED
    BY <1>1, <1>4, <2>1, <2>2 DEF ClientFits
<1>3. ASSUME NEW d \in Surfaces \ {c} PROVE ClientFits(d)'
  <2>1. ClientFits(d) /\ line'[d] = line[d]
    BY <1>1 DEF ClientsInv
  <2>2. LineFits(d)' = LineFits(d) /\ Latest(d)' = Latest(d) /\ U!Shown(held[d])' = U!Shown(held[d])
    BY <1>1 DEF LineFits, Latest
  <2>3. ASSUME since'[d] = {} PROVE Latest(d)' = Now'
    <3>1. since[d] = {} /\ Now' = Now
      BY <2>3
    <3>2. Latest(d) = Now
      BY <2>1, <3>1 DEF ClientFits
    <3> QED
      BY <2>2, <3>1, <3>2
  <2>4. "never" \in since'[d] => "never" \in since[d]
    OBVIOUS
  <2> QED
    BY <1>4, <2>1, <2>2, <2>3, <2>4, Zenon DEF ClientFits
<1> QED
  BY <1>1, <1>2, <1>3 DEF ClientsInv

\* What a client asks for comes from what it is shown.
LEMMA Requested ==
  ASSUME ClientsInv, NEW c \in Surfaces, UNCHANGED <<offers, dead, line, held, menu, since>>,
         NEW r, doing' = [doing EXCEPT ![c] = r], doing[c] = U!NoRequest, r # U!NoRequest,
         r.kind = "hello" => c \in Piped /\ "never" \in since[c],
         r.kind = "get" => c \in Browsers,
         "never" \in since[c] => r.kind \in {"hello", "get"}
  PROVE  ClientsInv'
<1>1. ClientsTyped' /\ Surfaces' = Surfaces /\ doing'[c] = r /\ \A d \in Surfaces \ {c} : doing'[d] = doing[d]
  BY DEF ClientsInv, ClientsTyped, Surfaces, U!Clients
<1>2. ASSUME NEW d \in Surfaces PROVE ClientFits(d)'
  <2>1. ClientFits(d) /\ ClientFits(c)
    BY DEF ClientsInv
  <2>2. LineFits(d)' = LineFits(d) /\ Latest(d)' = Latest(d) /\ U!Shown(held[d])' = U!Shown(held[d]) /\ Now' = Now
    BY NowStays DEF LineFits, Latest
  <2>3. CASE d = c
    BY <1>1, <2>1, <2>2, <2>3 DEF ClientFits
  <2>4. CASE d # c
    BY <1>1, <2>1, <2>2, <2>4 DEF ClientFits
  <2> QED
    BY <2>3, <2>4
<1> QED
  BY <1>1, <1>2 DEF ClientsInv

\* What was told to others is out of date when anything of the guests changed.
LEMMA Ages ==
  ASSUME ClientsInv, NEW told \in SUBSET Surfaces, NEW why, since' = U!Aged(told, why),
         "never" \notin why, why = {} => Now' = Now
  PROVE  /\ DOMAIN since' = Surfaces
         /\ \A c \in told : since'[c] = {}
         /\ \A c \in Surfaces \ told : /\ since'[c] = {} => since[c] = {} /\ Now' = Now
                                       /\ "never" \in since'[c] => "never" \in since[c]
<1>1. since' = [c \in Surfaces |-> IF c \in told THEN {} ELSE since[c] \cup why]
  BY DEF U!Aged, Surfaces
<1>2. ASSUME NEW c \in Surfaces \ told
      PROVE  /\ since'[c] = {} => since[c] = {} /\ Now' = Now
             /\ "never" \in since'[c] => "never" \in since[c]
  <2>1. since'[c] = since[c] \cup why
    BY <1>1
  <2>2. since'[c] = {} => since[c] = {} /\ why = {}
    BY <2>1
  <2> QED
    BY <2>1, <2>2
<1>3. DOMAIN since' = Surfaces /\ \A c \in told : since'[c] = {}
  BY <1>1
<1> QED
  BY <1>2, <1>3

LEMMA AsksStep ==
  ASSUME ClientsInv, NEW c \in Surfaces, U!Connect(c) \/ \E typed \in U!Typed : U!Choose(c, typed)
  PROVE  ClientsInv'
<1>1. CASE U!Connect(c)
  <2> DEFINE r == [kind |-> IF c \in Piped THEN "hello" ELSE "get"]
  <2>1. /\ doing[c] = U!NoRequest /\ (c \in Piped => "never" \in since[c]) /\ doing' = [doing EXCEPT ![c] = r]
        /\ UNCHANGED <<offers, dead, line, held, menu, since>>
    BY <1>1 DEF U!Connect, U!guestvars
  <2>2. c \in Piped \/ c \in Browsers
    BY DEF Surfaces, U!Clients
  <2>3. r.kind = (IF c \in Piped THEN "hello" ELSE "get") /\ r # U!NoRequest
    BY DEF U!NoRequest
  <2> HIDE DEF r
  <2> QED
    BY <2>1, <2>2, <2>3, Requested
<1>2. CASE \E typed \in U!Typed : U!Choose(c, typed)
  <2>1. PICK typed \in U!Typed : U!Choose(c, typed)
    BY <1>2
  <2>2. PICK e \in U!Matching(typed, menu[c]) : doing' = [doing EXCEPT ![c] = U!Invoke(e)]
    BY <2>1 DEF U!Choose
  <2>3. doing[c] = U!NoRequest /\ "never" \notin since[c] /\ UNCHANGED <<offers, dead, line, held, menu, since>>
    BY <2>1 DEF U!Choose, U!guestvars
  <2>4. U!Invoke(e).kind = "invoke" /\ U!Invoke(e) # U!NoRequest
    BY DEF U!Invoke, U!NoRequest
  <2> QED
    BY <2>2, <2>3, <2>4, Requested
<1> QED
  BY <1>1, <1>2

LEMMA GreetStep ==
  ASSUME ClientsInv, NEW c \in Surfaces, NEW traps, U!ServeHello(c, traps) \/ U!ServeGet(c, traps)
  PROVE  ClientsInv'
<1> DEFINE D == U!Declared(offers, dead')
           ok == U!Reply("ok")
<1>1. /\ line[c] = <<>> /\ doing[c].kind \in {"hello", "get"}
      /\ dead' = dead \cup traps /\ since' = U!OnlyRead({c}, traps) /\ UNCHANGED <<offers, held, menu, doing>>
  BY DEF U!ServeHello, U!ServeGet, U!Reads
<1>2. ClientFits(c) /\ doing[c] # U!NoRequest
  BY <1>1 DEF ClientsInv, U!NoRequest
<1>3. Now' = D
  BY <1>1, NowIs
<1>4. /\ DOMAIN since' = Surfaces /\ since'[c] = {}
      /\ \A d \in Surfaces \ {c} : /\ since'[d] = {} => since[d] = {} /\ Now' = Now
                                   /\ "never" \in since'[d] => "never" \in since[d]
  <2> DEFINE why == IF traps = {} THEN {} ELSE {"trap"}
  <2>1. since' = U!Aged({c}, why) /\ "never" \notin why
    BY <1>1 DEF U!OnlyRead
  <2>2. why = {} => Now' = Now
    <3>1. why = {} => dead' = dead
      BY <1>1
    <3> QED
      BY <1>1, <3>1, NowStays
  <2> HIDE DEF why
  <2> QED
    BY <2>1, <2>2, Ages
<1>5. offers' \in [U!Guests -> Offer]
  BY <1>1 DEF ClientsInv, ClientsTyped
<1>6. PICK frames : /\ line' = [line EXCEPT ![c] = frames] /\ frames # <<>>
                    /\ \/ frames = <<ok>> /\ held[c] = <<>> /\ D = <<>>
                       \/ frames = <<U!Set(D), ok>> /\ c \in Piped
                       \/ frames = <<U!Set(D)>> /\ c \in Browsers
  <2>1. CASE U!ServeHello(c, traps)
    <3>1. line' = [line EXCEPT ![c] = <<>> \o (U!Unheard(D) \o <<ok>>)]
      BY <1>1, <2>1 DEF U!ServeHello, U!Told
    <3>2. c \in Piped /\ held[c] = <<>>
      BY <1>1, <1>2, <2>1 DEF ClientFits, U!ServeHello
    <3>3. CASE D = <<>>
      <4>1. <<>> \o (U!Unheard(D) \o <<ok>>) = <<ok>>
        BY <3>3, Written DEF U!Unheard
      <4> QED
        BY <3>1, <3>2, <3>3, <4>1
    <3>4. CASE D # <<>>
      <4>1. <<>> \o (U!Unheard(D) \o <<ok>>) = <<U!Set(D), ok>>
        BY <3>4, Written DEF U!Unheard
      <4> QED
        BY <3>1, <3>2, <4>1
    <3> QED
      BY <3>3, <3>4
  <2>2. CASE U!ServeGet(c, traps)
    <3>1. line' = [line EXCEPT ![c] = <<>> \o <<U!Set(D)>>]
      BY <1>1, <2>2 DEF U!ServeGet, U!Told
    <3>2. <<>> \o <<U!Set(D)>> = <<U!Set(D)>>
      BY Written
    <3>3. c \in Browsers
      BY <1>2, <2>2 DEF ClientFits, U!ServeGet
    <3> QED
      BY <3>1, <3>2, <3>3
  <2> QED
    BY <2>1, <2>2
<1>7. line'[c] = frames
  BY <1>6 DEF ClientsInv, ClientsTyped
<1>8. ok.is = "reply" /\ U!Set(D).is = "contributions" /\ U!Set(D).sets = D
  BY DEF U!Reply, U!Set
<1> HIDE DEF D, ok
<1>9. LineFits(c)' /\ Latest(c)' = D
  BY <1>1, <1>6, <1>7, <1>8 DEF LineFits, Latest
<1> QED
  BY <1>1, <1>2, <1>3, <1>4, <1>5, <1>6, <1>9, Served

\* A command that is answered and of which nothing is told: what changed is out of date.
LEMMA AnsweredStep ==
  ASSUME ClientsInv, NEW c \in Surfaces, U!Invocable(c), UNCHANGED <<held, menu, doing>>,
         NEW kind, line' = [line EXCEPT ![c] = <<U!Reply(kind)>>],
         offers' \in [U!Guests -> Offer],
         NEW why, why # {}, "never" \notin why,
         (since' = since /\ Now' = Now) \/ since' = U!Aged({}, why)
  PROVE  ClientsInv'
<1> DEFINE frames == <<U!Reply(kind)>>
<1>1. line[c] = <<>> /\ doing[c].kind = "invoke" /\ doing[c] # U!NoRequest
  BY DEF U!Invocable, U!NoRequest
<1>2. ClientFits(c) /\ "never" \notin since[c] /\ DOMAIN since = Surfaces
  BY <1>1 DEF ClientsInv, ClientsTyped, ClientFits
<1>3. /\ DOMAIN since' = Surfaces
      /\ \A d \in Surfaces : /\ since'[d] = {} => since[d] = {} /\ Now' = Now
                             /\ "never" \in since'[d] => "never" \in since[d]
  <2>1. CASE since' = since /\ Now' = Now
    BY <1>2, <2>1
  <2>2. CASE since' = U!Aged({}, why)
    <3>1. why = {} => Now' = Now
      OBVIOUS
    <3>2. {} \in SUBSET Surfaces /\ Surfaces \ {} = Surfaces
      OBVIOUS
    <3> HIDE DEF Now
    <3> QED
      BY <2>2, <3>1, <3>2, Ages
  <2> QED
    BY <2>1, <2>2
<1>4. line'[c] = frames
  BY DEF ClientsInv, ClientsTyped
<1>5. LineFits(c)' /\ Latest(c)' = held[c] /\ frames # <<>>
  <2>1. frames = <<frames[1]>> /\ frames[1].is = "reply" /\ frames # <<>>
    BY DEF U!Reply
  <2> HIDE DEF frames
  <2> QED
    BY <1>4, <2>1 DEF LineFits, Latest
<1>6. since'[c] = {} => Latest(c)' = Now'
  <2>1. ASSUME since[c] = {} PROVE held[c] = Now
    BY <1>1, <1>2, <2>1 DEF ClientFits, Latest
  <2> QED
    BY <1>3, <1>5, <2>1
<1>7. "never" \notin since'[c] /\ \A d \in Surfaces \ {c} : /\ since'[d] = {} => since[d] = {} /\ Now' = Now
                                                            /\ "never" \in since'[d] => "never" \in since[d]
  BY <1>2, <1>3
<1>8. line' = [line EXCEPT ![c] = frames]
  OBVIOUS
<1>9. DOMAIN since' = Surfaces
  BY <1>3
<1> HIDE DEF frames, Now
<1> QED
  BY <1>1, <1>5, <1>6, <1>7, <1>8, <1>9, Served

\* A guest becomes something else that it may offer.
LEMMA BecomesTyped ==
  ASSUME ClientsInv, NEW g, NEW o \in Offer, U!Becomes(g, o)
  PROVE  /\ offers' \in [U!Guests -> Offer]
         /\ o = offers[g] => offers' = offers
BY DEF ClientsInv, ClientsTyped, U!Becomes
LEMMA InvokedStep ==
  ASSUME ClientsInv, NEW c \in Surfaces,
         \/ U!ServeFailed(c)
         \/ \E now \in Offer : U!ServeRefused(c, now)
         \/ \E now \in Offer, says \in BOOLEAN, traps \in SUBSET Exports : U!ServeDone(c, now, says, traps)
  PROVE  ClientsInv'
<1>1. CASE U!ServeFailed(c)
  <2>1. /\ U!Invocable(c) /\ UNCHANGED <<held, menu, doing>> /\ offers' = offers
        /\ dead' = dead \cup {U!Callee(c)} /\ line' = [line EXCEPT ![c] = @ \o <<U!Reply("failed")>>]
        /\ since' = IF U!Callee(c) \in dead THEN since ELSE U!Aged({}, {"trap"})
    BY <1>1 DEF U!ServeFailed, U!Told
  <2>2. line' = [line EXCEPT ![c] = <<U!Reply("failed")>>]
    BY <2>1, Written DEF U!Invocable
  <2>3. (since' = since /\ Now' = Now) \/ since' = U!Aged({}, {"trap"})
    <3>1. CASE U!Callee(c) \in dead
      <4>1. dead' = dead /\ since' = since
        BY <2>1, <3>1
      <4> QED
        BY <2>1, <4>1, NowStays
    <3> QED
      BY <2>1, <3>1
  <2>4. offers' \in [U!Guests -> Offer]
    BY <2>1 DEF ClientsInv, ClientsTyped
  <2>5. {"trap"} # {} /\ "never" \notin {"trap"}
    OBVIOUS
  <2> HIDE DEF Now
  <2> QED
    BY <2>1, <2>2, <2>3, <2>4, <2>5, AnsweredStep
<1>2. ASSUME NEW now \in Offer, U!ServeRefused(c, now) PROVE ClientsInv'
  <2>1. /\ U!Invocable(c) /\ UNCHANGED <<held, menu, doing>> /\ dead' = dead
        /\ U!Becomes(U!Callee(c), now) /\ line' = [line EXCEPT ![c] = @ \o <<U!Reply("refused")>>]
        /\ since' = IF now # offers[U!Callee(c)] THEN U!Aged({}, {"silent"}) ELSE since
    BY <1>2 DEF U!ServeRefused, U!Told
  <2>2. line' = [line EXCEPT ![c] = <<U!Reply("refused")>>]
    BY <2>1, Written DEF U!Invocable
  <2>3. /\ offers' \in [U!Guests -> Offer]
        /\ now = offers[U!Callee(c)] => offers' = offers
    BY <2>1, BecomesTyped
  <2>4. (since' = since /\ Now' = Now) \/ since' = U!Aged({}, {"silent"})
    BY <2>1, <2>3, NowStays
  <2>5. {"silent"} # {} /\ "never" \notin {"silent"}
    OBVIOUS
  <2> HIDE DEF Now
  <2> QED
    BY <2>1, <2>2, <2>3, <2>4, <2>5, AnsweredStep
<1>3. ASSUME NEW now \in Offer, NEW says \in BOOLEAN, NEW traps \in SUBSET Exports, U!ServeDone(c, now, says, traps)
      PROVE  ClientsInv'
  <2> DEFINE D == U!Declared(offers', dead')
             ok == U!Reply("ok")
  <2>1. U!Invocable(c) /\ UNCHANGED <<held, menu, doing>> /\ U!Becomes(U!Callee(c), now)
    BY <1>3 DEF U!ServeDone
  <2>2. line[c] = <<>> /\ doing[c].kind = "invoke" /\ doing[c] # U!NoRequest
    BY <2>1 DEF U!Invocable, U!NoRequest
  <2>3. /\ offers' \in [U!Guests -> Offer]
        /\ now = offers[U!Callee(c)] => offers' = offers
    BY <2>1, BecomesTyped
  <2>4. CASE says /\ c \in Piped
    <3>1. /\ line' = [line EXCEPT ![c] = @ \o (U!Announced(D) \o <<ok>>)] /\ since' = U!Aged({c}, {"other"})
      BY <1>3, <2>4 DEF U!ServeDone, U!Told
    <3>2. <<>> \o (U!Announced(D) \o <<ok>>) = <<U!Set(D), ok>>
      BY Written DEF U!Announced
    <3>3. line' = [line EXCEPT ![c] = <<U!Set(D), ok>>]
      <4> HIDE DEF D, ok
      <4> QED
        BY <2>2, <3>1, <3>2
    <3>4. /\ DOMAIN since' = Surfaces /\ since'[c] = {}
          /\ \A d \in Surfaces \ {c} : /\ since'[d] = {} => since[d] = {} /\ Now' = Now
                                       /\ "never" \in since'[d] => "never" \in since[d]
      <4> DEFINE why == {"other"}
      <4>1. since' = U!Aged({c}, why) /\ "never" \notin why /\ why # {}
        BY <3>1
      <4> HIDE DEF why
      <4> QED
        BY <4>1, Ages
    <3>5. line'[c] = <<U!Set(D), ok>>
      BY <3>3 DEF ClientsInv, ClientsTyped
    <3>6. ok.is = "reply" /\ U!Set(D).is = "contributions" /\ U!Set(D).sets = D
      BY DEF U!Reply, U!Set
    <3> DEFINE frames == <<U!Set(D), ok>>
    <3>7. LineFits(c)' /\ Latest(c)' = D /\ frames # <<>>
      <4> HIDE DEF D, ok
      <4> QED
        BY <2>4, <3>5, <3>6 DEF LineFits, Latest
    <3>8. line' = [line EXCEPT ![c] = frames] /\ Now' = D
      BY <3>3, NowIs
    <3> HIDE DEF frames, D, ok
    <3> QED
      BY <2>1, <2>2, <2>3, <3>4, <3>7, <3>8, Served
  <2>5. CASE ~(says /\ c \in Piped)
    <3>1. /\ line' = [line EXCEPT ![c] = @ \o (<<>> \o <<ok>>)] /\ dead' = dead
          /\ since' = IF now # offers[U!Callee(c)] THEN U!Aged({}, {"silent"}) ELSE since
      BY <1>3, <2>5 DEF U!ServeDone, U!Told
    <3>2. line' = [line EXCEPT ![c] = <<ok>>]
      <4>1. <<>> \o (<<>> \o <<ok>>) = <<ok>>
        BY Written
      <4> HIDE DEF ok
      <4> QED
        BY <2>2, <3>1, <4>1
    <3>3. (since' = since /\ Now' = Now) \/ since' = U!Aged({}, {"silent"})
      BY <2>3, <3>1, NowStays
    <3>4. {"silent"} # {} /\ "never" \notin {"silent"}
      OBVIOUS
    <3> HIDE DEF Now, D
    <3> QED
      BY <2>1, <2>3, <3>2, <3>3, <3>4, AnsweredStep
  <2> QED
    BY <2>4, <2>5
<1> QED
  BY <1>1, <1>2, <1>3

\* What a client reads of what was written to it, and shows when it has read all of it.
LEMMA HeardStep ==
  ASSUME ClientsInv, NEW c \in Surfaces, U!ReadContributions(c) \/ U!ReadReply(c)
  PROVE  ClientsInv'
<1>1. /\ UNCHANGED <<offers, dead, since>> /\ line[c] # <<>> /\ line' = [line EXCEPT ![c] = Tail(@)]
      /\ ClientFits(c)
  BY DEF U!ReadContributions, U!ReadReply, U!Heard, U!guestvars, ClientsInv
<1>2. ClientsTyped' /\ Surfaces' = Surfaces /\ line'[c] = Tail(line[c]) /\ Now' = Now
  BY <1>1, NowStays DEF ClientsInv, ClientsTyped, Surfaces, U!Clients, U!ReadContributions, U!ReadReply
<1>3. \A d \in Surfaces \ {c} : /\ line'[d] = line[d] /\ held'[d] = held[d]
                                /\ menu'[d] = menu[d] /\ doing'[d] = doing[d]
  BY <1>1 DEF ClientsInv, ClientsTyped, U!ReadContributions, U!ReadReply
<1>4. ASSUME NEW d \in Surfaces \ {c} PROVE ClientFits(d)'
  <2>1. ClientFits(d) /\ line'[d] = line[d] /\ held'[d] = held[d] /\ menu'[d] = menu[d]
        /\ doing'[d] = doing[d] /\ since' = since
    BY <1>1, <1>3 DEF ClientsInv
  <2>2. LineFits(d)' = LineFits(d) /\ Latest(d)' = Latest(d) /\ U!Shown(held[d])' = U!Shown(held[d])
    BY <2>1 DEF LineFits, Latest
  <2> HIDE DEF Now
  <2> QED
    BY <1>2, <2>1, <2>2, Zenon DEF ClientFits
<1>5. "never" \notin since[c]
  BY <1>1 DEF ClientFits
<1>6. ClientFits(c)'
  <2> DEFINE f == line[c][1]
  <2>1. CASE U!ReadContributions(c) /\ c \in Browsers
    <3>1. /\ Head(line[c]).is = "contributions" /\ held'[c] = Head(line[c]).sets
          /\ menu'[c] = U!Shown(held'[c]) /\ doing'[c] = U!NoRequest
      BY <2>1 DEF U!ReadContributions, ClientsInv, ClientsTyped
    <3>2. line[c] = <<f>> /\ f.is = "contributions"
      BY <1>1, <2>1, <3>1, SurfaceAssumption DEF ClientFits, LineFits
    <3>3. line'[c] = <<>> /\ held'[c] = f.sets
      BY <1>2, <3>1, <3>2, ReadOff
    <3>4. Latest(c)' = Latest(c) /\ LineFits(c)' /\ U!Shown(held[c])' = U!Shown(held'[c])
      BY <3>2, <3>3 DEF Latest, LineFits
    <3>5. doing'[c].kind = "none"
      BY <3>1 DEF U!NoRequest
    <3> HIDE DEF f, Now
    <3> QED
      BY <1>1, <1>2, <1>5, <3>1, <3>3, <3>4, <3>5 DEF ClientFits
  <2>2. CASE U!ReadContributions(c) /\ c \notin Browsers
    <3>1. /\ Head(line[c]).is = "contributions" /\ held'[c] = Head(line[c]).sets
          /\ menu' = menu /\ doing' = doing
      BY <2>2 DEF U!ReadContributions, ClientsInv, ClientsTyped
    <3> DEFINE g == line[c][2]
    <3>2. line[c] = <<f, g>> /\ f.is = "contributions" /\ g.is = "reply"
      BY <1>1, <2>2, <3>1 DEF ClientFits, LineFits
    <3> HIDE DEF f, g, Now
    <3>3. line'[c] = <<g>> /\ held'[c] = f.sets
      BY <1>2, <3>1, <3>2, ReadOff
    <3>4. Latest(c)' = f.sets /\ LineFits(c)'
      BY <3>2, <3>3 DEF Latest, LineFits
    <3>5. Latest(c) = f.sets /\ doing[c] # U!NoRequest
      BY <1>1, <3>2 DEF Latest, f, ClientFits
    <3>6. line'[c] # <<>>
      BY <3>3
    <3> QED
      BY <1>1, <1>2, <1>5, <2>2, <3>1, <3>4, <3>5, <3>6 DEF ClientFits
  <2>3. CASE U!ReadReply(c)
    <3>1. /\ Head(line[c]).is = "reply" /\ held' = held
          /\ menu'[c] = U!Shown(held[c]) /\ doing'[c] = U!NoRequest
      BY <2>3 DEF U!ReadReply, ClientsInv, ClientsTyped
    <3>2. line[c] = <<f>> /\ f.is = "reply"
      BY <1>1, <3>1 DEF ClientFits, LineFits
    <3>3. line'[c] = <<>>
      BY <1>2, <3>2, ReadOff
    <3>4. Latest(c)' = Latest(c) /\ LineFits(c)' /\ U!Shown(held[c])' = U!Shown(held[c])
      BY <3>1, <3>2, <3>3 DEF Latest, LineFits
    <3>5. doing'[c].kind = "none"
      BY <3>1 DEF U!NoRequest
    <3> HIDE DEF f, Now
    <3> QED
      BY <1>1, <1>2, <1>5, <3>1, <3>3, <3>4, <3>5 DEF ClientFits
  <2> QED
    BY <2>1, <2>2, <2>3
<1> QED
  BY <1>2, <1>4, <1>6 DEF ClientsInv
\* A guest that decides may waver; one that traps is out of what is contributed.
LEMMA TurnStep ==
  ASSUME ClientsInv,
         \/ \E p \in U!Phases, b \in Bodies, failed \in BOOLEAN : U!Begin(p, b, failed)
         \/ \E s \in U!GuestStates : U!Replace(s)
         \/ U!Skip \/ U!Proceed \/ U!Ask \/ U!Block \/ U!Err \/ U!Trap \/ U!Conclude
  PROVE  ClientsInv'
<1>1. /\ UNCHANGED <<line, held, menu, doing>>
      /\ \/ UNCHANGED <<offers, dead, since>>
         \/ U!Wavers /\ dead' = dead
         \/ U!Trap
  <2>1. ASSUME NEW p \in U!Phases, NEW b \in Bodies, NEW failed \in BOOLEAN, U!Begin(p, b, failed)
        PROVE  UNCHANGED <<line, held, menu, doing>> /\ UNCHANGED <<offers, dead, since>>
    BY <2>1 DEF U!Begin, U!guestvars, U!clientvars
  <2>2. ASSUME NEW s \in U!GuestStates, U!Replace(s) PROVE U!Wavers /\ dead' = dead
    BY <2>2 DEF U!Replace
  <2>3. ASSUME U!Skip \/ U!Conclude
        PROVE  UNCHANGED <<line, held, menu, doing>> /\ UNCHANGED <<offers, dead, since>>
    BY <2>3 DEF U!Skip, U!Conclude, U!guestvars, U!clientvars
  <2>4. ASSUME U!Proceed \/ U!Ask \/ U!Block \/ U!Err PROVE U!Wavers /\ dead' = dead
    BY <2>4 DEF U!Proceed, U!Ask, U!Block, U!Err
  <2>5. U!Wavers => UNCHANGED <<line, held, menu, doing>>
    BY DEF U!Wavers
  <2>6. U!Trap => UNCHANGED <<line, held, menu, doing>>
    BY DEF U!Trap
  <2> QED
    BY <2>1, <2>2, <2>3, <2>4, <2>5, <2>6
<1>2. /\ offers' \in [U!Guests -> Offer]
      /\ (since' = since /\ Now' = Now) \/ \E why : why # {} /\ "never" \notin why /\ since' = U!Aged({}, why)
  <2>1. CASE UNCHANGED <<offers, dead, since>>
    BY <2>1, NowStays DEF ClientsInv, ClientsTyped
  <2>2. CASE U!Wavers /\ dead' = dead
    <3>1. PICK o \in Offer : U!Becomes(Order[place], o)
      BY <2>2 DEF U!Wavers
    <3>2. offers' \in [U!Guests -> Offer]
      BY <3>1, BecomesTyped
    <3>3. since' = IF offers' # offers THEN U!Aged({}, {"silent"}) ELSE since
      BY <2>2 DEF U!Wavers
    <3>4. {"silent"} # {} /\ "never" \notin {"silent"}
      OBVIOUS
    <3>5. offers' = offers => Now' = Now
      BY <2>2, NowStays
    <3> HIDE DEF Now
    <3> QED
      BY <3>2, <3>3, <3>4, <3>5
  <2>3. CASE U!Trap
    <3>1. /\ offers' = offers /\ dead' = dead \cup {Order[place]}
          /\ since' = IF Order[place] \in dead THEN since ELSE U!Aged({}, {"trap"})
      BY <2>3 DEF U!Trap
    <3>2. {"trap"} # {} /\ "never" \notin {"trap"}
      OBVIOUS
    <3>3. Order[place] \in dead => Now' = Now
      <4>1. Order[place] \in dead => dead' = dead
        BY <3>1
      <4> QED
        BY <3>1, <4>1, NowStays
    <3>4. offers' \in [U!Guests -> Offer]
      BY <3>1 DEF ClientsInv, ClientsTyped
    <3> HIDE DEF Now
    <3> QED
      BY <3>1, <3>2, <3>3, <3>4
  <2> QED
    BY <1>1, <2>1, <2>2, <2>3
<1>3. /\ DOMAIN since' = Surfaces
      /\ \A d \in Surfaces : /\ since'[d] = {} => since[d] = {} /\ Now' = Now
                             /\ "never" \in since'[d] => "never" \in since[d]
  <2>1. CASE since' = since /\ Now' = Now
    BY <2>1 DEF ClientsInv, ClientsTyped
  <2>2. ASSUME NEW why, why # {}, "never" \notin why, since' = U!Aged({}, why)
        PROVE  /\ DOMAIN since' = Surfaces
               /\ \A d \in Surfaces : /\ since'[d] = {} => since[d] = {} /\ Now' = Now
                                      /\ "never" \in since'[d] => "never" \in since[d]
    <3>1. why = {} => Now' = Now
      BY <2>2
    <3>2. {} \in SUBSET Surfaces /\ Surfaces \ {} = Surfaces
      OBVIOUS
    <3> HIDE DEF Now
    <3> QED
      BY <2>2, <3>1, <3>2, Ages
  <2> QED
    BY <1>2, <2>1, <2>2
<1> HIDE DEF Now
<1> QED
  BY <1>1, <1>2, <1>3, Aside

LEMMA ClientsBegin == U!Init => ClientsInv
<1> SUFFICES ASSUME U!Init PROVE ClientsInv
  OBVIOUS
<1>1. /\ offers \in [U!Guests -> Offer]
      /\ line = [c \in Surfaces |-> <<>>] /\ held = line /\ menu = [c \in Surfaces |-> U!Shown(<<>>)]
      /\ doing = [c \in Surfaces |-> U!NoRequest] /\ since = [c \in Surfaces |-> {"never"}]
  BY DEF U!Init, Surfaces
<1>2. ClientsTyped
  BY <1>1 DEF ClientsTyped
<1>3. ASSUME NEW c \in Surfaces PROVE ClientFits(c)
  <2>1. /\ line[c] = <<>> /\ held[c] = <<>> /\ menu[c] = U!Shown(held[c]) /\ doing[c].kind = "none"
        /\ "never" \in since[c]
    BY <1>1 DEF U!NoRequest
  <2> QED
    BY <2>1 DEF ClientFits, LineFits
<1> QED
  BY <1>2, <1>3 DEF ClientsInv

LEMMA ClientsGoOn == ClientsInv /\ [U!Next]_(U!vars) => ClientsInv'
<1> SUFFICES ASSUME ClientsInv, [U!Next]_(U!vars) PROVE ClientsInv'
  OBVIOUS
<1>1. CASE UNCHANGED U!vars
  <2>1. UNCHANGED <<offers, dead, line, held, menu, doing, since>>
    BY <1>1 DEF U!vars, U!guestvars, U!clientvars
  <2>2. ClientsTyped' /\ Surfaces' = Surfaces /\ Now' = Now
    BY <2>1, NowStays DEF ClientsInv, ClientsTyped, Surfaces, U!Clients
  <2>3. ASSUME NEW c \in Surfaces PROVE ClientFits(c)'
    <3>1. ClientFits(c)
      BY DEF ClientsInv
    <3>2. LineFits(c)' = LineFits(c) /\ Latest(c)' = Latest(c) /\ U!Shown(held[c])' = U!Shown(held[c])
      BY <2>1 DEF LineFits, Latest
    <3>3. line' = line /\ held' = held /\ menu' = menu /\ doing' = doing /\ since' = since
      BY <2>1
    <3> HIDE DEF Now
    <3> QED
      BY <2>2, <3>1, <3>2, <3>3, Zenon DEF ClientFits
  <2> QED
    BY <2>2, <2>3 DEF ClientsInv
<1>2. CASE \E c \in Surfaces : U!Connect(c) \/ \E typed \in U!Typed : U!Choose(c, typed)
  BY <1>2, AsksStep
<1>3. CASE \E c \in Surfaces : \E traps \in SUBSET Exports : U!ServeHello(c, traps) \/ U!ServeGet(c, traps)
  BY <1>3, GreetStep
<1>4. CASE \E c \in Surfaces :
             \/ U!ServeFailed(c)
             \/ \E now \in Offer : U!ServeRefused(c, now)
             \/ \E now \in Offer, says \in BOOLEAN, traps \in SUBSET Exports : U!ServeDone(c, now, says, traps)
  BY <1>4, InvokedStep
<1>5. CASE \E c \in Surfaces : U!ReadContributions(c) \/ U!ReadReply(c)
  BY <1>5, HeardStep
<1>6. CASE \/ \E p \in U!Phases, b \in Bodies, failed \in BOOLEAN : U!Begin(p, b, failed)
           \/ \E s \in U!GuestStates : U!Replace(s)
           \/ U!Skip \/ U!Proceed \/ U!Ask \/ U!Block \/ U!Err \/ U!Trap \/ U!Conclude
  BY <1>6, TurnStep
<1> QED
  BY <1>1, <1>2, <1>3, <1>4, <1>5, <1>6 DEF U!Next, Surfaces

\* MenuIsTrue: whatever guests there are, whatever they offer and however often they change
\* their minds, a client that waits for nothing shows what they contribute, unless that
\* changed in silence, or for another client, or a guest trapped (rpc.rs, serve.rs, app.rs).
THEOREM MenusAreTrue == U!Spec => []MenuIsTrue
<1>1. ClientsInv /\ attached \subseteq Surfaces => MenuIsTrue
  <2> SUFFICES ASSUME ClientsInv, NEW c \in Surfaces, doing[c] = U!NoRequest, since[c] = {}
               PROVE  menu[c] = U!Shown(U!Declared(offers, dead))
    BY DEF MenuIsTrue, U!MenuIsTrue
  <2>1. ClientFits(c)
    BY DEF ClientsInv
  <2>2. line[c] = <<>> /\ menu[c] = U!Shown(held[c]) /\ Latest(c) = Now
    BY <2>1 DEF ClientFits
  <2>3. held[c] = Now
    BY <2>2 DEF Latest
  <2>4. Now = U!Declared(offers, dead)
    BY NowIs DEF Now
  <2> QED
    BY <2>2, <2>3, <2>4
<1> DEFINE J == ClientsInv /\ attached \subseteq Surfaces
<1>2. U!Init => J
  BY ClientsBegin DEF U!Init, Surfaces, U!Clients
<1>3. J /\ [U!Next]_(U!vars) => J'
  <2>1. [U!Next]_(U!vars) => attached' = attached
    BY DEF U!Next, U!vars, U!Connect, U!ReadContributions, U!ReadReply, U!ServeFailed, U!Choose, U!ServeHello,
           U!ServeGet, U!ServeRefused, U!ServeDone, U!Begin, U!Replace, U!Skip, U!Proceed, U!Ask, U!Block,
           U!Err, U!Trap, U!Conclude
  <2>2. Surfaces' = Surfaces
    BY DEF Surfaces, U!Clients
  <2> QED
    BY <2>1, <2>2, ClientsGoOn
<1> QED
  BY <1>1, <1>2, <1>3, PTL DEF U!Spec

-----------------------------------------------------------------------------
(* What passes the boundary at a tool's call and at its result.            *)

\* At a tool's result the state that comes back says of the tool what was said going in.
ResultInv ==
    phase = "tool-result" /\ ~strayed =>
        hook.case = "tool-result" /\ hook.failed = toolAt.failed

\* Whoever was passed so far guards no calls, or is alive, unless the call was stopped.
PassedInv ==
    /\ place \in Nat
    /\ phase # "absent" => phase \in DOMAIN GuestsOf /\ place \in 1 .. Len(Order) + 1
    /\ phase = "tool-call" => \/ stopped
                              \/ \A i \in 1 .. place - 1 : Order[i] \notin dead \cap GuestsOf[phase]

BoundaryInv == ResultInv /\ PassedInv

LEMMA OrderIsOne == Len(Order) \in Nat /\ DOMAIN Order = 1 .. Len(Order)
<1>1. Order \in Seq({Order[i] : i \in DOMAIN Order})
  BY SurfaceAssumption
<1> QED
  BY <1>1

\* A dispatch goes on, or ends; nobody dies between two.
LEMMA BoundaryStep ==
  ASSUME BoundaryInv, [U!Next]_(U!vars)
  PROVE  BoundaryInv'
<1> USE OrderIsOne
<1>1. ASSUME NEW p \in U!Phases, NEW body \in Bodies, NEW failed \in BOOLEAN, U!Begin(p, body, failed) PROVE BoundaryInv'
  BY <1>1 DEF U!Begin, U!State, U!Phases, BoundaryInv, ResultInv, PassedInv
<1>2. CASE U!Skip
  BY <1>2 DEF U!Skip, U!Dispatching, U!Free, U!Absent, U!guestvars, BoundaryInv, ResultInv, PassedInv
<1>3. CASE U!Proceed
  BY <1>3 DEF U!Proceed, U!Called, U!Dispatching, U!Free, U!Absent, BoundaryInv, ResultInv, PassedInv
<1>4. ASSUME NEW s \in U!GuestStates, U!Replace(s) PROVE BoundaryInv'
  <2>1. ResultInv'
    <3>1. /\ phase' = phase /\ toolAt' = toolAt /\ hook' = U!Preserved(U!FromGuest(s), hook)
          /\ strayed' = (strayed \/ s.case # phase)
      BY <1>4 DEF U!Replace, U!Replies
    <3>2. U!FromGuest(s) = [case |-> s.case, body |-> s.body, failed |-> FALSE]
      BY DEF U!FromGuest, U!State
    <3> SUFFICES ASSUME phase = "tool-result", ~strayed'
                 PROVE  hook'.case = "tool-result" /\ hook'.failed = toolAt.failed
      BY <3>1 DEF ResultInv
    <3>3. s.case = "tool-result" /\ hook.case = "tool-result" /\ hook.failed = toolAt.failed
      BY <3>1 DEF BoundaryInv, ResultInv
    <3>4. hook' = [U!FromGuest(s) EXCEPT !.failed = hook.failed]
      BY <3>1, <3>2, <3>3 DEF U!Preserved
    <3> QED
      BY <3>2, <3>3, <3>4
  <2>2. PassedInv'
    BY <1>4 DEF U!Replace, U!Called, U!Dispatching, U!Free, U!Absent, BoundaryInv, PassedInv
  <2> QED
    BY <2>1, <2>2 DEF BoundaryInv
<1>5. CASE U!Ask
  BY <1>5 DEF U!Ask, BoundaryInv, ResultInv, PassedInv
<1>6. CASE U!Block
  BY <1>6 DEF U!Block, U!Stops, BoundaryInv, ResultInv, PassedInv
<1>7. CASE U!Err
  BY <1>7 DEF U!Err, U!Fails, U!Stops, U!Called, U!Dispatching, U!Free, U!Absent, BoundaryInv, ResultInv, PassedInv
<1>8. CASE U!Trap
  BY <1>8 DEF U!Trap, U!Fails, U!Stops, U!Dispatching, U!Free, U!Absent, BoundaryInv, ResultInv, PassedInv
<1>9. CASE U!Conclude
  BY <1>9 DEF U!Conclude, U!Absent, BoundaryInv, ResultInv, PassedInv
<1>10. CASE UNCHANGED U!turnvars /\ (U!Free \/ dead' = dead)
  BY <1>10 DEF U!turnvars, U!Free, U!Absent, BoundaryInv, ResultInv, PassedInv
<1>11. \/ \E p \in U!Phases, body \in Bodies, failed \in BOOLEAN : U!Begin(p, body, failed)
       \/ \E s \in U!GuestStates : U!Replace(s)
       \/ U!Skip \/ U!Proceed \/ U!Ask \/ U!Block \/ U!Err \/ U!Trap \/ U!Conclude
       \/ UNCHANGED U!turnvars /\ (U!Free \/ dead' = dead)
  <2>1. ASSUME NEW c \in U!Clients,
               \/ U!Connect(c) \/ U!ReadContributions(c) \/ U!ReadReply(c) \/ U!ServeFailed(c)
               \/ \E typed \in U!Typed : U!Choose(c, typed)
               \/ \E traps \in SUBSET Exports : U!ServeHello(c, traps) \/ U!ServeGet(c, traps)
               \/ \E now \in Offer : U!ServeRefused(c, now)
               \/ \E now \in Offer, says \in BOOLEAN, traps \in SUBSET Exports : U!ServeDone(c, now, says, traps)
        PROVE  UNCHANGED U!turnvars /\ (U!Free \/ dead' = dead)
    BY <2>1 DEF U!Connect, U!ReadContributions, U!ReadReply, U!ServeFailed, U!Choose, U!ServeHello, U!ServeGet,
                U!ServeRefused, U!ServeDone, U!Invocable, U!guestvars
  <2>2. UNCHANGED U!vars => UNCHANGED U!turnvars /\ dead' = dead
    BY DEF U!vars, U!guestvars, U!turnvars
  <2> QED
    BY <2>1, <2>2 DEF U!Next
<1> QED
  BY <1>1, <1>2, <1>3, <1>4, <1>5, <1>6, <1>7, <1>8, <1>9, <1>10, <1>11

LEMMA BoundaryBegins == U!Init => BoundaryInv
BY DEF U!Init, U!Absent, BoundaryInv, ResultInv, PassedInv

\* FailureIsKept: what any number of interceptors make of a tool's result failed just if the
\* tool did, though the type at the boundary does not say so (interceptor_host.rs, wasm adapter).
THEOREM FailuresAreKept == U!Spec => []FailureIsKept
<1>1. BoundaryInv => FailureIsKept
  <2> SUFFICES ASSUME BoundaryInv, phase = "tool-result", ~strayed PROVE U!Outcome.failed = toolAt.failed
    BY DEF FailureIsKept, U!FailureIsKept
  <2>1. hook.case = phase /\ hook.failed = toolAt.failed
    BY DEF BoundaryInv, ResultInv
  <2>2. U!Outcome = hook
    BY <2>1 DEF U!Outcome, U!Fits, U!Shaping
  <2> QED
    BY <2>1, <2>2
<1> QED
  BY <1>1, BoundaryBegins, BoundaryStep, PTL DEF U!Spec

\* DeadGuestsPassNothing: however a guest that guards calls came to trap, and whichever others
\* there are, no call is let through from then on (interceptor_host.rs, intercept.rs).
THEOREM DeadGuestsLetNothingPass == U!Spec => []DeadGuestsPassNothing
<1>1. BoundaryInv => DeadGuestsPassNothing
  <2> SUFFICES ASSUME BoundaryInv, phase = "tool-call", place > Len(Order), dead \cap GuestsOf[phase] # {}
               PROVE  U!Outcome = U!Blocked
    BY DEF DeadGuestsPassNothing, U!DeadGuestsPassNothing
  <2>1. PICK g : g \in dead \cap GuestsOf[phase]
    OBVIOUS
  <2>2. phase \in DOMAIN GuestsOf /\ place = Len(Order) + 1 /\ Len(Order) \in Nat
    BY OrderIsOne DEF BoundaryInv, PassedInv
  <2>3. PICK i \in DOMAIN Order : Order[i] = g
    BY <2>1, <2>2, SurfaceAssumption
  <2>4. i \in 1 .. place - 1
    BY <2>2, <2>3, OrderIsOne
  <2>5. stopped
    BY <2>1, <2>3, <2>4 DEF BoundaryInv, PassedInv
  <2> QED
    BY <2>5 DEF U!Outcome
<1> QED
  BY <1>1, BoundaryBegins, BoundaryStep, PTL DEF U!Spec

-----------------------------------------------------------------------------
(* The file that sessions edit.                                            *)

Files == [lines : Seq(LineTexts), nl : BOOLEAN]

\* A call names lines by what its editor saw, and has read what is there, unless others wrote.
CallIsRead(e) ==
    edit[e].pc # "idle" =>
        /\ edit[e].pc \in {"read", "open"} /\ edit[e].read \in Files /\ edit[e].asked \in Ed!Asked(e)
        /\ edit[e].pc = "open" => ~Ed!Rejected(edit[e].read.lines, edit[e].asked)
        /\ edit[e].pc = "read" /\ ~edit[e].touched => edit[e].read = file

EditsInv ==
    /\ file \in Files /\ view \in [Editors -> Seq(LineTexts)] /\ DOMAIN edit = Editors
    /\ \A e \in Editors :
         /\ CallIsRead(e)
         /\ edit[e].pc # "idle" => DOMAIN edit[e] = {"pc", "read", "asked", "touched"}

\* What is put together from three parts, part by part.
LEMMA ThreeParts ==
  ASSUME NEW S, NEW p \in Seq(S), NEW b \in Seq(S), NEW t \in Seq(S)
  PROVE  /\ p \o b \o t \in Seq(S) /\ Len(p \o b \o t) = Len(p) + Len(b) + Len(t)
         /\ \A i \in 1 .. Len(p) : (p \o b \o t)[i] = p[i]
         /\ \A i \in 1 .. Len(t) : (p \o b \o t)[Len(p) + Len(b) + i] = t[i]
<1> DEFINE q == p \o b
<1>1. q \in Seq(S) /\ Len(q) = Len(p) + Len(b) /\ \A i \in 1 .. Len(p) : q[i] = p[i]
  BY ConcatProperties
<1> HIDE DEF q
<1>2. /\ q \o t \in Seq(S) /\ Len(q \o t) = Len(q) + Len(t)
      /\ \A i \in 1 .. Len(q) + Len(t) : (q \o t)[i] = IF i <= Len(q) THEN q[i] ELSE t[i - Len(q)]
  <2>1. q \in Seq(S) /\ t \in Seq(S)
    BY <1>1
  <2> QED
    BY <2>1, ConcatProperties
<1>3. Len(p) \in Nat /\ Len(b) \in Nat /\ Len(t) \in Nat
  OBVIOUS
<1>4. \A i \in 1 .. Len(p) : (q \o t)[i] = p[i]
  BY <1>1, <1>2, <1>3
<1>5. \A i \in 1 .. Len(t) : (q \o t)[Len(p) + Len(b) + i] = t[i]
  BY <1>1, <1>2, <1>3
<1> QED
  BY <1>1, <1>2, <1>4, <1>5 DEF q

\* An anchor that is found is that of a line.
LEMMA FoundLine ==
  ASSUME NEW lines \in Seq(LineTexts), NEW a, Ed!Found(lines, a)
  PROVE  Ed!At(lines, a) \in 1 .. Len(lines) /\ Ed!Anchor(Ed!At(lines, a), lines[Ed!At(lines, a)]) = a
<1>1. Ed!Hits(lines, a) # {}
  <2>1. Cardinality({}) = 0
    BY FS_EmptySet
  <2>2. Ed!Cardinality({}) = Cardinality({})
    BY Zenon DEF Ed!Cardinality, Cardinality
  <2>3. Ed!Cardinality(Ed!Hits(lines, a)) = 1
    BY Zenon DEF Ed!Found
  <2>4. SUFFICES ASSUME Ed!Hits(lines, a) = {} PROVE FALSE
    OBVIOUS
  <2>5. Ed!Cardinality({}) = 1
    BY <2>3, <2>4, Zenon
  <2>6. 0 # 1
    OBVIOUS
  <2> QED
    BY <2>1, <2>2, <2>5, <2>6, Zenon
<1>2. Ed!At(lines, a) \in Ed!Hits(lines, a)
  BY <1>1 DEF Ed!At
<1> QED
  BY <1>2 DEF Ed!Hits

\* What goes is in the file, and not the wrong way round.
LEMMA SpanIsInside ==
  ASSUME NEW lines \in Seq(LineTexts), NEW asked, ~Ed!Rejected(lines, asked)
  PROVE  /\ Ed!Span(lines, asked)[1] \in 1 .. Len(lines) + 1
         /\ Ed!Span(lines, asked)[2] \in 1 .. Len(lines) + 1
<1>1. Ed!At(lines, asked.start) \in 1 .. Len(lines) /\ Ed!At(lines, Ed!EndOf(asked)) \in 1 .. Len(lines)
  BY FoundLine DEF Ed!Rejected
<1> QED
  BY <1>1 DEF Ed!Span

\* Lines as they are read back are those written, but for a blank last one.
LEMMA ContentIsFile ==
  ASSUME NEW lines \in Seq(LineTexts), NEW nl \in BOOLEAN
  PROVE  /\ Ed!Content(lines, nl) \in Files
         /\ lines # <<>> => \A k \in DOMAIN Ed!Content(lines, nl).lines :
                               k \in 1 .. Len(lines) /\ Ed!Content(lines, nl).lines[k] = lines[k]
<1>1. CASE lines = <<>>
  BY <1>1, EditsAssumption DEF Ed!Content, Files
<1>2. CASE lines # <<>> /\ ~nl /\ Len(lines) > 1 /\ Ed!Last(lines) = NoText
  <2>1. Ed!Content(lines, nl) = [lines |-> Ed!Front(lines), nl |-> TRUE]
    BY <1>2 DEF Ed!Content
  <2>2. Ed!Front(lines) = SubSeq(lines, 1, Len(lines) - 1)
    BY DEF Ed!Front
  <2>3. /\ SubSeq(lines, 1, Len(lines) - 1) \in Seq(LineTexts)
        /\ Len(SubSeq(lines, 1, Len(lines) - 1)) = Len(lines) - 1
        /\ \A k \in 1 .. Len(lines) - 1 : SubSeq(lines, 1, Len(lines) - 1)[k] = lines[k]
    BY <1>2
  <2> QED
    BY <2>1, <2>2, <2>3 DEF Files
<1>3. CASE lines # <<>> /\ ~(~nl /\ Len(lines) > 1 /\ Ed!Last(lines) = NoText)
  BY <1>3 DEF Ed!Content, Files
<1> QED
  BY <1>1, <1>2, <1>3

\* What an edit of a file leaves of it: the lines before and after what goes.
KeepsTheRest(c, asked) ==
    LET new   == Ed!Spliced(c, asked).lines
        span  == Ed!Span(c.lines, asked)
        after == SubSeq(c.lines, span[2], Len(c.lines))
    IN  /\ \A k \in 1 .. (span[1] - 1) : k \in DOMAIN new => new[k] = c.lines[k]
        /\ \A k \in DOMAIN after :
             LET there == span[1] - 1 + Len(asked.block) + k
             IN  there \in DOMAIN new => new[there] = after[k]

\* What an edit writes: before and after what goes, the lines it read.
LEMMA SplicedKeepsTheRest ==
  ASSUME NEW c \in Files, NEW asked, asked.block \in Seq(LineTexts),
         ~Ed!Rejected(c.lines, asked)
  PROVE  Ed!Spliced(c, asked) \in Files /\ KeepsTheRest(c, asked)
<1> DEFINE lines == c.lines
           from == Ed!Span(lines, asked)[1]
           upto == Ed!Span(lines, asked)[2]
           p == SubSeq(lines, 1, from - 1)
           t == SubSeq(lines, upto, Len(lines))
           b == asked.block
           all == p \o b \o t
           new == Ed!Spliced(c, asked).lines
<1>1. lines \in Seq(LineTexts) /\ c.nl \in BOOLEAN
  BY DEF Files
<1>2. Len(lines) \in Nat /\ from \in 1 .. Len(lines) + 1 /\ upto \in 1 .. Len(lines) + 1
  BY <1>1, SpanIsInside
<1>3. Ed!Spliced(c, asked) = Ed!Content(all, c.nl)
  BY DEF Ed!Spliced
<1> HIDE DEF from, upto
<1>4. p \in Seq(LineTexts) /\ Len(p) = from - 1 /\ \A k \in 1 .. from - 1 : p[k] = lines[k]
  BY <1>1, <1>2
<1>5. t \in Seq(LineTexts)
  BY <1>1, <1>2
<1> HIDE DEF p, t, b
<1>6. b \in Seq(LineTexts) /\ Len(p) \in Nat /\ Len(b) \in Nat /\ Len(t) \in Nat /\ DOMAIN t = 1 .. Len(t)
  BY <1>4, <1>5 DEF b
<1>7. /\ all \in Seq(LineTexts) /\ Len(all) = Len(p) + Len(b) + Len(t)
      /\ \A i \in 1 .. Len(p) : all[i] = p[i]
      /\ \A i \in 1 .. Len(t) : all[Len(p) + Len(b) + i] = t[i]
  <2>1. p \in Seq(LineTexts) /\ b \in Seq(LineTexts) /\ t \in Seq(LineTexts)
    BY <1>4, <1>5, <1>6
  <2>2. /\ p \o b \o t \in Seq(LineTexts) /\ Len(p \o b \o t) = Len(p) + Len(b) + Len(t)
        /\ \A i \in 1 .. Len(p) : (p \o b \o t)[i] = p[i]
        /\ \A i \in 1 .. Len(t) : (p \o b \o t)[Len(p) + Len(b) + i] = t[i]
    BY <2>1, ThreeParts
  <2> QED
    BY <2>2
<1> HIDE DEF all
<1>8. /\ Ed!Content(all, c.nl) \in Files
      /\ all # <<>> => \A k \in DOMAIN Ed!Content(all, c.nl).lines :
                          k \in 1 .. Len(all) /\ Ed!Content(all, c.nl).lines[k] = all[k]
  BY <1>1, <1>7, ContentIsFile
<1>9. new = Ed!Content(all, c.nl).lines
  BY <1>3
<1> HIDE DEF new
<1>10. all = <<>> => Len(p) = 0 /\ Len(t) = 0
  BY <1>6, <1>7
<1>11. \A k \in 1 .. from - 1 : k \in DOMAIN new => new[k] = lines[k]
  BY <1>4, <1>7, <1>8, <1>9, <1>10
<1>12. \A k \in DOMAIN t : from - 1 + Len(b) + k \in DOMAIN new => new[from - 1 + Len(b) + k] = t[k]
  <2> SUFFICES ASSUME NEW k \in DOMAIN t, from - 1 + Len(b) + k \in DOMAIN new
               PROVE  new[from - 1 + Len(b) + k] = t[k]
    OBVIOUS
  <2>1. from - 1 + Len(b) + k = Len(p) + Len(b) + k /\ k \in 1 .. Len(t)
    BY <1>2, <1>4, <1>6
  <2>2. all # <<>>
    BY <1>6, <1>10, <2>1
  <2>3. new[Len(p) + Len(b) + k] = all[Len(p) + Len(b) + k]
    BY <1>8, <1>9, <2>1, <2>2
  <2> QED
    BY <1>7, <2>1, <2>3
<1> QED
  BY <1>3, <1>8, <1>11, <1>12 DEF new, t, b, from, upto, KeepsTheRest

\* Others' writes touch the calls at work, and nothing else of them.
LEMMA TouchedKeepsCalls ==
  ASSUME EditsInv, NEW e \in Editors
  PROVE  /\ Ed!Touched(edit)[e].pc = edit[e].pc
         /\ edit[e].pc # "idle" =>
              /\ Ed!Touched(edit)[e].touched /\ Ed!Touched(edit)[e].read = edit[e].read
              /\ Ed!Touched(edit)[e].asked = edit[e].asked
              /\ DOMAIN Ed!Touched(edit)[e] = {"pc", "read", "asked", "touched"}
<1>1. CASE edit[e].pc = "idle"
  BY <1>1 DEF Ed!Touched, Ed!NoEdit
<1>2. CASE edit[e].pc # "idle"
  <2>1. Ed!Touched(edit)[e] = [edit[e] EXCEPT !.touched = TRUE]
    BY <1>2 DEF Ed!Touched
  <2> QED
    BY <1>2, <2>1 DEF EditsInv
<1> QED
  BY <1>1, <1>2

\* Every step keeps it.
LEMMA EditsInvStep == ASSUME EditsInv, [Ed!Next]_(Ed!vars) PROVE EditsInv'
<1>1. /\ file \in Files /\ view \in [Editors -> Seq(LineTexts)] /\ DOMAIN edit = Editors
      /\ \A e \in Editors : CallIsRead(e)
      /\ \A e \in Editors : edit[e].pc # "idle" => DOMAIN edit[e] = {"pc", "read", "asked", "touched"}
  BY DEF EditsInv
<1>2. ASSUME NEW e \in Editors, Ed!View(e) PROVE EditsInv'
  <2>1. Ed!Shown(file) \in Seq(LineTexts)
    BY <1>1, EditsAssumption DEF Ed!Shown, Files
  <2>2. view' \in [Editors -> Seq(LineTexts)] /\ \A f \in Editors : f # e => view'[f] = view[f]
    BY <1>1, <1>2, <2>1 DEF Ed!View
  <2>3. \A f \in Editors : CallIsRead(f)'
    BY <1>1, <1>2, <2>2 DEF Ed!View, CallIsRead, Ed!Asked
  <2> QED
    BY <1>1, <1>2, <2>2, <2>3 DEF Ed!View, EditsInv
<1>3. ASSUME NEW e \in Editors, Ed!Read(e) PROVE EditsInv'
  <2>1. PICK asked \in Ed!Asked(e) :
          edit' = [edit EXCEPT ![e] = [pc |-> "read", read |-> file, asked |-> asked, touched |-> FALSE]]
    BY <1>3 DEF Ed!Read
  <2>2. \A f \in Editors : CallIsRead(f)'
    BY <1>1, <1>3, <2>1 DEF Ed!Read, CallIsRead, Ed!Asked
  <2> QED
    BY <1>1, <1>3, <2>1, <2>2 DEF Ed!Read, EditsInv
<1>4. ASSUME NEW e \in Editors, Ed!Reject(e) \/ Ed!Killed(e) PROVE EditsInv'
  <2>1. /\ edit'[e] = Ed!NoEdit /\ DOMAIN edit' = Editors /\ file' = file /\ view' = view
        /\ \A f \in Editors : f # e => edit'[f] = edit[f]
    BY <1>1, <1>4 DEF Ed!Reject, Ed!Killed
  <2>2. edit'[e].pc = "idle"
    BY <2>1 DEF Ed!NoEdit
  <2>3. \A f \in Editors : CallIsRead(f)'
    BY <1>1, <2>1, <2>2 DEF CallIsRead, Ed!Asked
  <2> QED
    BY <1>1, <2>1, <2>2, <2>3 DEF EditsInv
<1>5. \A f \in Editors : /\ Ed!Touched(edit)[f].pc = edit[f].pc
                         /\ edit[f].pc # "idle" =>
                              /\ Ed!Touched(edit)[f].touched /\ Ed!Touched(edit)[f].read = edit[f].read
                              /\ Ed!Touched(edit)[f].asked = edit[f].asked
                              /\ DOMAIN Ed!Touched(edit)[f] = {"pc", "read", "asked", "touched"}
  BY TouchedKeepsCalls
<1>6. DOMAIN Ed!Touched(edit) = Editors
  BY DEF Ed!Touched
<1>7. ASSUME NEW e \in Editors, Ed!Open(e) PROVE EditsInv'
  <2>1. edit'[e] = [edit[e] EXCEPT !.pc = "open"] /\ DOMAIN edit' = Editors
        /\ \A f \in Editors : f # e => edit'[f] = Ed!Touched(edit)[f]
    BY <1>6, <1>7 DEF Ed!Open
  <2>2. edit[e].pc = "read" /\ view' = view /\ ~Ed!Rejected(edit[e].read.lines, edit[e].asked)
    BY <1>7 DEF Ed!Open
  <2>3. /\ edit'[e].pc = "open" /\ edit'[e].read = edit[e].read /\ edit'[e].asked = edit[e].asked
        /\ DOMAIN edit'[e] = {"pc", "read", "asked", "touched"}
    BY <1>1, <2>1, <2>2
  <2>4. Ed!Empty \in Files
    BY EditsAssumption DEF Ed!Empty, Ed!Content, Files
  <2>5. file' \in Files
    BY <1>7, <2>4 DEF Ed!Open
  <2>6. CallIsRead(e)'
    BY <1>1, <2>2, <2>3 DEF CallIsRead, Ed!Asked
  <2>7. \A f \in Editors \ {e} : CallIsRead(f)'
    BY <1>1, <1>5, <2>1, <2>2 DEF CallIsRead, Ed!Asked
  <2> QED
    BY <1>1, <1>5, <2>1, <2>2, <2>3, <2>5, <2>6, <2>7 DEF EditsInv
<1>8. ASSUME NEW e \in Editors, Ed!Write(e) PROVE EditsInv'
  <2>1. edit'[e] = Ed!NoEdit /\ DOMAIN edit' = Editors /\ view' = view
        /\ \A f \in Editors : f # e => edit'[f] = Ed!Touched(edit)[f]
    BY <1>6, <1>8 DEF Ed!Write
  <2>2. edit[e].read \in Files /\ edit[e].asked \in Ed!Asked(e)
        /\ ~Ed!Rejected(edit[e].read.lines, edit[e].asked)
    BY <1>1, <1>8 DEF Ed!Write, CallIsRead
  <2>3. edit[e].asked.block \in Seq(LineTexts)
    BY <2>2, EditsAssumption DEF Ed!Asked
  <2>4. file' \in Files
    BY <1>8, <2>2, <2>3, SplicedKeepsTheRest DEF Ed!Write
  <2>5. edit'[e].pc = "idle"
    BY <2>1 DEF Ed!NoEdit
  <2>6. \A f \in Editors : CallIsRead(f)'
    BY <1>1, <1>5, <2>1, <2>5 DEF CallIsRead, Ed!Asked
  <2> QED
    BY <1>1, <1>5, <2>1, <2>4, <2>5, <2>6 DEF EditsInv
<1>9. ASSUME NEW c \in Firsts, Ed!OtherWrites(c) PROVE EditsInv'
  <2>1. file' \in Files /\ edit' = Ed!Touched(edit) /\ view' = view
    BY <1>9, EditsAssumption DEF Ed!OtherWrites, Files
  <2>2. \A f \in Editors : CallIsRead(f)'
    BY <1>1, <1>5, <2>1 DEF CallIsRead, Ed!Asked
  <2> QED
    BY <1>1, <1>5, <1>6, <2>1, <2>2 DEF EditsInv
<1>10. CASE UNCHANGED Ed!vars
  BY <1>1, <1>10 DEF Ed!vars, CallIsRead, Ed!Asked, EditsInv
<1> QED
  BY <1>2, <1>3, <1>4, <1>7, <1>8, <1>9, <1>10 DEF Ed!Next

\* And so it always holds.
LEMMA EditsInvHolds == Ed!Spec => []EditsInv
<1>1. Ed!Init => EditsInv
  BY EditsAssumption DEF Ed!Init, EditsInv, CallIsRead, Ed!NoEdit, Files
<1>2. EditsInv /\ [Ed!Next]_(Ed!vars) => EditsInv'
  BY EditsInvStep
<1> QED
  BY <1>1, <1>2, PTL DEF Ed!Spec

\* Whose call goes on to write, it opens the file.
LEMMA OnlyItOpens ==
  ASSUME EditsInv, Ed!Next, NEW e \in Editors, edit[e].pc = "read", edit'[e].pc = "open"
  PROVE  Ed!Open(e)
<1>1. DOMAIN edit = Editors /\ \A f \in Editors : Ed!Touched(edit)[f].pc = edit[f].pc
  BY TouchedKeepsCalls DEF EditsInv
<1>2. ASSUME NEW f \in Editors, Ed!View(f) PROVE FALSE
  BY <1>2 DEF Ed!View
<1>3. ASSUME NEW f \in Editors, Ed!Read(f) PROVE FALSE
  BY <1>1, <1>3 DEF Ed!Read
<1>4. ASSUME NEW f \in Editors, Ed!Reject(f) \/ Ed!Killed(f) PROVE FALSE
  <2>1. edit' = [edit EXCEPT ![f] = Ed!NoEdit]
    BY <1>4 DEF Ed!Reject, Ed!Killed
  <2> QED
    BY <1>1, <2>1 DEF Ed!NoEdit
<1>5. ASSUME NEW f \in Editors, Ed!Open(f), f # e PROVE FALSE
  <2>1. edit'[e] = Ed!Touched(edit)[e]
    BY <1>5 DEF Ed!Open, Ed!Touched
  <2> QED
    BY <1>1, <2>1
<1>6. ASSUME NEW f \in Editors, Ed!Write(f) PROVE FALSE
  <2>1. edit'[e] = Ed!NoEdit \/ edit'[e] = Ed!Touched(edit)[e]
    BY <1>6 DEF Ed!Write, Ed!Touched
  <2> QED
    BY <1>1, <2>1 DEF Ed!NoEdit
<1>7. ASSUME NEW c \in Firsts, Ed!OtherWrites(c) PROVE FALSE
  BY <1>1, <1>7 DEF Ed!OtherWrites
<1> QED
  BY <1>2, <1>3, <1>4, <1>5, <1>6, <1>7 DEF Ed!Next

\* EditsLandAsSeen, for every workspace, every hash and any number of sessions: however
\* the file changed since the view, an edit that is written found both ends of its span
\* as its editor saw them, or lines that collide with what it saw, and leaves every line
\* around them as it is on the disk - but for a write of another in between
\* (tool-edit lib.rs:51-122).
THEOREM EditsLand == Ed!Spec => EditsLandAsSeen
<1>1. ASSUME EditsInv, Ed!Next, NEW e \in Editors, edit[e].pc = "read", edit'[e].pc = "open",
             ~edit[e].touched
      PROVE  Ed!LandsAsSeen(e)
  <2> DEFINE asked == edit[e].asked
  <2>1. Ed!Open(e)
    BY <1>1, OnlyItOpens
  <2>2. edit[e].read = file /\ file \in Files /\ asked \in Ed!Asked(e)
    BY <1>1 DEF EditsInv, CallIsRead
  <2>3. ~Ed!Rejected(file.lines, asked)
    BY <2>1, <2>2 DEF Ed!Open
  <2>4. asked.block \in Seq(LineTexts)
    BY <2>2, EditsAssumption DEF Ed!Asked
  <2>5. file.lines \in Seq(LineTexts)
    BY <2>2 DEF Files
  <2>6. asked.start \in Ed!AnchorsOf(view[e]) /\ Ed!EndOf(asked) \in Ed!AnchorsOf(view[e])
    BY <2>2 DEF Ed!Asked, Ed!EndOf
  <2>7. ASSUME NEW a \in Ed!AnchorsOf(view[e]), Ed!Found(file.lines, a)
        PROVE  \/ Ed!SawIt(e, Ed!At(file.lines, a), file.lines[Ed!At(file.lines, a)])
               \/ Ed!Collides(e, Ed!At(file.lines, a), file.lines[Ed!At(file.lines, a)])
    <3> DEFINE at == Ed!At(file.lines, a)
    <3>1. Ed!Anchor(at, file.lines[at]) = a
      BY <2>5, <2>7, FoundLine
    <3>2. PICK m \in DOMAIN view[e] : a = Ed!Anchor(m, view[e][m])
      BY <2>7 DEF Ed!AnchorsOf
    <3> HIDE DEF at
    <3>3. Hash[<<m, view[e][m]>>] = Hash[<<at, file.lines[at]>>]
      BY <3>1, <3>2 DEF Ed!Anchor
    <3>4. (m = at /\ view[e][m] = file.lines[at]) \/ <<m, view[e][m]>> # <<at, file.lines[at]>>
      OBVIOUS
    <3>5. Ed!SawIt(e, at, file.lines[at]) \/ Ed!Collides(e, at, file.lines[at])
      BY <3>2, <3>3, <3>4 DEF Ed!SawIt, Ed!Collides
    <3> QED
      BY <3>5 DEF at
  <2>8. Ed!Found(file.lines, asked.start) /\ Ed!Found(file.lines, Ed!EndOf(asked))
    BY <2>3 DEF Ed!Rejected
  <2>9. \A end \in Ed!Ends(e) :
          Ed!SawIt(e, end, file.lines[end]) \/ Ed!Collides(e, end, file.lines[end])
    BY <2>6, <2>7, <2>8 DEF Ed!Ends
  <2>10. KeepsTheRest(file, asked)
    BY <2>2, <2>3, <2>4, SplicedKeepsTheRest
  <2> QED
    BY <2>2, <2>3, <2>9, <2>10 DEF Ed!LandsAsSeen, KeepsTheRest
<1> DEFINE Lands ==
        \A e \in Editors :
          edit[e].pc = "read" /\ edit'[e].pc = "open" /\ ~edit[e].touched => Ed!LandsAsSeen(e)
<1>2. EditsInv /\ [Ed!Next]_(Ed!vars) => [Lands]_(Ed!vars)
  BY <1>1
<1> HIDE DEF Lands
<1>3. Ed!Spec => [][Lands]_(Ed!vars)
  BY <1>2, EditsInvHolds, PTL DEF Ed!Spec
<1> QED
  BY <1>3 DEF Lands, EditsLandAsSeen, Ed!EditsLandAsSeen, Ed!Applies
===============================================================================
