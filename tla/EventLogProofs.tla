---------------------------- MODULE EventLogProofs ----------------------------
(***************************************************************************)
(* What holds of the event log for every set of sessions, every bound and  *)
(* every table it may be opened on; and of the gateways that look for it   *)
(* and the file they read, for any number of them, of documents and of     *)
(* stores that earlier installs have left.                                 *)
(***************************************************************************)
EXTENDS MCEventLog, FiniteSetTheorems, TLAPS, WellFoundedInduction, SequenceTheorems

-----------------------------------------------------------------------------
(* Logs whose numbers are 1..n. *)

\* The largest of the first n numbers is n.
LEMMA MaxInterval ==
    ASSUME NEW n \in Nat, n # 0
    PROVE  Max(1..n) = n
<1>1. n \in 1..n /\ \A y \in 1..n : n >= y
  OBVIOUS
<1>2. \A x \in 1..n : (\A y \in 1..n : x >= y) => x = n
  OBVIOUS
<1>3. QED
  BY <1>1, <1>2 DEF Max

\* MAX(seq) of a log of n rows is n.
LEMMA LastSeqOf ==
    ASSUME NEW n \in Nat, NEW log, DOMAIN log = 1..n
    PROVE  LastSeq(log) = n
<1>1. CASE n = 0
  BY <1>1 DEF LastSeq
<1>2. CASE n # 0
  BY <1>2, MaxInterval DEF LastSeq
<1>3. QED
  BY <1>1, <1>2

\* The row before the q-th is the (q-1)-th.
LEMMA BeforeOf ==
    ASSUME NEW n \in Nat, NEW log, DOMAIN log = 1..n, NEW q \in 1..n
    PROVE  Before(log, q) = q - 1
<1> DEFINE front == [p \in {p \in DOMAIN log : p < q} |-> log[p]]
<1>1. DOMAIN front = 1..(q - 1)
  OBVIOUS
<1>2. LastSeq(front) = q - 1
  <2> HIDE DEF front
  <2>1. QED
    BY <1>1, LastSeqOf, q - 1 \in Nat
<1>3. QED
  BY <1>2 DEF Before

\* An append adds the row n+1, carrying the digest of row n, and changes no other.
LEMMA AppendedOf ==
    ASSUME NEW n \in Nat, NEW log, DOMAIN log = 1..n, NEW content
    PROVE  /\ DOMAIN Appended(log, content) = 1..(n + 1)
           /\ \A q \in 1..n : Appended(log, content)[q] = log[q]
           /\ Appended(log, content)[n + 1] =
                WithPrev(content, IF n = 0 THEN NoDigest ELSE Digest(n, log[n]))
<1>1. LastSeq(log) = n
  BY LastSeqOf
<1>2. LastDigest(log) = IF n = 0 THEN NoDigest ELSE Digest(n, log[n])
  BY <1>1 DEF LastDigest
<1>3. (1..n) \cup {n + 1} = 1..(n + 1)
  OBVIOUS
<1>4. n + 1 \notin 1..n
  OBVIOUS
<1>5. QED
  BY <1>1, <1>2, <1>3, <1>4 DEF Appended

\* A fork holds the first rows of its source, renumbered to the numbers they had, without digests.
LEMMA ForkedOf ==
    ASSUME NEW n \in Nat, NEW log, DOMAIN log = 1..n, NEW at \in Nat
    PROVE  \E m \in 0..n :
             /\ DOMAIN Forked(log, at) = 1..m
             /\ \A i \in 1..m : Forked(log, at)[i] = WithPrev(log[i], NoDigest)
<1> DEFINE copied == {q \in DOMAIN log : q <= at}
           m == IF at <= n THEN at ELSE n
           rank(q) == Cardinality({p \in copied : p <= q})
<1>1. copied = 1..m
  OBVIOUS
<1>2. Cardinality(copied) = m
  <2>1. Cardinality(1..m) = m
    BY FS_Interval
  <2>2. QED
    BY <1>1, <2>1
<1>3. \A q \in copied : rank(q) = q
  <2> TAKE q \in copied
  <2>1. {p \in copied : p <= q} = 1..q
    BY <1>1
  <2>2. Cardinality(1..q) = q
    BY <1>1, FS_Interval
  <2>3. QED
    BY <2>1, <2>2
<1>4. \A i \in 1..m : (CHOOSE q \in copied : rank(q) = i) = i
  BY <1>1, <1>3
<1>5. Forked(log, at) = [i \in 1..m |-> WithPrev(log[CHOOSE q \in copied : rank(q) = i], NoDigest)]
  BY <1>2 DEF Forked
<1>6. m \in 0..n
  OBVIOUS
<1>7. /\ DOMAIN Forked(log, at) = 1..m
      /\ \A i \in 1..m : Forked(log, at)[i] = WithPrev(log[i], NoDigest)
  BY <1>4, <1>5
<1>8. QED
  BY <1>6, <1>7

-----------------------------------------------------------------------------
(* Sound logs. *)

LogOK(log) == \E n \in 0..MaxRows : log \in [1..n -> Rows]

\* The numbers are 1..n and every digest that is there is the right one.
Sound(log) ==
    /\ LogOK(log)
    /\ \A q \in DOMAIN log : log[q].prev # NoDigest => RowVerifies(log, q)

LEMMA VerifiesOf ==
    ASSUME NEW n \in Nat, NEW log, DOMAIN log = 1..n, NEW q \in 1..n
    PROVE  RowVerifies(log, q) <=>
             log[q].prev = IF q = 1 THEN NoDigest ELSE Digest(q - 1, log[q - 1])
<1>1. Before(log, q) = q - 1
  BY BeforeOf
<1>2. QED
  BY <1>1 DEF RowVerifies

LEMMA DigestType ==
    ASSUME NEW seq \in Nat, NEW row \in Rows
    PROVE  Digest(seq, row) \in Digests /\ Digest(seq, row) # NoDigest
BY ConstantsAssumption DEF Digest, Digests, Rows

LEMMA WithPrevType ==
    ASSUME NEW content, content.kind \in Kinds, content.payload \in Payloads,
           NEW link \in Digests \cup {NoDigest}
    PROVE  /\ WithPrev(content, link) \in Rows
           /\ WithPrev(content, link).kind = content.kind
           /\ WithPrev(content, link).payload = content.payload
           /\ WithPrev(content, link).prev = link
BY DEF WithPrev, Rows

LEMMA SoundEmpty == Sound(<<>>)
<1>1. <<>> \in [1..0 -> Rows] /\ 0 \in 0..MaxRows
  BY ConstantsAssumption
<1>2. DOMAIN <<>> = {}
  OBVIOUS
<1>3. QED
  BY <1>1, <1>2 DEF Sound, LogOK

\* An append keeps a log sound: the new row's digest is that of the last row.
LEMMA SoundAppended ==
    ASSUME NEW log, Sound(log), LastSeq(log) < MaxRows,
           NEW content, content.kind \in Kinds, content.payload \in Payloads
    PROVE  Sound(Appended(log, content))
<1> DEFINE new == Appended(log, content)
<1>1. PICK n \in 0..MaxRows : log \in [1..n -> Rows]
  BY DEF Sound, LogOK
<1>2. DOMAIN log = 1..n /\ n \in Nat /\ n + 1 \in Nat /\ MaxRows \in Nat
  BY <1>1, ConstantsAssumption
<1>3. n + 1 \in 0..MaxRows
  BY <1>2, LastSeqOf
<1> DEFINE link == IF n = 0 THEN NoDigest ELSE Digest(n, log[n])
<1>4. link \in Digests \cup {NoDigest}
  BY <1>1, DigestType
<1>5. /\ DOMAIN new = 1..(n + 1)
      /\ \A q \in 1..n : new[q] = log[q]
      /\ new[n + 1] = WithPrev(content, link)
  BY <1>2, AppendedOf
<1>6. /\ WithPrev(content, link) \in Rows
      /\ WithPrev(content, link).prev = link
  BY <1>4, WithPrevType
<1>7. new \in [1..(n + 1) -> Rows]
  <2>1. \A q \in 1..(n + 1) : new[q] \in Rows
    BY <1>1, <1>2, <1>5, <1>6
  <2>2. new = [q \in 1..(n + 1) |-> new[q]]
    BY <1>5 DEF Appended
  <2> HIDE DEF new
  <2>3. QED
    BY <2>1, <2>2
<1>8. \A q \in 1..(n + 1) : new[q].prev # NoDigest => RowVerifies(new, q)
  <2> SUFFICES ASSUME NEW q \in 1..(n + 1), new[q].prev # NoDigest
               PROVE  RowVerifies(new, q)
    OBVIOUS
  <2>1. RowVerifies(new, q) <=>
          new[q].prev = IF q = 1 THEN NoDigest ELSE Digest(q - 1, new[q - 1])
    <3> HIDE DEF new
    <3>1. QED
      BY <1>2, <1>5, VerifiesOf
  <2>2. CASE q = n + 1
    <3>1. new[q].prev = link
      BY <2>2, <1>5, <1>6
    <3>2. n # 0 => new[q - 1] = log[n]
      BY <2>2, <1>2, <1>5
    <3> HIDE DEF new
    <3>3. QED
      BY <2>1, <2>2, <3>1, <3>2, <1>2
  <2>3. CASE q # n + 1
    <3>1. q \in 1..n /\ (q # 1 => q - 1 \in 1..n)
      BY <2>3, <1>2
    <3>2. new[q] = log[q] /\ (q # 1 => new[q - 1] = log[q - 1])
      BY <3>1, <1>5
    <3>3. RowVerifies(log, q)
      BY <3>1, <3>2, <1>2 DEF Sound
    <3>4. log[q].prev = IF q = 1 THEN NoDigest ELSE Digest(q - 1, log[q - 1])
      BY <3>1, <3>3, <1>2, VerifiesOf
    <3> HIDE DEF new
    <3>5. QED
      BY <2>1, <3>2, <3>4
  <2>4. QED
    BY <2>2, <2>3
<1> HIDE DEF new
<1>9. Sound(new)
  BY <1>3, <1>5, <1>7, <1>8 DEF Sound, LogOK
<1>10. QED
  BY <1>9 DEF new

\* A fork of a sound log is sound: it carries no digests.
LEMMA SoundForked ==
    ASSUME NEW log, Sound(log), NEW at \in Nat
    PROVE  Sound(Forked(log, at))
<1> DEFINE new == Forked(log, at)
<1>1. PICK n \in 0..MaxRows : log \in [1..n -> Rows]
  BY DEF Sound, LogOK
<1>2. DOMAIN log = 1..n /\ n \in Nat /\ MaxRows \in Nat
  BY <1>1, ConstantsAssumption
<1>3. PICK m \in 0..n : /\ DOMAIN new = 1..m
                        /\ \A i \in 1..m : new[i] = WithPrev(log[i], NoDigest)
  BY <1>2, ForkedOf
<1>4. \A i \in 1..m : log[i] \in Rows
  BY <1>1, <1>2
<1>5. \A i \in 1..m : new[i] \in Rows /\ new[i].prev = NoDigest
  <2> TAKE i \in 1..m
  <2>1. log[i].kind \in Kinds /\ log[i].payload \in Payloads
    BY <1>4 DEF Rows
  <2>2. WithPrev(log[i], NoDigest) \in Rows /\ WithPrev(log[i], NoDigest).prev = NoDigest
    BY <2>1, WithPrevType
  <2>3. QED
    BY <2>2, <1>3
<1>6. new = [i \in 1..m |-> new[i]]
  BY <1>3 DEF Forked
<1> HIDE DEF new
<1>7. new \in [1..m -> Rows] /\ m \in 0..MaxRows
  BY <1>2, <1>5, <1>6
<1>8. Sound(new)
  BY <1>3, <1>5, <1>7 DEF Sound, LogOK
<1>9. QED
  BY <1>8 DEF new

\* One UPDATE of the backfill keeps a log sound.
LEMMA SoundBackfilled ==
    ASSUME NEW log, Sound(log), NEW q \in DOMAIN log, Before(log, q) # 0
    PROVE  /\ Digest(Before(log, q), log[Before(log, q)]) # NoDigest
           /\ WithPrev(log[q], Digest(Before(log, q), log[Before(log, q)])).prev # NoDigest
           /\ Sound([log EXCEPT ![q] = WithPrev(@, Digest(Before(log, q), log[Before(log, q)]))])
<1> DEFINE link == Digest(Before(log, q), log[Before(log, q)])
           new == [log EXCEPT ![q] = WithPrev(@, link)]
<1>1. PICK n \in 0..MaxRows : log \in [1..n -> Rows]
  BY DEF Sound, LogOK
<1>2. DOMAIN log = 1..n /\ n \in Nat /\ MaxRows \in Nat /\ q \in 1..n
  BY <1>1, ConstantsAssumption
<1>3. Before(log, q) = q - 1
  BY <1>2, BeforeOf
<1>4. q # 1 /\ q - 1 \in 1..n
  BY <1>2, <1>3
<1>5. link \in Digests /\ link # NoDigest
  BY <1>1, <1>3, <1>4, DigestType
<1>6. log[q].kind \in Kinds /\ log[q].payload \in Payloads
  BY <1>1, <1>2 DEF Rows
<1>7. /\ WithPrev(log[q], link) \in Rows
      /\ WithPrev(log[q], link).kind = log[q].kind
      /\ WithPrev(log[q], link).payload = log[q].payload
      /\ WithPrev(log[q], link).prev = link
  BY <1>5, <1>6, WithPrevType
<1>8. new \in [1..n -> Rows] /\ DOMAIN new = 1..n
  BY <1>1, <1>7
<1>9. \A p \in 1..n : /\ new[p].kind = log[p].kind /\ new[p].payload = log[p].payload
                      /\ new[p].prev = IF p = q THEN link ELSE log[p].prev
  BY <1>1, <1>2, <1>7
<1>10. \A p \in 1..n, i \in Nat : Digest(i, new[p]) = Digest(i, log[p])
  BY <1>9 DEF Digest
<1>11. link = Digest(q - 1, log[q - 1])
  BY <1>3
<1> HIDE DEF new, link
<1>12. \A p \in 1..n : new[p].prev # NoDigest => RowVerifies(new, p)
  <2> SUFFICES ASSUME NEW p \in 1..n, new[p].prev # NoDigest
               PROVE  RowVerifies(new, p)
    OBVIOUS
  <2>1. RowVerifies(new, p) <=> new[p].prev = IF p = 1 THEN NoDigest ELSE Digest(p - 1, new[p - 1])
    BY <1>2, <1>8, VerifiesOf
  <2>2. p # 1 => p - 1 \in 1..n /\ p - 1 \in Nat
    BY <1>2
  <2>3. p # 1 => Digest(p - 1, new[p - 1]) = Digest(p - 1, log[p - 1])
    BY <2>2, <1>10
  <2>4. CASE p = q
    BY <2>1, <2>3, <2>4, <1>4, <1>9, <1>11
  <2>5. CASE p # q
    <3>1. new[p].prev = log[p].prev
      BY <2>5, <1>9
    <3>2. RowVerifies(log, p)
      BY <3>1, <1>2 DEF Sound
    <3>3. log[p].prev = IF p = 1 THEN NoDigest ELSE Digest(p - 1, log[p - 1])
      BY <3>2, <1>2, VerifiesOf
    <3>4. QED
      BY <2>1, <2>3, <3>1, <3>3
  <2>6. QED
    BY <2>4, <2>5
<1>13. Sound(new)
  BY <1>8, <1>12 DEF Sound, LogOK
<1>14. QED
  BY <1>5, <1>7, <1>13 DEF new, link

-----------------------------------------------------------------------------
(* The inductive invariant. *)

\* The conversion never has more rows left than fit, and works on one session.
ConvertInv ==
    left # <<>> => /\ phase = "converting"
                   /\ current \in Sessions
                   /\ LastSeq(events[current]) + Len(left) <= MaxRows

\* What is left to backfill are rows of the table that have a row before them.
BackfillInv ==
    /\ todo # {} => phase = "backfilling"
    /\ \A row \in todo : /\ row[2] \in Seqs(row[1])
                         /\ Before(events[row[1]], row[2]) # 0
    /\ ~hasColumn => phase = "down"

\* Where no digest is missing: a row without one is the first, a fork's or about to be backfilled.
DigestsThere ==
    hasColumn /\ upgraded =>
        \A s \in Sessions : parent[s].copied = 0 =>
            \A q \in Seqs(s) : \/ events[s][q].prev # NoDigest
                               \/ Before(events[s], q) = 0
                               \/ <<s, q>> \in todo

IInv ==
    /\ TypeOK
    /\ \A s \in Sessions : Sound(events[s])
    /\ ConvertInv
    /\ BackfillInv
    /\ DigestsThere

LEMMA SoundType ==
    ASSUME NEW log, Sound(log)
    PROVE  /\ DOMAIN log \subseteq 1..MaxRows
           /\ \A q \in DOMAIN log : log[q] \in Rows
           /\ \E n \in 0..MaxRows : DOMAIN log = 1..n /\ LastSeq(log) = n
<1>1. PICK n \in 0..MaxRows : log \in [1..n -> Rows]
  BY DEF Sound, LogOK
<1>2. DOMAIN log = 1..n /\ n \in Nat /\ MaxRows \in Nat
  BY <1>1, ConstantsAssumption
<1>3. LastSeq(log) = n
  BY <1>2, LastSeqOf
<1>4. QED
  BY <1>1, <1>2, <1>3

\* Replacing one log by a sound one keeps the table sound.
LEMMA OneLogChanges ==
    ASSUME NEW table, DOMAIN table = Sessions, \A s \in Sessions : Sound(table[s]),
           NEW s \in Sessions, NEW log, Sound(log)
    PROVE  /\ DOMAIN [table EXCEPT ![s] = log] = Sessions
           /\ \A t \in Sessions : Sound([table EXCEPT ![s] = log][t])
           /\ [table EXCEPT ![s] = log][s] = log
           /\ \A t \in Sessions \ {s} : [table EXCEPT ![s] = log][t] = table[t]
<1>1. \A t \in Sessions : [table EXCEPT ![s] = log][t] = IF t = s THEN log ELSE table[t]
  OBVIOUS
<1>2. QED
  BY <1>1

\* The type of the table follows from its soundness.
LEMMA TableType ==
    ASSUME NEW table, \A s \in Sessions : Sound(table[s])
    PROVE  \A s \in Sessions : /\ DOMAIN table[s] \subseteq 1..MaxRows
                               /\ \A q \in DOMAIN table[s] : table[s][q] \in Rows
BY SoundType

\* After an append every old row is as it was, and the new one has a digest or is the first.
LEMMA AppendedChain ==
    ASSUME NEW log, Sound(log), NEW content, content.kind \in Kinds, content.payload \in Payloads
    PROVE  /\ LastSeq(Appended(log, content)) = LastSeq(log) + 1
           /\ \A q \in DOMAIN Appended(log, content) :
                \/ /\ q \in DOMAIN log
                   /\ Appended(log, content)[q] = log[q]
                   /\ Before(Appended(log, content), q) = Before(log, q)
                \/ Appended(log, content)[q].prev # NoDigest
                \/ Before(Appended(log, content), q) = 0
<1> DEFINE new == Appended(log, content)
<1>1. PICK n \in 0..MaxRows : log \in [1..n -> Rows]
  BY DEF Sound, LogOK
<1>2. DOMAIN log = 1..n /\ n \in Nat /\ n + 1 \in Nat
  BY <1>1, ConstantsAssumption
<1> DEFINE link == IF n = 0 THEN NoDigest ELSE Digest(n, log[n])
<1>3. /\ DOMAIN new = 1..(n + 1)
      /\ \A q \in 1..n : new[q] = log[q]
      /\ new[n + 1] = WithPrev(content, link)
  BY <1>2, AppendedOf
<1>4. link \in Digests \cup {NoDigest} /\ (n # 0 => link # NoDigest)
  BY <1>1, DigestType
<1>5. new[n + 1].prev = link
  BY <1>3, <1>4, WithPrevType
<1> HIDE DEF new, link
<1>6. LastSeq(log) = n /\ LastSeq(new) = n + 1
  BY <1>2, <1>3, LastSeqOf
<1>7. \A q \in 1..n : Before(new, q) = Before(log, q)
  <2> TAKE q \in 1..n
  <2>1. q \in 1..(n + 1)
    BY <1>2
  <2>2. Before(new, q) = q - 1 /\ Before(log, q) = q - 1
    BY <2>1, <1>2, <1>3, BeforeOf
  <2>3. QED
    BY <2>2
<1>8. Before(new, n + 1) = n
  <2>1. n + 1 \in 1..(n + 1) /\ (n + 1) - 1 = n
    BY <1>2
  <2>2. QED
    BY <2>1, <1>2, <1>3, BeforeOf
<1>9. \A q \in 1..(n + 1) : q \in 1..n \/ q = n + 1
  BY <1>2
<1>10. QED
  BY <1>2, <1>3, <1>4, <1>5, <1>6, <1>7, <1>8, <1>9 DEF new

LEMMA InitInv == Init => IInv
<1> SUFFICES ASSUME Init PROVE IInv
  OBVIOUS
<1> USE DEF Init
<1>1. PICK table \in OldTables :
        events = [s \in Sessions |-> [q \in DOMAIN table[s] |-> WithPrev(table[s][q], NoDigest)]]
  OBVIOUS
<1>2. \A s \in Sessions : Sound(events[s])
  <2> TAKE s \in Sessions
  <2>1. table[s] \in Seq(Contents) /\ Len(table[s]) \in 0..MaxRows
    BY ConstantsAssumption DEF ContentLogs
  <2> DEFINE n == Len(table[s])
  <2>2. /\ DOMAIN table[s] = 1..n
        /\ \A q \in 1..n : table[s][q] \in Contents
    BY <2>1
  <2>3. \A q \in 1..n : table[s][q].kind \in Kinds /\ table[s][q].payload \in Payloads
    BY <2>2 DEF Contents
  <2>4. \A q \in 1..n : /\ WithPrev(table[s][q], NoDigest) \in Rows
                        /\ WithPrev(table[s][q], NoDigest).prev = NoDigest
    BY <2>3, WithPrevType
  <2>5. events[s] = [q \in 1..n |-> WithPrev(table[s][q], NoDigest)]
    BY <1>1, <2>2
  <2> HIDE DEF n
  <2>6. events[s] \in [1..n -> Rows] /\ \A q \in DOMAIN events[s] : events[s][q].prev = NoDigest
    BY <2>4, <2>5
  <2>7. n \in 0..MaxRows
    BY <2>1 DEF n
  <2>8. QED
    BY <2>6, <2>7 DEF Sound, LogOK
<1>3. TypeOK
  <2>1. DOMAIN events = Sessions
    BY <1>1
  <2>2. \A s \in Sessions : /\ DOMAIN events[s] \subseteq 1..MaxRows
                            /\ \A q \in DOMAIN events[s] : events[s][q] \in Rows
    BY <1>2, TableType
  <2>3. crashes \in 0..MaxCrashes
    BY ConstantsAssumption
  <2>4. left \in Seq(Contents)
    OBVIOUS
  <2>5. parent \in [Sessions -> [from : Sessions \cup {None}, copied : 0..MaxRows]]
    BY ConstantsAssumption DEF NoFork
  <2>6. QED
    BY <2>1, <2>2, <2>3, <2>4, <2>5 DEF TypeOK, Seqs
<1>4. ConvertInv
  BY DEF ConvertInv
<1>5. BackfillInv
  BY DEF BackfillInv
<1>6. DigestsThere
  BY DEF DigestsThere
<1>7. QED
  BY <1>2, <1>3, <1>4, <1>5, <1>6 DEF IInv

\* Every step keeps the invariant.
LEMMA NextInv == IInv /\ [Next]_vars => IInv'
<1> SUFFICES ASSUME IInv, [Next]_vars PROVE IInv'
  OBVIOUS
<1>1. /\ TypeOK /\ ConvertInv /\ BackfillInv /\ DigestsThere
      /\ \A s \in Sessions : Sound(events[s])
      /\ DOMAIN events = Sessions
  BY DEF IInv, TypeOK
<1>2. CASE OpenCurrent
  <2> USE <1>1, <1>2 DEF OpenCurrent
  <2>1. TypeOK'
    BY DEF TypeOK, Seqs, HasTranscript
  <2>2. ConvertInv'
    BY DEF ConvertInv
  <2>3. BackfillInv'
    BY DEF BackfillInv, Seqs
  <2>4. DigestsThere'
    BY DEF DigestsThere, Seqs
  <2>5. QED
    BY <2>1, <2>2, <2>3, <2>4 DEF IInv
<1>3. CASE OpenOld
  <2> USE <1>1, <1>3 DEF OpenOld
  <2>1. TypeOK'
    BY DEF TypeOK, Seqs
  <2>2. ConvertInv'
    BY DEF ConvertInv
  <2>3. BackfillInv'
    BY DEF BackfillInv, Seqs
  <2>4. \A s \in Sessions : \A q \in Seqs(s) : q \in 1..MaxRows
    BY DEF TypeOK
  <2>5. DigestsThere'
    BY <2>4 DEF DigestsThere, Seqs
  <2>6. QED
    BY <2>1, <2>2, <2>3, <2>5 DEF IInv
<1>4. CASE BackfillRow
  <2>1. PICK s \in Sessions, q \in 1..MaxRows :
          /\ <<s, q>> \in todo
          /\ events' = [events EXCEPT ![s][q] =
                          WithPrev(@, Digest(Before(events[s], q), events[s][Before(events[s], q)]))]
          /\ todo' = todo \ {<<s, q>>}
    BY <1>4 DEF BackfillRow
  <2>2. /\ UNCHANGED <<hasColumn, phase, unconverted, current, left, crashes, upgraded, parent>>
        /\ phase = "backfilling"
    BY <1>4 DEF BackfillRow
  <2> DEFINE link == Digest(Before(events[s], q), events[s][Before(events[s], q)])
             new == [events[s] EXCEPT ![q] = WithPrev(@, link)]
  <2>3. q \in DOMAIN events[s] /\ Before(events[s], q) # 0
    BY <1>1, <2>1 DEF BackfillInv, Seqs
  <2>4. Sound(new) /\ WithPrev(events[s][q], link).prev # NoDigest
    BY <1>1, <2>3, SoundBackfilled
  <2>5. events' = [events EXCEPT ![s] = new]
    BY <2>1
  <2>6. DOMAIN new = DOMAIN events[s]
    OBVIOUS
  <2>7. \A p \in DOMAIN new : new[p].prev = IF p = q THEN WithPrev(events[s][q], link).prev
                                                     ELSE events[s][p].prev
    OBVIOUS
  <2>8. \A p : Before(new, p) = Before(events[s], p)
    <3>0. PICK n \in 0..MaxRows : DOMAIN events[s] = 1..n
      BY <1>1, SoundType
    <3>1. TAKE p
    <3>2. {x \in DOMAIN new : x < p} = {x \in DOMAIN events[s] : x < p}
      BY <2>6
    <3>3. Before(new, p) = LastSeq([x \in {x \in DOMAIN new : x < p} |-> new[x]])
      BY DEF Before
    <3>4. \A a, b : DOMAIN a = DOMAIN b => LastSeq(a) = LastSeq(b)
      BY DEF LastSeq
    <3> HIDE DEF new
    <3>5. QED
      BY <3>2, <3>3, <3>4 DEF Before
  <2>9. /\ events'[s] = new /\ DOMAIN events' = Sessions
        /\ \A x \in Sessions : Sound(events'[x])
        /\ \A x \in Sessions \ {s} : events'[x] = events[x]
    <3> HIDE DEF new
    <3>1. QED
      BY <1>1, <2>4, <2>5, OneLogChanges
  <2> HIDE DEF new
  <2>10. TypeOK'
    <3>1. \A x \in Sessions : /\ DOMAIN events'[x] \subseteq 1..MaxRows
                              /\ \A p \in DOMAIN events'[x] : events'[x][p] \in Rows
      BY <2>9, TableType
    <3>2. QED
      BY <1>1, <2>1, <2>2, <2>9, <3>1 DEF TypeOK, Seqs
  <2>11. ConvertInv'
    BY <1>1, <2>2 DEF ConvertInv
  <2>12. BackfillInv'
    <3>1. \A row \in todo' : row[2] \in DOMAIN events'[row[1]] /\ Before(events'[row[1]], row[2]) # 0
      <4>1. TAKE row \in todo'
      <4>2. row \in todo /\ row[1] \in Sessions
        BY <1>1, <2>1 DEF TypeOK
      <4>3. row[2] \in DOMAIN events[row[1]] /\ Before(events[row[1]], row[2]) # 0
        BY <1>1, <4>2 DEF BackfillInv, Seqs
      <4>4. QED
        BY <2>6, <2>8, <2>9, <4>2, <4>3
    <3>2. QED
      BY <1>1, <2>1, <2>2, <3>1 DEF BackfillInv, Seqs
  <2>13. DigestsThere'
    <3> SUFFICES ASSUME hasColumn', upgraded', NEW x \in Sessions, parent'[x].copied = 0,
                        NEW p \in DOMAIN events'[x]
                 PROVE  \/ events'[x][p].prev # NoDigest
                        \/ Before(events'[x], p) = 0
                        \/ <<x, p>> \in todo'
      BY DEF DigestsThere, Seqs
    <3>1. p \in DOMAIN events[x]
      BY <2>6, <2>9
    <3>2. \/ events[x][p].prev # NoDigest \/ Before(events[x], p) = 0 \/ <<x, p>> \in todo
      BY <1>1, <2>2, <3>1 DEF DigestsThere, Seqs
    <3>3. CASE x = s
      BY <2>1, <2>4, <2>6, <2>7, <2>8, <2>9, <3>1, <3>2, <3>3
    <3>4. CASE x # s
      BY <2>1, <2>9, <3>2, <3>4
    <3>5. QED
      BY <3>3, <3>4
  <2>14. QED
    BY <2>9, <2>10, <2>11, <2>12, <2>13 DEF IInv
<1>5. CASE BackfillDone
  <2> USE <1>1, <1>5 DEF BackfillDone
  <2>1. TypeOK'
    BY DEF TypeOK, Seqs, HasTranscript
  <2>2. ConvertInv'
    BY DEF ConvertInv
  <2>3. BackfillInv'
    BY DEF BackfillInv, Seqs
  <2>4. DigestsThere'
    BY DEF DigestsThere, Seqs
  <2>5. QED
    BY <2>1, <2>2, <2>3, <2>4 DEF IInv
<1>6. CASE \E s \in Sessions : ConvertSession(s)
  <2>1. PICK s \in Sessions : ConvertSession(s)
    BY <1>6
  <2> USE <1>1, <2>1 DEF ConvertSession
  <2>2. OldTranscripts[s] \in Seq(Contents) /\ Len(OldTranscripts[s]) <= MaxRows
    BY ConstantsAssumption DEF ContentLogs
  <2>3. TypeOK'
    BY <2>2 DEF TypeOK, Seqs
  <2>4. ConvertInv'
    <3>1. Seqs(s) = {} => LastSeq(events[s]) = 0
      BY DEF LastSeq, Seqs
    <3>2. QED
      BY <2>2, <3>1 DEF ConvertInv
  <2>5. BackfillInv'
    BY DEF BackfillInv, Seqs
  <2>6. DigestsThere'
    BY DEF DigestsThere, Seqs
  <2>7. QED
    BY <2>3, <2>4, <2>5, <2>6 DEF IInv
<1>7. CASE ConvertRow
  <2>1. /\ phase = "converting" /\ left # <<>>
        /\ events' = [events EXCEPT ![current] = Appended(events[current], Head(left))]
        /\ left' = Tail(left)
        /\ UNCHANGED <<hasColumn, phase, todo, unconverted, current, crashes, upgraded, parent>>
    BY <1>7 DEF ConvertRow
  <2> DEFINE new == Appended(events[current], Head(left))
  <2>2. /\ left \in Seq(Contents) /\ Head(left) \in Contents
        /\ Len(Tail(left)) = Len(left) - 1 /\ Tail(left) \in Seq(Contents)
        /\ Len(left) \in Nat /\ Len(left) >= 1
    BY <1>1, <2>1 DEF TypeOK
  <2>3. current \in Sessions /\ LastSeq(events[current]) + Len(left) <= MaxRows
    BY <1>1, <2>1 DEF ConvertInv
  <2>4. Head(left).kind \in Kinds /\ Head(left).payload \in Payloads
    BY <2>2 DEF Contents
  <2>5. LastSeq(events[current]) \in Nat /\ MaxRows \in Nat
    BY <1>1, <2>3, SoundType, ConstantsAssumption
  <2>6. LastSeq(events[current]) < MaxRows
    BY <2>2, <2>3, <2>5
  <2>7. Sound(new)
    BY <1>1, <2>3, <2>4, <2>6, SoundAppended
  <2>8. /\ LastSeq(new) = LastSeq(events[current]) + 1
        /\ \A q \in DOMAIN new :
             \/ /\ q \in DOMAIN events[current]
                /\ new[q] = events[current][q]
                /\ Before(new, q) = Before(events[current], q)
             \/ new[q].prev # NoDigest
             \/ Before(new, q) = 0
    BY <1>1, <2>3, <2>4, AppendedChain
  <2> HIDE DEF new
  <2>9. /\ events'[current] = new /\ DOMAIN events' = Sessions
        /\ \A x \in Sessions : Sound(events'[x])
        /\ \A x \in Sessions \ {current} : events'[x] = events[x]
    BY <1>1, <2>1, <2>3, <2>7, OneLogChanges DEF new
  <2>10. TypeOK'
    <3>1. \A x \in Sessions : /\ DOMAIN events'[x] \subseteq 1..MaxRows
                              /\ \A p \in DOMAIN events'[x] : events'[x][p] \in Rows
      BY <2>9, TableType
    <3>2. QED
      BY <1>1, <2>1, <2>2, <2>9, <3>1 DEF TypeOK, Seqs
  <2>11. ConvertInv'
    BY <2>1, <2>2, <2>3, <2>5, <2>8, <2>9 DEF ConvertInv
  <2>12. BackfillInv'
    BY <1>1, <2>1 DEF BackfillInv, Seqs
  <2>13. DigestsThere'
    BY <1>1, <2>1, <2>3, <2>8, <2>9 DEF DigestsThere, Seqs
  <2>14. QED
    BY <2>9, <2>10, <2>11, <2>12, <2>13 DEF IInv
<1>8. CASE ConvertDone
  <2> USE <1>1, <1>8 DEF ConvertDone
  <2>1. TypeOK'
    BY DEF TypeOK, Seqs
  <2>2. ConvertInv' /\ BackfillInv'
    BY DEF ConvertInv, BackfillInv, Seqs
  <2>3. DigestsThere'
    BY DEF DigestsThere, Seqs
  <2>4. QED
    BY <2>1, <2>2, <2>3 DEF IInv
<1>9. CASE ConvertFails
  <2> USE <1>1, <1>9 DEF ConvertFails
  <2>1. TypeOK'
    BY DEF TypeOK, Seqs
  <2>2. ConvertInv' /\ BackfillInv'
    BY DEF ConvertInv, BackfillInv, Seqs
  <2>3. DigestsThere'
    BY DEF DigestsThere, Seqs
  <2>4. QED
    BY <2>1, <2>2, <2>3 DEF IInv
<1>10. CASE \E s \in Sessions, kind \in Kinds, payload \in NewPayloads :
              AppendEvent(s, [kind |-> kind, payload |-> payload])
  <2>1. PICK s \in Sessions, kind \in Kinds, payload \in NewPayloads :
              AppendEvent(s, [kind |-> kind, payload |-> payload])
    BY <1>10
  <2> DEFINE content == [kind |-> kind, payload |-> payload]
             new == Appended(events[s], content)
  <2>2. /\ phase = "up"
        /\ Cardinality(Seqs(s)) < MaxRows
        /\ events' = [events EXCEPT ![s] = new]
        /\ UNCHANGED <<hasColumn, phase, boot, crashes, upgraded, parent>>
    BY <2>1 DEF AppendEvent
  <2>3. content.kind \in Kinds /\ content.payload \in Payloads
    BY ConstantsAssumption
  <2>4. LastSeq(events[s]) < MaxRows
    <3>1. PICK n \in 0..MaxRows : DOMAIN events[s] = 1..n /\ LastSeq(events[s]) = n
      BY <1>1, SoundType
    <3>2. Cardinality(1..n) = n
      BY <3>1, FS_Interval
    <3>3. QED
      BY <2>2, <3>1, <3>2 DEF Seqs
  <2> HIDE DEF content
  <2>5. Sound(new)
    BY <1>1, <2>3, <2>4, SoundAppended
  <2>6. \A q \in DOMAIN new :
             \/ /\ q \in DOMAIN events[s]
                /\ new[q] = events[s][q]
                /\ Before(new, q) = Before(events[s], q)
             \/ new[q].prev # NoDigest
             \/ Before(new, q) = 0
    BY <1>1, <2>3, AppendedChain
  <2> HIDE DEF new
  <2>7. /\ events'[s] = new /\ DOMAIN events' = Sessions
        /\ \A x \in Sessions : Sound(events'[x])
        /\ \A x \in Sessions \ {s} : events'[x] = events[x]
    BY <1>1, <2>2, <2>5, OneLogChanges
  <2>8. todo = {} /\ todo' = {} /\ left = <<>> /\ left' = <<>>
    BY <1>1, <2>2 DEF BackfillInv, ConvertInv, boot
  <2>9. TypeOK'
    <3>1. \A x \in Sessions : /\ DOMAIN events'[x] \subseteq 1..MaxRows
                              /\ \A p \in DOMAIN events'[x] : events'[x][p] \in Rows
      BY <2>7, TableType
    <3>2. QED
      BY <1>1, <2>2, <2>7, <3>1 DEF TypeOK, Seqs, boot
  <2>10. ConvertInv' /\ BackfillInv'
    BY <1>1, <2>2, <2>8 DEF ConvertInv, BackfillInv
  <2>11. DigestsThere'
    BY <1>1, <2>2, <2>6, <2>7, <2>8 DEF DigestsThere, Seqs
  <2>12. QED
    BY <2>7, <2>9, <2>10, <2>11 DEF IInv
<1>11. CASE \E from, into \in Sessions, at \in 0..MaxRows : ForkEvents(from, at, into)
  <2>1. PICK from \in Sessions, into \in Sessions, at \in 0..MaxRows : ForkEvents(from, at, into)
    BY <1>11
  <2> DEFINE new == Forked(events[from], at)
             fork == [from |-> from, copied |-> LastSeq(new)]
  <2>2. /\ phase = "up"
        /\ events' = [events EXCEPT ![into] = new]
        /\ parent' = [parent EXCEPT ![into] = fork]
        /\ UNCHANGED <<hasColumn, phase, boot, crashes, upgraded>>
    BY <2>1 DEF ForkEvents
  <2>3. Sound(new)
    BY <1>1, SoundForked, ConstantsAssumption
  <2> HIDE DEF new
  <2>4. /\ events'[into] = new /\ DOMAIN events' = Sessions
        /\ \A x \in Sessions : Sound(events'[x])
        /\ \A x \in Sessions \ {into} : events'[x] = events[x]
    BY <1>1, <2>2, <2>3, OneLogChanges
  <2>5. todo = {} /\ todo' = {} /\ left = <<>> /\ left' = <<>>
    BY <1>1, <2>2 DEF BackfillInv, ConvertInv, boot
  <2>6. /\ LastSeq(new) \in 0..MaxRows
        /\ LastSeq(new) = 0 => DOMAIN new = {}
    BY <2>3, SoundType
  <2>7. parent' \in [Sessions -> [from : Sessions \cup {None}, copied : 0..MaxRows]]
    BY <1>1, <2>2, <2>6 DEF TypeOK
  <2>8. TypeOK'
    <3>1. \A x \in Sessions : /\ DOMAIN events'[x] \subseteq 1..MaxRows
                              /\ \A p \in DOMAIN events'[x] : events'[x][p] \in Rows
      BY <2>4, TableType
    <3>2. QED
      BY <1>1, <2>2, <2>4, <2>7, <3>1 DEF TypeOK, Seqs, boot
  <2>9. ConvertInv' /\ BackfillInv'
    BY <1>1, <2>2, <2>5 DEF ConvertInv, BackfillInv
  <2>10. DigestsThere'
    <3>1. parent'[into].copied = LastSeq(new) /\ \A x \in Sessions \ {into} : parent'[x] = parent[x]
      BY <1>1, <2>2 DEF TypeOK
    <3>2. parent'[into].copied = 0 => DOMAIN events'[into] = {}
      BY <2>4, <2>6, <3>1
    <3>3. QED
      BY <1>1, <2>2, <2>4, <2>5, <3>1, <3>2 DEF DigestsThere, Seqs
  <2>11. QED
    BY <2>4, <2>8, <2>9, <2>10 DEF IInv
<1>12. CASE \E s \in Sessions : PurgeSessionEvents(s)
  <2>1. PICK s \in Sessions : PurgeSessionEvents(s)
    BY <1>12
  <2>2. /\ phase = "up"
        /\ events' = [events EXCEPT ![s] = <<>>]
        /\ parent' = [c \in Sessions |->
                        IF c = s THEN NoFork
                        ELSE IF parent[c].from = s THEN [from |-> None, copied |-> parent[c].copied]
                        ELSE parent[c]]
        /\ UNCHANGED <<hasColumn, phase, boot, crashes, upgraded>>
    BY <2>1 DEF PurgeSessionEvents
  <2>3. /\ events'[s] = <<>> /\ DOMAIN events' = Sessions
        /\ \A x \in Sessions : Sound(events'[x])
        /\ \A x \in Sessions \ {s} : events'[x] = events[x]
    BY <1>1, <2>2, SoundEmpty, OneLogChanges
  <2>4. todo = {} /\ todo' = {} /\ left = <<>> /\ left' = <<>>
    BY <1>1, <2>2 DEF BackfillInv, ConvertInv, boot
  <2>5. /\ parent' \in [Sessions -> [from : Sessions \cup {None}, copied : 0..MaxRows]]
        /\ \A x \in Sessions \ {s} : parent'[x].copied = parent[x].copied
    BY <1>1, <2>2, ConstantsAssumption DEF TypeOK, NoFork
  <2>6. TypeOK'
    <3>1. \A x \in Sessions : /\ DOMAIN events'[x] \subseteq 1..MaxRows
                              /\ \A p \in DOMAIN events'[x] : events'[x][p] \in Rows
      BY <2>3, TableType
    <3>2. QED
      BY <1>1, <2>2, <2>3, <2>5, <3>1 DEF TypeOK, Seqs, boot
  <2>7. ConvertInv' /\ BackfillInv'
    BY <1>1, <2>2, <2>4 DEF ConvertInv, BackfillInv
  <2>8. DigestsThere'
    <3>1. DOMAIN events'[s] = {}
      BY <2>3
    <3>2. QED
      BY <1>1, <2>2, <2>3, <2>4, <2>5, <3>1 DEF DigestsThere, Seqs
  <2>9. QED
    BY <2>3, <2>6, <2>7, <2>8 DEF IInv
<1>13. CASE Crash
  <2> USE <1>1, <1>13 DEF Crash
  <2>1. TypeOK'
    BY ConstantsAssumption DEF TypeOK, Seqs
  <2>2. ConvertInv' /\ BackfillInv'
    BY DEF ConvertInv, BackfillInv, Seqs
  <2>3. DigestsThere'
    BY DEF DigestsThere, Seqs
  <2>4. QED
    BY <2>1, <2>2, <2>3 DEF IInv
<1>14. CASE UNCHANGED vars
  <2> USE <1>1, <1>14 DEF vars
  <2>1. TypeOK'
    BY DEF TypeOK, Seqs
  <2>2. ConvertInv' /\ BackfillInv'
    BY DEF ConvertInv, BackfillInv, Seqs
  <2>3. DigestsThere'
    BY DEF DigestsThere, Seqs
  <2>4. QED
    BY <2>1, <2>2, <2>3 DEF IInv
<1>15. QED
  BY <1>2, <1>3, <1>4, <1>5, <1>6, <1>7, <1>8, <1>9, <1>10, <1>11, <1>12, <1>13, <1>14 DEF Next

LEMMA Invariance == Spec => []IInv
<1>1. QED
  BY InitInv, NextInv, PTL DEF Spec

-----------------------------------------------------------------------------
(* The theorems. *)

\* Type correctness.
THEOREM TypeCorrect == Spec => []TypeOK
<1>1. IInv => TypeOK
  BY DEF IInv
<1>2. QED
  BY <1>1, Invariance, PTL

\* Store::append_event and fork_events number the rows of every session 1..n.
THEOREM NumbersAreGapless == Spec => []Gapless
<1>1. IInv => Gapless
  <2> SUFFICES ASSUME IInv, NEW s \in Sessions PROVE Seqs(s) = 1..Cardinality(Seqs(s))
    BY DEF Gapless
  <2>1. PICK n \in 0..MaxRows : DOMAIN events[s] = 1..n
    BY SoundType DEF IInv
  <2>2. Cardinality(1..n) = n
    BY FS_Interval
  <2>3. QED
    BY <2>1, <2>2 DEF Seqs
<1>2. QED
  BY <1>1, Invariance, PTL

\* append_event_at and migrate_digests write no digest but that of the row before.
THEOREM DigestsAreTrue == Spec => []DigestsTrue
<1>1. IInv => DigestsTrue
  BY DEF IInv, DigestsTrue, Sound, Seqs
<1>2. QED
  BY <1>1, Invariance, PTL

\* verify_chain_internal finds an unforked session of a fully upgraded table intact.
THEOREM ChainsAreIntact == Spec => []ChainIntact
<1>1. IInv => ChainIntact
  <2> SUFFICES ASSUME IInv, phase \in {"converting", "up"}, upgraded, NEW s \in Sessions,
                      parent[s].copied = 0, NEW q \in DOMAIN events[s]
               PROVE  RowVerifies(events[s], q)
    BY DEF ChainIntact, Verify
  <2>1. hasColumn /\ todo = {}
    BY DEF IInv, BackfillInv, TypeOK
  <2>2. events[s][q].prev # NoDigest \/ Before(events[s], q) = 0
    BY <2>1 DEF IInv, DigestsThere, Seqs
  <2>3. CASE events[s][q].prev # NoDigest
    BY <2>3 DEF IInv, Sound
  <2>4. CASE events[s][q].prev = NoDigest
    BY <2>2, <2>4 DEF RowVerifies
  <2>5. QED
    BY <2>3, <2>4
<1>2. QED
  BY <1>1, Invariance, PTL

\* No operation of the store edits, renumbers or drops a row, purge_session_events apart.
THEOREM LogIsAppendOnly == Spec => AppendOnly
<1> DEFINE Step == \A s \in Sessions : KeepsRows(s) \/ DOMAIN events'[s] = {}
<1>1. IInv /\ [Next]_vars => [Step]_vars
  <2> SUFFICES ASSUME IInv, Next, NEW s \in Sessions, DOMAIN events'[s] # {}
               PROVE  KeepsRows(s)
    OBVIOUS
  <2>1. Sound(events[s]) /\ DOMAIN events = Sessions
    BY DEF IInv, TypeOK
  <2>2. ASSUME events'[s] = events[s] PROVE KeepsRows(s)
    BY <2>2 DEF KeepsRows, Seqs
  <2>3. ASSUME NEW content, events'[s] = Appended(events[s], content) PROVE KeepsRows(s)
    <3>1. PICK n \in 0..MaxRows : DOMAIN events[s] = 1..n
      BY <2>1, SoundType
    <3>2. n \in Nat
      BY <3>1
    <3>3. DOMAIN events'[s] = 1..(n + 1) /\ \A q \in 1..n : events'[s][q] = events[s][q]
      BY <2>3, <3>1, <3>2, AppendedOf
    <3>4. QED
      BY <3>1, <3>2, <3>3 DEF KeepsRows, Seqs
  <2>4. CASE BackfillRow
    <3>1. PICK x \in Sessions, q \in 1..MaxRows :
            /\ <<x, q>> \in todo
            /\ events' = [events EXCEPT ![x][q] =
                            WithPrev(@, Digest(Before(events[x], q), events[x][Before(events[x], q)]))]
      BY <2>4 DEF BackfillRow
    <3> DEFINE link == Digest(Before(events[x], q), events[x][Before(events[x], q)])
               new == [events[x] EXCEPT ![q] = WithPrev(@, link)]
    <3>2. q \in DOMAIN events[x] /\ Before(events[x], q) # 0
      BY <3>1 DEF IInv, BackfillInv, Seqs
    <3>3. events'[s] = IF s = x THEN new ELSE events[s]
      BY <2>1, <3>1
    <3>4. CASE s = x
      <4>1. PICK n \in 0..MaxRows : events[s] \in [1..n -> Rows]
        BY <2>1 DEF Sound, LogOK
      <4>2. DOMAIN events[s] = 1..n /\ q \in 1..n /\ n \in Nat
        BY <3>2, <3>4, <4>1
      <4>3. /\ WithPrev(events[s][q], link).kind = events[s][q].kind
            /\ WithPrev(events[s][q], link).payload = events[s][q].payload
            /\ WithPrev(events[s][q], link).prev = link
        BY DEF WithPrev
      <4>4. events[s][q].prev # NoDigest => events[s][q].prev = link
        BY <2>1, <3>2, <3>4 DEF Sound, RowVerifies
      <4> HIDE DEF link
      <4>5. \A p \in 1..n : events'[s][p] = IF p = q THEN WithPrev(events[s][q], link) ELSE events[s][p]
        BY <3>3, <3>4, <4>1
      <4>6. DOMAIN events'[s] = 1..n
        BY <3>3, <3>4, <4>1
      <4>7. QED
        BY <4>2, <4>3, <4>4, <4>5, <4>6 DEF KeepsRows, Seqs
    <3>5. QED
      BY <2>2, <3>3, <3>4
  <2>5. CASE ConvertRow
    BY <2>1, <2>2, <2>3, <2>5 DEF ConvertRow
  <2>6. CASE \E x \in Sessions, kind \in Kinds, payload \in NewPayloads :
               AppendEvent(x, [kind |-> kind, payload |-> payload])
    BY <2>1, <2>2, <2>3, <2>6 DEF AppendEvent
  <2>7. CASE \E from, into \in Sessions, at \in 0..MaxRows : ForkEvents(from, at, into)
    <3>1. PICK from \in Sessions, into \in Sessions, at \in 0..MaxRows : ForkEvents(from, at, into)
      BY <2>7
    <3>2. CASE s = into
      BY <3>1, <3>2 DEF ForkEvents, KeepsRows, Seqs
    <3>3. CASE s # into
      BY <2>1, <2>2, <3>1, <3>3 DEF ForkEvents
    <3>4. QED
      BY <3>2, <3>3
  <2>8. CASE \E x \in Sessions : PurgeSessionEvents(x)
    <3>1. PICK x \in Sessions : PurgeSessionEvents(x)
      BY <2>8
    <3>2. s # x
      BY <2>1, <3>1 DEF PurgeSessionEvents
    <3>3. QED
      BY <2>1, <2>2, <3>1, <3>2 DEF PurgeSessionEvents
  <2>9. CASE OpenCurrent \/ OpenOld \/ BackfillDone \/ ConvertDone \/ ConvertFails \/ Crash
              \/ \E x \in Sessions : ConvertSession(x)
    BY <2>2, <2>9 DEF OpenCurrent, OpenOld, BackfillDone, ConvertDone, ConvertFails, Crash, ConvertSession
  <2>10. QED
    BY <2>4, <2>5, <2>6, <2>7, <2>8, <2>9 DEF Next
<1>2. AppendOnly <=> [][Step]_vars
  BY DEF AppendOnly
<1>3. QED
  BY <1>1, <1>2, Invariance, PTL DEF Spec

-----------------------------------------------------------------------------
(* The way to the log: starts of the gateway, and the file they read.        *)

Stored == Starters \cup UNION {UNION {old[x] : x \in DOMAIN old} : old \in OldSessions}

Ways == {"traced", "looking", "found", "moving", "placed"}
Opened == {"booted", "serving", "writing"}
Gateways ==
    {r \in [pc : Ways \cup Opened \cup {"down", "verified"}, command : L!Commands,
            dir : L!Places \cup {"none"}, at : L!Places \cup {"none", "memory", "gone"},
            opened : L!Places \cup {"none", "memory"}, seen : SUBSET Stored, knew : SUBSET Stored,
            principals : {"none", "refused", "configured", "operator", "everybody"},
            verdict : {"none", "no sessions", "broken", "intact"}] :
        /\ r.pc \in {"found", "moving"} => r.dir \in {"data", "beside"}
        /\ r.pc = "placed" => r.dir \in L!Places}

LaunchTyped ==
    /\ store \in [L!Places -> [there : BOOLEAN, sessions : SUBSET Stored, torn : BOOLEAN]]
    /\ journal \in [L!Places -> BOOLEAN] /\ proc \in [Starters -> Gateways]
    /\ installed \in BOOLEAN /\ movable \in BOOLEAN /\ disturbed \in BOOLEAN
    /\ known \subseteq Stored

\* The place of the store in use.
Home ==
    IF ~installed THEN "config"
    ELSE IF store["state"].there THEN "state"
    ELSE IF store["data"].there THEN "data"
    ELSE IF store["beside"].there THEN "beside" ELSE "state"

\* It stays where it is.
Stays == Home \in {"data", "beside"} => ~movable

\* On its way to a store: what was found is still there, and is the one in use.
WayFits(r) ==
    /\ r.pc \in Ways => L!Loads(file)
    /\ r.pc \in {"looking", "found", "moving"} => installed /\ file.storage = "relative"
    /\ r.pc \in {"found", "moving"} =>
         /\ r.dir \in {"data", "beside"} /\ store[r.dir].there
         /\ r.dir = "beside" => ~store["data"].there
    /\ r.pc = "moving" => ~store["state"].there
    /\ r.pc = "placed" /\ file.storage = "relative" => r.dir = Home /\ Stays
    /\ r.pc = "booted" /\ file.storage = "relative" => r.at = Home /\ Stays

\* Who has a store open has the one in use, unless the path is an absolute one.
OpenFits(r) ==
    /\ r.pc \in Opened =>
         /\ r.at \in {Home, "absolute", "memory"} /\ r.opened = r.at
         /\ r.at # "memory" => store[r.at].there
    /\ r.pc = "writing" => r.at # "memory"
    /\ r.pc # "down" => r.knew \subseteq r.seen

ProcsFit == \A p \in Starters : WayFits(proc[p]) /\ OpenFits(proc[p])

\* Nobody else starts meanwhile.
AloneInv == \A p, q \in Starters : proc[p].pc \in Ways /\ proc[q].pc \in Ways => p = q

TornInv == \A x \in L!Places : store[x].torn => journal[x]
KnownInv == known \subseteq store[Home].sessions

Calm == ProcsFit /\ AloneInv /\ TornInv /\ KnownInv

LaunchInv == LaunchTyped /\ (~disturbed => Calm)

LEMMA LoadsStay ==
  ASSUME file' = file, env' = env
  PROVE  L!Loads(file)' = L!Loads(file)
<1>0. ASSUME NEW entry PROVE L!Unexpanded(entry)' = L!Unexpanded(entry)
  BY DEF L!Unexpanded, L!SelectInSeq
<1>1. ASSUME NEW entry PROVE L!EntryFaults(entry)' = L!EntryFaults(entry)
  BY <1>0 DEF L!EntryFaults, L!Fault
<1> QED
  BY <1>1 DEF L!Loads, L!Loaded, L!InstanceFaults, L!CategoryFaults, L!Fault, L!NoFault, L!StoreFaults, L!Enabled,
     L!ObservabilityFaults, L!NoFile

\* A set of naturals has a least member.
LEMMA LeastOf ==
  ASSUME NEW I \in SUBSET Nat, I # {}
  PROVE  L!Min(I) \in I /\ \A i \in I : L!Min(I) <= i
<1> DEFINE Less == {ss \in Nat \X Nat : ss[1] < ss[2]}
<1>1. IsWellFoundedOn(Less, Nat)
  BY NatLessThanWellFounded, Zenon DEF OpToRel
<1> HIDE DEF Less
<1>2. PICK m \in I : \A y \in I : ~ (<<y, m>> \in Less)
  BY <1>1, WFMin
<1>3. \A y \in I : m <= y
  <2> SUFFICES ASSUME NEW y \in I, ~(m <= y) PROVE FALSE
    OBVIOUS
  <2>1. y \in Nat /\ m \in Nat /\ y < m
    BY <1>2
  <2>2. <<y, m>> \in Less
    BY <2>1 DEF Less
  <2> QED
    BY <1>2, <2>2
<1>4. \E x \in I : \A y \in I : x <= y
  BY <1>3
<1> QED
  BY <1>4 DEF L!Min

\* The first legacy place with a store.
LEMMA FirstLeftIs ==
  ASSUME LaunchTyped
  PROVE  L!FirstLeft = IF store["data"].there THEN 1 ELSE IF store["beside"].there THEN 2 ELSE 0
<1> DEFINE I == {i \in 1..2 : store[<<"data", "beside">>[i]].there}
<1>1. L!FirstLeft = IF I # {} THEN L!Min(I) ELSE 0
  <2>1. Len(<<"data", "beside">>) = 2
    OBVIOUS
  <2> QED
    BY <2>1 DEF L!FirstLeft, L!SelectInSeq, L!Legacies
<1>2. I \in SUBSET Nat /\ \A i \in I : i \in {1, 2}
  OBVIOUS
<1>3. 1 \in I <=> store["data"].there
  OBVIOUS
<1>4. 2 \in I <=> store["beside"].there
  OBVIOUS
<1> HIDE DEF I
<1>5. CASE store["data"].there
  <2>1. L!Min(I) \in I /\ L!Min(I) <= 1
    BY <1>2, <1>3, <1>5, LeastOf
  <2>2. L!Min(I) = 1
    <3>1. L!Min(I) \in {1, 2}
      BY <1>2, <2>1, Zenon
    <3> QED
      BY <2>1, <3>1
  <2>3. L!FirstLeft = L!Min(I)
    BY <1>1, <1>3, <1>5
  <2> QED
    BY <1>5, <2>2, <2>3
<1>6. CASE ~store["data"].there /\ store["beside"].there
  <2>1. L!Min(I) \in I
    BY <1>2, <1>4, <1>6, LeastOf
  <2>2. L!Min(I) = 2
    BY <1>2, <1>3, <1>6, <2>1
  <2>3. L!FirstLeft = L!Min(I)
    BY <1>1, <1>4, <1>6
  <2> QED
    BY <1>6, <2>2, <2>3
<1>7. CASE ~store["data"].there /\ ~store["beside"].there
  <2>1. I = {}
    BY <1>2, <1>3, <1>4, <1>7
  <2> QED
    BY <1>1, <1>7, <2>1
<1> QED
  BY <1>5, <1>6, <1>7

\* What the command of a gateway reads of the file is of its kind.
LEMMA WordsOf ==
         /\ \A doc : L!Principals(doc) \in {"none", "refused", "configured", "operator", "everybody"}
         /\ \A sessions : L!Verdict(sessions) \in {"none", "no sessions", "broken", "intact"}
<1>1. ASSUME NEW doc PROVE L!Principals(doc) \in {"none", "refused", "configured", "operator", "everybody"}
  BY DEF L!Principals
<1>2. ASSUME NEW sessions PROVE L!Verdict(sessions) \in {"none", "no sessions", "broken", "intact"}
  BY DEF L!Verdict
<1> QED
  BY <1>1, <1>2

\* The file and the stores as they are, a gateway goes on, or ends.
Rests == UNCHANGED <<file, env, store, journal, installed, movable, known>>

LEMMA GoesOn ==
  ASSUME LaunchTyped, NEW p \in Starters, NEW r \in Gateways, proc' = [proc EXCEPT ![p] = r], Rests,
         disturbed' \in BOOLEAN,
         disturbed => disturbed',
         ~disturbed' =>
           /\ Calm /\ WayFits(r) /\ OpenFits(r)
           /\ r.pc \in Ways => \A q \in Starters \ {p} : proc[q].pc \notin Ways
  PROVE  LaunchInv'
<1>1. LaunchTyped'
  BY DEF LaunchTyped, Rests
<1>2. ASSUME ~disturbed' PROVE Calm'
  <2>1. Home' = Home /\ Stays' = Stays
    BY DEF Rests, Home, Stays
  <2>2. L!Loads(file)' = L!Loads(file)
    BY LoadsStay DEF Rests
  <2>3. proc'[p] = r /\ \A q \in Starters : q # p => proc'[q] = proc[q]
    BY DEF LaunchTyped
  <2>4. ASSUME NEW q \in Starters PROVE WayFits(proc[q])'
    <3>1. WayFits(proc'[q])
      BY <1>2, <2>3 DEF Calm, ProcsFit
    <3> QED
      BY <2>1, <2>2, <3>1 DEF Rests, WayFits
  <2>5. ASSUME NEW q \in Starters PROVE OpenFits(proc[q])'
    <3>1. OpenFits(proc'[q])
      BY <1>2, <2>3 DEF Calm, ProcsFit
    <3> QED
      BY <2>1, <3>1 DEF Rests, OpenFits
  <2>6. ProcsFit'
    BY <2>4, <2>5 DEF ProcsFit
  <2>7. AloneInv'
    BY <1>2, <2>3 DEF Calm, AloneInv
  <2>8. TornInv' /\ KnownInv'
    BY <1>2, <2>1 DEF Rests, Calm, TornInv, KnownInv
  <2> QED
    BY <2>6, <2>7, <2>8 DEF Calm
<1> QED
  BY <1>1, <1>2 DEF LaunchInv

\* What a step makes of a gateway.
LEMMA Changed ==
  ASSUME LaunchTyped, NEW p \in Starters, NEW pc \in Ways, NEW dir \in L!Places
  PROVE  LET one == [proc[p] EXCEPT !.pc = pc]
             two == [proc[p] EXCEPT !.pc = pc, !.dir = dir]
         IN /\ pc = "looking" \/ proc[p].dir \in {"data", "beside"} => one \in Gateways
            /\ pc = "placed" \/ dir \in {"data", "beside"} => two \in Gateways
            /\ one.pc = pc /\ one.dir = proc[p].dir /\ two.pc = pc /\ two.dir = dir
            /\ one.knew = proc[p].knew /\ one.seen = proc[p].seen
            /\ two.knew = proc[p].knew /\ two.seen = proc[p].seen
<1>1. proc[p] \in Gateways
  BY DEF LaunchTyped
<1> QED
  BY <1>1 DEF Gateways

LEMMA StartStep ==
  ASSUME LaunchInv, NEW p \in Starters, NEW command \in L!Commands, L!Start(p, command)
  PROVE  LaunchInv'
<1> DEFINE r == IF L!Loads(file) THEN [L!Down EXCEPT !.pc = "traced", !.command = command] ELSE L!Down
<1>1. /\ proc' = [proc EXCEPT ![p] = r] /\ Rests /\ LaunchTyped
      /\ disturbed' = (disturbed \/ (L!Loads(file) /\ \E q \in Starters : L!Starting(q)))
  BY DEF LaunchInv, L!Start, Rests, L!configvars
<1>2. r \in Gateways
  BY DEF Gateways, L!Down, Ways, Opened, L!Commands
<1>3. disturbed' \in BOOLEAN /\ (disturbed => disturbed')
  BY <1>1 DEF LaunchTyped
<1>4. ASSUME ~disturbed'
      PROVE  /\ Calm /\ WayFits(r) /\ OpenFits(r)
             /\ r.pc \in Ways => \A q \in Starters \ {p} : proc[q].pc \notin Ways
  <2>1. r.pc \in {"traced", "down"} /\ r.knew = {} /\ (r.pc = "traced" => L!Loads(file))
    BY DEF L!Down
  <2>2. r.pc \in Ways => \A q \in Starters \ {p} : proc[q].pc \notin Ways
    BY <1>1, <1>4, <2>1 DEF L!Starting, Ways
  <2>3. Calm
    BY <1>1, <1>4 DEF LaunchInv
  <2> HIDE DEF r
  <2> QED
    BY <2>1, <2>2, <2>3 DEF WayFits, OpenFits, Opened, Ways
<1> HIDE DEF r
<1> QED
  BY <1>1, <1>2, <1>3, <1>4, GoesOn

\* A gateway under way goes on alone.
LEMMA StaysAlone ==
  ASSUME AloneInv, NEW p \in Starters, proc[p].pc \in Ways
  PROVE  \A q \in Starters \ {p} : proc[q].pc \notin Ways
BY DEF AloneInv

LEMMA StoreDirStep ==
  ASSUME LaunchInv, NEW p \in Starters, L!StoreDir(p)
  PROVE  LaunchInv'
<1> DEFINE looks == installed /\ L!Loads(file) /\ file.storage = "relative"
           dir == IF installed THEN "state" ELSE "config"
           r == IF looks THEN [proc[p] EXCEPT !.pc = "looking"] ELSE [proc[p] EXCEPT !.pc = "placed", !.dir = dir]
<1>1. /\ proc[p].pc = "traced" /\ proc' = [proc EXCEPT ![p] = r] /\ Rests /\ LaunchTyped /\ disturbed' = disturbed
  BY DEF LaunchInv, L!StoreDir, L!Found, L!Goes, L!OnlyProc, Rests, L!configvars
<1>2. r \in Gateways
  <2>1. dir \in L!Places /\ "looking" \in Ways /\ "placed" \in Ways
    BY DEF L!Places, Ways
  <2> HIDE DEF dir, looks
  <2> QED
    BY <1>1, <2>1, Changed
<1>3. disturbed' \in BOOLEAN /\ (disturbed => disturbed')
  BY <1>1 DEF LaunchTyped
<1>4. ASSUME ~disturbed'
      PROVE  /\ Calm /\ WayFits(r) /\ OpenFits(r)
             /\ r.pc \in Ways => \A q \in Starters \ {p} : proc[q].pc \notin Ways
  <2>1. Calm /\ WayFits(proc[p]) /\ OpenFits(proc[p])
    BY <1>1, <1>4 DEF LaunchInv, Calm, ProcsFit
  <2>2. L!Loads(file)
    BY <1>1, <2>1 DEF WayFits, Ways
  <2>3. /\ looks => r.pc = "looking"
        /\ ~looks => r.pc = "placed" /\ r.dir = dir
        /\ r.knew = proc[p].knew /\ r.seen = proc[p].seen
    BY <1>1 DEF LaunchTyped, Gateways
  <2>4. \A q \in Starters \ {p} : proc[q].pc \notin Ways
    BY <1>1, <2>1, StaysAlone DEF Calm, Ways
  <2> HIDE DEF r
  <2>5. WayFits(r)
    BY <2>2, <2>3 DEF WayFits, Home, Stays, Ways
  <2>6. OpenFits(r)
    BY <1>1, <2>1, <2>3 DEF OpenFits, Opened
  <2> QED
    BY <2>1, <2>4, <2>5, <2>6
<1> HIDE DEF r
<1> QED
  BY <1>1, <1>2, <1>3, <1>4, GoesOn

LEMMA LookBehindStep ==
  ASSUME LaunchInv, NEW p \in Starters, L!LookBehind(p)
  PROVE  LaunchInv'
<1> DEFINE none == ~store["data"].there /\ ~store["beside"].there
           dir == IF store["data"].there THEN "data" ELSE "beside"
           r == IF none THEN [proc[p] EXCEPT !.pc = "placed", !.dir = "state"]
                ELSE [proc[p] EXCEPT !.pc = "found", !.dir = dir]
<1>0. LaunchTyped
  BY DEF LaunchInv
<1>1. /\ L!FirstLeft = 0 <=> none
      /\ ~none => L!Legacies[L!FirstLeft] = dir
  BY <1>0, FirstLeftIs DEF L!Legacies
<1>2. /\ proc[p].pc = "looking" /\ proc' = [proc EXCEPT ![p] = r] /\ Rests /\ disturbed' = disturbed
  BY <1>1 DEF L!LookBehind, L!Found, L!OnlyProc, Rests, L!configvars
<1>3. r \in Gateways
  <2>1. /\ dir \in L!Places /\ dir \in {"data", "beside"}
        /\ "state" \in L!Places /\ "found" \in Ways /\ "placed" \in Ways
    BY DEF L!Places, Ways
  <2> HIDE DEF dir, none
  <2> QED
    BY <1>0, <2>1, Changed
<1>4. disturbed' \in BOOLEAN /\ (disturbed => disturbed')
  BY <1>0, <1>2 DEF LaunchTyped
<1>5. ASSUME ~disturbed'
      PROVE  /\ Calm /\ WayFits(r) /\ OpenFits(r)
             /\ r.pc \in Ways => \A q \in Starters \ {p} : proc[q].pc \notin Ways
  <2>1. Calm /\ WayFits(proc[p]) /\ OpenFits(proc[p])
    BY <1>2, <1>5 DEF LaunchInv, Calm, ProcsFit
  <2>2. L!Loads(file) /\ installed /\ file.storage = "relative"
    BY <1>2, <2>1 DEF WayFits, Ways
  <2>3. /\ none => r.pc = "placed" /\ r.dir = "state"
        /\ ~none => r.pc = "found" /\ r.dir = dir
        /\ r.knew = proc[p].knew /\ r.seen = proc[p].seen
    <3>1. proc[p] \in Gateways
      BY <1>0 DEF LaunchTyped
    <3>2. CASE none
      BY <3>1, <3>2 DEF Gateways
    <3>3. CASE ~none
      BY <3>1, <3>3 DEF Gateways
    <3> QED
      BY <3>2, <3>3
  <2>4. \A q \in Starters \ {p} : proc[q].pc \notin Ways
    BY <1>2, <2>1, StaysAlone DEF Calm, Ways
  <2> HIDE DEF r
  <2>5. WayFits(r)
    BY <2>2, <2>3 DEF WayFits, Home, Stays, Ways
  <2>6. OpenFits(r)
    BY <1>2, <2>1, <2>3 DEF OpenFits, Opened
  <2> QED
    BY <2>1, <2>4, <2>5, <2>6
<1> HIDE DEF r
<1> QED
  BY <1>0, <1>2, <1>3, <1>4, <1>5, GoesOn

LEMMA LookAheadStep ==
  ASSUME LaunchInv, NEW p \in Starters, L!LookAhead(p)
  PROVE  LaunchInv'
<1> DEFINE r == IF store["state"].there THEN [proc[p] EXCEPT !.pc = "placed", !.dir = "state"]
                ELSE [proc[p] EXCEPT !.pc = "moving"]
<1>0. LaunchTyped
  BY DEF LaunchInv
<1>2. /\ proc[p].pc = "found" /\ proc' = [proc EXCEPT ![p] = r] /\ Rests /\ disturbed' = disturbed
  BY DEF L!LookAhead, L!StaysPut, L!Found, L!Goes, L!OnlyProc, Rests, L!configvars
<1>3. r \in Gateways
  <2>1. /\ "state" \in L!Places /\ "moving" \in Ways /\ "placed" \in Ways
        /\ proc[p].dir \in {"data", "beside"}
    BY <1>0, <1>2 DEF LaunchTyped, Gateways, L!Places, Ways
  <2> QED
    BY <1>0, <2>1, Changed
<1>4. disturbed' \in BOOLEAN /\ (disturbed => disturbed')
  BY <1>0, <1>2 DEF LaunchTyped
<1>5. ASSUME ~disturbed'
      PROVE  /\ Calm /\ WayFits(r) /\ OpenFits(r)
             /\ r.pc \in Ways => \A q \in Starters \ {p} : proc[q].pc \notin Ways
  <2>1. Calm /\ WayFits(proc[p]) /\ OpenFits(proc[p])
    BY <1>2, <1>5 DEF LaunchInv, Calm, ProcsFit
  <2>2. L!Loads(file) /\ installed /\ file.storage = "relative"
    BY <1>2, <2>1 DEF WayFits, Ways
  <2>3. /\ store["state"].there => r.pc = "placed" /\ r.dir = "state"
        /\ ~store["state"].there => r.pc = "moving" /\ r.dir = proc[p].dir
        /\ r.knew = proc[p].knew /\ r.seen = proc[p].seen
    BY <1>0 DEF LaunchTyped, Gateways
  <2>4. \A q \in Starters \ {p} : proc[q].pc \notin Ways
    BY <1>2, <2>1, StaysAlone DEF Calm, Ways
  <2> HIDE DEF r
  <2>5. WayFits(r)
    BY <1>2, <2>1, <2>2, <2>3 DEF WayFits, Home, Stays, Ways
  <2>6. OpenFits(r)
    BY <1>2, <2>1, <2>3 DEF OpenFits, Opened
  <2> QED
    BY <2>1, <2>4, <2>5, <2>6
<1> HIDE DEF r
<1> QED
  BY <1>0, <1>2, <1>3, <1>4, <1>5, GoesOn

LEMMA MoveFailsStep ==
  ASSUME LaunchInv, NEW p \in Starters, L!MoveFails(p)
  PROVE  LaunchInv'
<1> DEFINE r == [proc[p] EXCEPT !.pc = "placed"]
<1>0. LaunchTyped
  BY DEF LaunchInv
<1>2. /\ proc[p].pc = "moving" /\ proc' = [proc EXCEPT ![p] = r] /\ Rests /\ disturbed' = disturbed
      /\ ~movable \/ ~store[proc[p].dir].there
  BY DEF L!MoveFails, L!Goes, L!OnlyProc, Rests, L!configvars
<1>3. r \in Gateways
  BY <1>0, <1>2 DEF LaunchTyped, Gateways, Ways
<1>4. disturbed' \in BOOLEAN /\ (disturbed => disturbed')
  BY <1>0, <1>2 DEF LaunchTyped
<1>5. ASSUME ~disturbed'
      PROVE  /\ Calm /\ WayFits(r) /\ OpenFits(r)
             /\ r.pc \in Ways => \A q \in Starters \ {p} : proc[q].pc \notin Ways
  <2>1. Calm /\ WayFits(proc[p]) /\ OpenFits(proc[p])
    BY <1>2, <1>5 DEF LaunchInv, Calm, ProcsFit
  <2>3. r.pc = "placed" /\ r.dir = proc[p].dir /\ r.knew = proc[p].knew /\ r.seen = proc[p].seen
    BY <1>0 DEF LaunchTyped, Gateways
  <2>4. \A q \in Starters \ {p} : proc[q].pc \notin Ways
    BY <1>2, <2>1, StaysAlone DEF Calm, Ways
  <2> HIDE DEF r
  <2>5. WayFits(r)
    BY <1>2, <2>1, <2>3 DEF WayFits, Home, Stays, Ways
  <2>6. OpenFits(r)
    BY <1>2, <2>1, <2>3 DEF OpenFits, Opened
  <2> QED
    BY <2>1, <2>4, <2>5, <2>6
<1> HIDE DEF r
<1> QED
  BY <1>0, <1>2, <1>3, <1>4, <1>5, GoesOn

LEMMA ServeOrEndStep ==
  ASSUME LaunchInv, NEW p \in Starters, L!Serve(p) \/ L!Ends(p) \/ L!BootFails(p)
  PROVE  LaunchInv'
<1>0. LaunchTyped /\ proc[p] \in Gateways
  BY DEF LaunchInv, LaunchTyped
<1>1. Rests /\ disturbed' = disturbed
  BY DEF L!Serve, L!Ends, L!BootFails, L!OnlyProc, Rests, L!configvars
<1>2. disturbed' \in BOOLEAN /\ (disturbed => disturbed')
  BY <1>0, <1>1 DEF LaunchTyped
<1>3. CASE proc' = [proc EXCEPT ![p] = L!Down]
  <2>1. L!Down \in Gateways /\ L!Down.pc = "down"
    BY DEF L!Down, Gateways, L!Commands
  <2>2. WayFits(L!Down) /\ OpenFits(L!Down) /\ L!Down.pc \notin Ways
    BY <2>1 DEF WayFits, OpenFits, Ways, Opened
  <2>3. ~disturbed' => Calm
    BY <1>1 DEF LaunchInv
  <2> QED
    BY <1>0, <1>1, <1>2, <1>3, <2>1, <2>2, <2>3, GoesOn
<1>4. CASE L!Serve(p) /\ proc' # [proc EXCEPT ![p] = L!Down]
  <2> DEFINE r == [proc[p] EXCEPT !.pc = "serving", !.principals = L!Principals(file)]
  <2>1. proc[p].pc = "booted" /\ proc' = [proc EXCEPT ![p] = r]
    BY <1>4 DEF L!Serve, L!Exits
  <2>2. r \in Gateways
    BY <1>0, WordsOf DEF Gateways, Opened
  <2>3. ASSUME ~disturbed'
        PROVE  Calm /\ WayFits(r) /\ OpenFits(r) /\ r.pc \notin Ways
    <3>1. Calm /\ OpenFits(proc[p])
      BY <1>1, <2>3 DEF LaunchInv, Calm, ProcsFit
    <3>2. /\ r.pc = "serving" /\ r.at = proc[p].at /\ r.opened = proc[p].opened
          /\ r.knew = proc[p].knew /\ r.seen = proc[p].seen
      BY <1>0 DEF Gateways
    <3> HIDE DEF r
    <3> QED
      BY <2>1, <3>1, <3>2 DEF WayFits, OpenFits, Ways, Opened
  <2> HIDE DEF r
  <2> QED
    BY <1>0, <1>1, <1>2, <2>1, <2>2, <2>3, GoesOn
<1> QED
  BY <1>3, <1>4 DEF L!Ends, L!BootFails, L!Exits

\* The file changes under nobody who is on its way, or boots.
LEMMA EditStep ==
  ASSUME LaunchInv, env' = env, L!Disturbing
  PROVE  LaunchInv'
<1>1. /\ UNCHANGED <<store, journal, proc, installed, movable, known>>
      /\ disturbed' = (disturbed \/ (file' # file /\ \E p \in Starters : L!Starting(p) \/ proc[p].pc = "booted"))
  BY DEF L!Disturbing
<1>2. LaunchTyped'
  BY <1>1 DEF LaunchInv, LaunchTyped
<1>3. ASSUME ~disturbed' PROVE Calm'
  <2>1. Calm
    BY <1>1, <1>3 DEF LaunchInv
  <2>2. Home' = Home /\ Stays' = Stays
    BY <1>1 DEF Home, Stays
  <2>3. AloneInv' /\ TornInv' /\ KnownInv'
    BY <1>1, <2>1, <2>2 DEF Calm, AloneInv, TornInv, KnownInv
  <2>4. ASSUME NEW p \in Starters PROVE OpenFits(proc[p])'
    BY <1>1, <2>1, <2>2 DEF Calm, ProcsFit, OpenFits
  <2>5. ASSUME NEW p \in Starters PROVE WayFits(proc[p])'
    <3>1. CASE file' = file
      <4>1. L!Loads(file)' = L!Loads(file)
        BY <3>1, LoadsStay
      <4> QED
        BY <1>1, <2>1, <2>2, <3>1, <4>1 DEF Calm, ProcsFit, WayFits
    <3>2. CASE file' # file
      <4>1. proc[p].pc \notin Ways /\ proc[p].pc # "booted"
        BY <1>1, <1>3, <3>2 DEF L!Starting, Ways
      <4> QED
        BY <1>1, <4>1 DEF WayFits, Ways
    <3> QED
      BY <3>1, <3>2
  <2> QED
    BY <2>3, <2>4, <2>5 DEF Calm, ProcsFit
<1> QED
  BY <1>2, <1>3 DEF LaunchInv

LEMMA BeginWriteStep ==
  ASSUME LaunchInv, NEW p \in Starters, L!BeginWrite(p)
  PROVE  LaunchInv'
<1> DEFINE r == [proc[p] EXCEPT !.pc = "writing"]
           here == proc[p].at
<1>1. LaunchTyped /\ proc[p] \in Gateways
  BY DEF LaunchInv, LaunchTyped
<1>2. /\ UNCHANGED <<file, env, installed, movable, known, disturbed>>
      /\ proc[p].pc = "serving" /\ here \in L!Places /\ proc' = [proc EXCEPT ![p] = r]
      /\ store' = [store EXCEPT ![here] = [store[here] EXCEPT !.torn = TRUE]]
      /\ journal' = [journal EXCEPT ![proc[p].opened] = TRUE]
  BY DEF L!BeginWrite, L!Goes, L!configvars
<1>3. r \in Gateways /\ r.pc = "writing" /\ r.at = here /\ r.opened = proc[p].opened
      /\ r.knew = proc[p].knew /\ r.seen = proc[p].seen
  BY <1>1 DEF Gateways, Opened
<1> HIDE DEF r
<1>4. /\ store' \in [L!Places -> [there : BOOLEAN, sessions : SUBSET Stored, torn : BOOLEAN]]
      /\ \A x \in L!Places : store'[x].there = store[x].there /\ store'[x].sessions = store[x].sessions
      /\ \A x \in L!Places : store'[x].torn => store[x].torn \/ x = here
  BY <1>1, <1>2 DEF LaunchTyped
<1>5. LaunchTyped'
  <2>1. journal' \in [L!Places -> BOOLEAN]
    BY <1>1, <1>2 DEF LaunchTyped
  <2> QED
    BY <1>1, <1>2, <1>3, <1>4, <2>1 DEF LaunchTyped
<1>6. ASSUME ~disturbed' PROVE Calm'
  <2>1. Calm
    BY <1>2, <1>6 DEF LaunchInv
  <2>2. proc[p].opened = here
    BY <1>2, <2>1 DEF Calm, ProcsFit, OpenFits, Opened
  <2>3. Home \in L!Places /\ {"config", "state", "data", "beside", "absolute"} = L!Places
    BY DEF Home, L!Places
  <2>4. Home' = Home /\ Stays' = Stays
    BY <1>2, <1>4, <2>3 DEF Home, Stays
  <2>5. TornInv'
    BY <1>1, <1>2, <1>4, <2>1, <2>2 DEF LaunchTyped, Calm, TornInv
  <2>6. KnownInv'
    BY <1>2, <1>4, <2>1, <2>3, <2>4 DEF Calm, KnownInv
  <2>7. proc'[p] = r /\ \A q \in Starters : q # p => proc'[q] = proc[q]
    BY <1>1, <1>2 DEF LaunchTyped
  <2>8. AloneInv'
    BY <1>3, <2>1, <2>7 DEF Calm, AloneInv, Ways
  <2>9. L!Loads(file)' = L!Loads(file)
    BY <1>2, LoadsStay
  <2>10. ASSUME NEW q \in Starters PROVE WayFits(proc[q])'
    <3>1. WayFits(proc'[q])
      BY <1>3, <2>1, <2>7 DEF Calm, ProcsFit, WayFits, Ways
    <3> QED
      BY <1>2, <1>4, <2>3, <2>4, <2>9, <3>1 DEF WayFits
  <2>11. ASSUME NEW q \in Starters PROVE OpenFits(proc[q])'
    <3>1. OpenFits(proc'[q])
      BY <1>2, <1>3, <2>1, <2>3, <2>7 DEF Calm, ProcsFit, OpenFits, Opened
    <3>2. proc'[q].pc \in Opened /\ proc'[q].at # "memory" => proc'[q].at \in L!Places
      BY <2>3, <3>1 DEF OpenFits
    <3> QED
      BY <1>2, <1>4, <2>4, <3>1, <3>2 DEF OpenFits
  <2> QED
    BY <2>5, <2>6, <2>8, <2>10, <2>11 DEF Calm, ProcsFit
<1> QED
  BY <1>5, <1>6 DEF LaunchInv

LEMMA EndWriteStep ==
  ASSUME LaunchInv, NEW p \in Starters, L!EndWrite(p)
  PROVE  LaunchInv'
<1> DEFINE r == [proc[p] EXCEPT !.pc = "serving"]
           here == proc[p].at
<1>1. LaunchTyped /\ proc[p] \in Gateways
  BY DEF LaunchInv, LaunchTyped
<1>2. /\ UNCHANGED <<file, env, installed, movable, disturbed>>
      /\ proc[p].pc = "writing" /\ proc' = [proc EXCEPT ![p] = r]
      /\ store' = IF here \notin L!Places THEN store
                  ELSE [store EXCEPT ![here] = [store[here] EXCEPT !.torn = FALSE, !.sessions = store[here].sessions \cup {p}]]
      /\ journal' = [journal EXCEPT ![proc[p].opened] = FALSE]
      /\ known' = IF here = "absolute" THEN known ELSE known \cup {p}
  BY DEF L!EndWrite, L!Goes, L!configvars
<1>3. r \in Gateways /\ r.pc = "serving" /\ r.at = here /\ r.opened = proc[p].opened
      /\ r.knew = proc[p].knew /\ r.seen = proc[p].seen
  BY <1>1 DEF Gateways, Opened
<1> HIDE DEF r
<1>0. p \in Stored
  BY DEF Stored
<1>4. /\ store' \in [L!Places -> [there : BOOLEAN, sessions : SUBSET Stored, torn : BOOLEAN]]
      /\ \A x \in L!Places : /\ store'[x].there = store[x].there
                             /\ store[x].sessions \subseteq store'[x].sessions
                             /\ store'[x].torn => store[x].torn /\ x # here
                             /\ x = here => p \in store'[x].sessions
  <2>1. CASE here \in L!Places
    <3> DEFINE w == [store[here] EXCEPT !.torn = FALSE, !.sessions = store[here].sessions \cup {p}]
    <3>1. store' = [store EXCEPT ![here] = w]
      BY <1>2, <2>1
    <3>2. store[here] \in [there : BOOLEAN, sessions : SUBSET Stored, torn : BOOLEAN]
      BY <1>1, <2>1 DEF LaunchTyped
    <3>3. /\ w \in [there : BOOLEAN, sessions : SUBSET Stored, torn : BOOLEAN]
          /\ w.there = store[here].there /\ w.sessions = store[here].sessions \cup {p} /\ w.torn = FALSE
      BY <1>0, <3>2
    <3> HIDE DEF w
    <3> QED
      BY <1>1, <2>1, <3>1, <3>3 DEF LaunchTyped
  <2>2. CASE here \notin L!Places
    BY <1>1, <1>2, <2>2 DEF LaunchTyped
  <2> QED
    BY <2>1, <2>2
<1>5. LaunchTyped'
  <2>1. journal' \in [L!Places -> BOOLEAN]
    BY <1>1, <1>2 DEF LaunchTyped
  <2> QED
    BY <1>0, <1>1, <1>2, <1>3, <1>4, <2>1 DEF LaunchTyped
<1>6. ASSUME ~disturbed' PROVE Calm'
  <2>1. Calm
    BY <1>2, <1>6 DEF LaunchInv
  <2>2. proc[p].opened = here /\ here \in {Home, "absolute"}
    BY <1>2, <2>1 DEF Calm, ProcsFit, OpenFits, Opened
  <2>3. Home \in L!Places /\ {"config", "state", "data", "beside", "absolute"} = L!Places /\ Home # "absolute"
    BY DEF Home, L!Places
  <2>4. Home' = Home /\ Stays' = Stays
    BY <1>2, <1>4, <2>3 DEF Home, Stays
  <2>5. TornInv'
    BY <1>1, <1>2, <1>4, <2>1, <2>2 DEF LaunchTyped, Calm, TornInv
  <2>6. KnownInv'
    BY <1>2, <1>4, <2>1, <2>2, <2>3, <2>4 DEF Calm, KnownInv
  <2>7. proc'[p] = r /\ \A q \in Starters : q # p => proc'[q] = proc[q]
    BY <1>1, <1>2 DEF LaunchTyped
  <2>8. AloneInv'
    BY <1>3, <2>1, <2>7 DEF Calm, AloneInv, Ways
  <2>9. L!Loads(file)' = L!Loads(file)
    BY <1>2, LoadsStay
  <2>10. ASSUME NEW q \in Starters PROVE WayFits(proc[q])'
    <3>1. WayFits(proc'[q])
      BY <1>3, <2>1, <2>7 DEF Calm, ProcsFit, WayFits, Ways
    <3> QED
      BY <1>2, <1>4, <2>3, <2>4, <2>9, <3>1 DEF WayFits
  <2>11. ASSUME NEW q \in Starters PROVE OpenFits(proc[q])'
    <3>1. OpenFits(proc'[q])
      BY <1>2, <1>3, <2>1, <2>7 DEF Calm, ProcsFit, OpenFits, Opened
    <3>2. proc'[q].pc \in Opened /\ proc'[q].at # "memory" => proc'[q].at \in L!Places
      BY <2>3, <3>1 DEF OpenFits
    <3> QED
      BY <1>2, <1>4, <2>4, <3>1, <3>2 DEF OpenFits
  <2> QED
    BY <2>5, <2>6, <2>8, <2>10, <2>11 DEF Calm, ProcsFit
<1> QED
  BY <1>5, <1>6 DEF LaunchInv

\* A store moved to the state directory, of whichever gateway it is the step.
LEMMA RenamedTyped ==
  ASSUME LaunchTyped, NEW from \in {"data", "beside"}, L!Renamed(from)
  PROVE  /\ store' \in [L!Places -> [there : BOOLEAN, sessions : SUBSET Stored, torn : BOOLEAN]]
         /\ store'["state"] = store[from] /\ store'[from] = L!NoStore
         /\ \A x \in L!Places \ {"state", from} : store'[x] = store[x]
         /\ disturbed' \in BOOLEAN
         /\ \A q \in Starters : L!At(q, from) \in L!Places \cup {"none", "memory", "gone"}
         /\ ~disturbed' => /\ ~disturbed /\ ~journal[from]
                           /\ \A q \in Starters : proc[q].at \notin {from, "state"} /\ L!At(q, from) = proc[q].at
<1>1. from \in L!Places /\ "state" \in L!Places /\ from # "state"
  BY DEF L!Places
<1>2. L!NoStore \in [there : BOOLEAN, sessions : SUBSET Stored, torn : BOOLEAN]
  BY DEF L!NoStore
<1>3. store' = [store EXCEPT !["state"] = store[from], ![from] = L!NoStore]
  BY DEF L!Renamed
<1>4. /\ store' \in [L!Places -> [there : BOOLEAN, sessions : SUBSET Stored, torn : BOOLEAN]]
      /\ store'["state"] = store[from] /\ store'[from] = L!NoStore
      /\ \A x \in L!Places \ {"state", from} : store'[x] = store[x]
  BY <1>1, <1>2, <1>3 DEF LaunchTyped
<1>5. disturbed' = (disturbed \/ journal[from] \/ \E q \in Starters : proc[q].at \in {from, "state"})
  BY DEF L!Renamed
<1>6. disturbed' \in BOOLEAN
  BY <1>5
<1>7. \A q \in Starters : L!At(q, from) \in L!Places \cup {"none", "memory", "gone"}
  BY <1>1 DEF L!At, LaunchTyped, Gateways
<1>8. ASSUME ~disturbed'
      PROVE  /\ ~disturbed /\ ~journal[from]
             /\ \A q \in Starters : proc[q].at \notin {from, "state"} /\ L!At(q, from) = proc[q].at
  BY <1>5, <1>8 DEF L!At
<1> QED
  BY <1>4, <1>6, <1>7, <1>8

LEMMA LaunchMoveStep ==
  ASSUME LaunchInv, NEW p \in Starters, L!Move(p)
  PROVE  LaunchInv'
<1> DEFINE from == proc[p].dir
           r == [proc[p] EXCEPT !.pc = "placed", !.dir = "state"]
<1>1. LaunchTyped /\ proc[p] \in Gateways
  BY DEF LaunchInv, LaunchTyped
<1>2. /\ UNCHANGED <<file, env, journal, installed, movable, known>>
      /\ proc[p].pc = "moving" /\ movable /\ store[from].there /\ L!Renamed(from)
      /\ proc' = [q \in Starters |-> IF q = p THEN r ELSE [proc[q] EXCEPT !.at = L!At(q, from)]]
  BY DEF L!Move, L!configvars
<1>3. from \in {"data", "beside"}
  BY <1>1, <1>2 DEF Gateways
<1>10. r \in Gateways /\ r.pc = "placed" /\ r.dir = "state" /\ r.knew = proc[p].knew /\ r.seen = proc[p].seen
  BY <1>1 DEF Gateways, Ways, L!Places
<1> HIDE DEF r
<1>11. /\ store' \in [L!Places -> [there : BOOLEAN, sessions : SUBSET Stored, torn : BOOLEAN]]
       /\ store'["state"] = store[from] /\ store'[from] = L!NoStore
       /\ \A x \in L!Places \ {"state", from} : store'[x] = store[x]
       /\ disturbed' \in BOOLEAN
       /\ \A q \in Starters : L!At(q, from) \in L!Places \cup {"none", "memory", "gone"}
       /\ ~disturbed' => /\ ~disturbed /\ ~journal[from]
                         /\ \A q \in Starters : proc[q].at \notin {from, "state"} /\ L!At(q, from) = proc[q].at
  BY <1>1, <1>2, <1>3, RenamedTyped
<1>12. proc' \in [Starters -> Gateways]
  <2>1. ASSUME NEW q \in Starters PROVE [proc[q] EXCEPT !.at = L!At(q, from)] \in Gateways
    <3>1. proc[q] \in Gateways /\ L!At(q, from) \in L!Places \cup {"none", "memory", "gone"}
      BY <1>1, <1>11 DEF LaunchTyped
    <3> QED
      BY <3>1 DEF Gateways
  <2> QED
    BY <1>2, <1>10, <2>1
<1>13. LaunchTyped'
  BY <1>1, <1>2, <1>11, <1>12 DEF LaunchTyped
<1>14. ASSUME ~disturbed' PROVE Calm'
  <2>1. Calm /\ WayFits(proc[p]) /\ OpenFits(proc[p])
    BY <1>11, <1>14 DEF LaunchInv, Calm, ProcsFit
  <2>2. /\ installed /\ ~store["state"].there /\ L!Loads(file)
        /\ from = "beside" => ~store["data"].there
    BY <1>2, <2>1 DEF WayFits, Ways
  <2>3. Home = from
    BY <1>2, <1>3, <2>2 DEF Home
  <2>4. Home' = "state" /\ Stays'
    BY <1>2, <1>11, <2>2 DEF Home, Stays
  <2>5. proc'[p] = r /\ \A q \in Starters : q # p => proc'[q] = proc[q]
    <3>1. ASSUME NEW q \in Starters PROVE [proc[q] EXCEPT !.at = L!At(q, from)] = proc[q]
      <4>1. proc[q] \in Gateways /\ L!At(q, from) = proc[q].at
        BY <1>1, <1>11, <1>14 DEF LaunchTyped
      <4> QED
        BY <4>1 DEF Gateways
    <3> QED
      BY <1>2, <3>1
  <2>6. TornInv'
    <3>1. ASSUME NEW x \in L!Places, store'[x].torn PROVE journal'[x]
      <4>1. CASE x = "state"
        <5>1. store[from].torn /\ from \in L!Places
          BY <1>3, <1>11, <3>1, <4>1 DEF L!Places
        <5> QED
          BY <1>11, <1>14, <2>1, <5>1 DEF Calm, TornInv
      <4>2. CASE x = from
        BY <1>11, <3>1, <4>2 DEF L!NoStore
      <4>3. CASE x \notin {"state", from}
        BY <1>2, <1>11, <2>1, <3>1, <4>3 DEF Calm, TornInv
      <4> QED
        BY <4>1, <4>2, <4>3
    <3> QED
      BY <3>1 DEF TornInv
  <2>7. KnownInv'
    BY <1>2, <1>11, <2>1, <2>3, <2>4 DEF Calm, KnownInv
  <2>8. \A q \in Starters \ {p} : proc[q].pc \notin Ways
    BY <1>2, <2>1, StaysAlone DEF Calm, Ways
  <2>9. AloneInv'
    BY <2>5, <2>8 DEF AloneInv
  <2>10. L!Loads(file)' = L!Loads(file)
    BY <1>2, LoadsStay
  <2>11. ASSUME NEW q \in Starters PROVE WayFits(proc[q])'
    <3>1. CASE q = p
      BY <1>2, <1>10, <2>2, <2>4, <2>5, <2>10, <3>1 DEF WayFits
    <3>2. CASE q # p
      <4>1. proc[q].pc \notin Ways /\ WayFits(proc[q]) /\ proc'[q] = proc[q]
        BY <2>1, <2>5, <2>8, <3>2 DEF Calm, ProcsFit
      <4>2. proc[q].pc = "booted" => file.storage # "relative"
        BY <1>2, <1>3, <2>3, <4>1 DEF WayFits, Stays
      <4> QED
        BY <1>2, <4>1, <4>2 DEF WayFits, Ways
    <3> QED
      BY <3>1, <3>2
  <2>12. ASSUME NEW q \in Starters PROVE OpenFits(proc[q])'
    <3>1. CASE q = p
      BY <1>2, <1>10, <2>1, <2>5, <3>1 DEF OpenFits, Opened
    <3>2. CASE q # p
      <4>1. OpenFits(proc[q]) /\ proc'[q] = proc[q] /\ proc[q].at \notin {from, "state"}
        BY <1>11, <1>14, <2>1, <2>5, <3>2 DEF Calm, ProcsFit
      <4>2. proc[q].pc \in Opened => proc[q].at \in {"absolute", "memory"}
        BY <2>3, <4>1 DEF OpenFits
      <4>3. "absolute" \in L!Places \ {"state", from}
        BY <1>3 DEF L!Places
      <4> QED
        BY <1>11, <4>1, <4>2, <4>3 DEF OpenFits
    <3> QED
      BY <3>1, <3>2
  <2> QED
    BY <2>6, <2>7, <2>9, <2>11, <2>12 DEF Calm, ProcsFit
<1> QED
  BY <1>13, <1>14 DEF LaunchInv

\* A gateway opens a store where it is, or creates one where there is to be one.
LEMMA OpensAt ==
  ASSUME LaunchTyped, NEW p \in Starters, NEW place \in L!Places, NEW r \in Gateways,
         UNCHANGED <<file, env, installed, movable, known, disturbed>>,
         proc' = [proc EXCEPT ![p] = r],
         store' = [store EXCEPT ![place] = [there |-> TRUE, sessions |-> L!Readable(place), torn |-> FALSE]],
         journal' = [journal EXCEPT ![place] = FALSE],
         r.pc \in {"booted", "verified"}, r.seen = L!Readable(place), r.knew \subseteq known,
         place = "absolute" => r.knew = {},
         r.pc = "booted" => r.at = place /\ r.opened = place,
         ~disturbed => /\ Calm /\ place \in {Home, "absolute"}
                       /\ r.pc = "booted" /\ file.storage = "relative" => place = Home /\ Stays
  PROVE  LaunchInv'
<1> DEFINE o == [there |-> TRUE, sessions |-> L!Readable(place), torn |-> FALSE]
<1>1. store[place] \in [there : BOOLEAN, sessions : SUBSET Stored, torn : BOOLEAN] /\ L!Readable(place) \subseteq Stored
  BY DEF LaunchTyped, L!Readable
<1>2. /\ o \in [there : BOOLEAN, sessions : SUBSET Stored, torn : BOOLEAN]
      /\ o.there = TRUE /\ o.sessions = L!Readable(place) /\ o.torn = FALSE
  BY <1>1
<1>3. store' = [store EXCEPT ![place] = o]
  OBVIOUS
<1> HIDE DEF o
<1>4. /\ store' \in [L!Places -> [there : BOOLEAN, sessions : SUBSET Stored, torn : BOOLEAN]]
      /\ store'[place] = o /\ \A x \in L!Places : x # place => store'[x] = store[x]
  BY <1>2, <1>3 DEF LaunchTyped
<1>5. /\ journal' \in [L!Places -> BOOLEAN] /\ proc' \in [Starters -> Gateways]
      /\ \A x \in L!Places : x # place => journal'[x] = journal[x]
      /\ proc'[p] = r /\ \A q \in Starters : q # p => proc'[q] = proc[q]
  BY DEF LaunchTyped
<1>6. LaunchTyped'
  BY <1>4, <1>5 DEF LaunchTyped
<1>7. ASSUME ~disturbed' PROVE Calm'
  <2>1. /\ Calm /\ place \in {Home, "absolute"}
        /\ r.pc = "booted" /\ file.storage = "relative" => place = Home /\ Stays
    BY <1>7
  <2>2. L!Readable(place) = store[place].sessions
    BY <2>1 DEF Calm, TornInv, L!Readable
  <2>3. Home \in L!Places /\ {"config", "state", "data", "beside", "absolute"} = L!Places /\ Home # "absolute"
    BY DEF Home, L!Places
  <2>4. \A x \in L!Places : /\ store'[x].there = (store[x].there \/ x = place)
                            /\ store'[x].sessions = store[x].sessions
                            /\ store'[x].torn => store[x].torn /\ x # place
    <3>1. ASSUME NEW x \in L!Places
          PROVE  /\ store'[x].there = (store[x].there \/ x = place)
                 /\ store'[x].sessions = store[x].sessions
                 /\ store'[x].torn => store[x].torn /\ x # place
      <4>0. store[x].there \in BOOLEAN
        BY DEF LaunchTyped
      <4>1. CASE x = place
        BY <1>2, <1>4, <2>2, <4>0, <4>1
      <4>2. CASE x # place
        BY <1>4, <4>0, <4>2
      <4> QED
        BY <4>1, <4>2
    <3> QED
      BY <3>1
  <2>5. Home' = Home /\ Stays' = Stays
    <3>1. Home' = Home
      <4>1. CASE place = Home
        BY <2>3, <2>4, <4>1 DEF Home
      <4>2. CASE place = "absolute"
        BY <2>3, <2>4, <4>2 DEF Home
      <4> QED
        BY <2>1, <4>1, <4>2
    <3> QED
      BY <3>1 DEF Stays
  <2>6. TornInv'
    BY <1>5, <2>1, <2>4 DEF Calm, TornInv
  <2>7. KnownInv'
    BY <2>1, <2>3, <2>4, <2>5 DEF Calm, KnownInv
  <2>8. r.pc \notin Ways
    BY DEF Ways
  <2>9. AloneInv'
    BY <1>5, <2>1, <2>8 DEF Calm, AloneInv
  <2>10. L!Loads(file)' = L!Loads(file)
    BY LoadsStay
  <2>11. ASSUME NEW q \in Starters PROVE WayFits(proc[q])'
    <3>1. CASE q = p
      BY <1>5, <2>1, <2>5, <2>8, <3>1 DEF WayFits, Ways
    <3>2. CASE q # p
      <4>1. WayFits(proc[q]) /\ proc'[q] = proc[q]
        BY <1>5, <2>1, <3>2 DEF Calm, ProcsFit
      <4>2. CASE proc[q].pc \in {"found", "moving"}
        BY <2>3, <2>4, <2>5, <2>10, <4>1, <4>2, <2>1 DEF WayFits, Home, Stays
      <4>3. CASE proc[q].pc \notin {"found", "moving"}
        BY <2>5, <2>10, <4>1, <4>3 DEF WayFits
      <4> QED
        BY <4>2, <4>3
    <3> QED
      BY <3>1, <3>2
  <2>12. ASSUME NEW q \in Starters PROVE OpenFits(proc[q])'
    <3>1. CASE q = p
      <4>1. r.knew \subseteq r.seen
        BY <2>1, <2>2 DEF Calm, KnownInv
      <4>2. store'[place].there
        BY <2>4
      <4> QED
        BY <1>5, <2>1, <2>5, <3>1, <4>1, <4>2 DEF OpenFits, Opened
    <3>2. CASE q # p
      <4>1. OpenFits(proc[q]) /\ proc'[q] = proc[q]
        BY <1>5, <2>1, <3>2 DEF Calm, ProcsFit
      <4>2. proc[q].pc \in Opened /\ proc[q].at # "memory" => proc[q].at \in L!Places
        BY <2>3, <4>1 DEF OpenFits
      <4> QED
        BY <2>4, <2>5, <4>1, <4>2 DEF OpenFits
    <3> QED
      BY <3>1, <3>2
  <2> QED
    BY <2>6, <2>7, <2>9, <2>11, <2>12 DEF Calm, ProcsFit
<1> QED
  BY <1>6, <1>7 DEF LaunchInv

LEMMA LaunchBootStep ==
  ASSUME LaunchInv, NEW p \in Starters, L!Boot(p)
  PROVE  LaunchInv'
<1> DEFINE place == L!Resolved(p)
<1>1. LaunchTyped /\ proc[p] \in Gateways /\ proc[p].pc = "placed" /\ proc[p].dir \in L!Places
  BY DEF LaunchInv, LaunchTyped, L!Boot, Gateways
<1>2. /\ UNCHANGED <<file, env, installed, movable, known, disturbed>>
      /\ L!Loads(file)
  BY DEF L!Boot, L!configvars
<1>3. /\ place \in L!Places \cup {"memory"}
      /\ file.storage = "relative" => place = proc[p].dir
      /\ file.storage # "relative" => place \in {"absolute", "memory"}
  BY <1>1 DEF L!Resolved, L!Places
<1>4. ASSUME ~disturbed
      PROVE  /\ Calm /\ place \in {Home, "absolute", "memory"}
             /\ file.storage = "relative" => place = Home /\ Stays
  <2>1. Calm /\ WayFits(proc[p])
    BY <1>4 DEF LaunchInv, Calm, ProcsFit
  <2>2. file.storage = "relative" => place = Home /\ Stays
    BY <1>1, <1>3, <2>1 DEF WayFits
  <2> QED
    BY <1>3, <2>1, <2>2
<1>5. CASE place = "memory"
  <2> DEFINE r == [proc[p] EXCEPT !.pc = "booted", !.at = "memory", !.opened = "memory", !.seen = {}, !.knew = {}]
  <2>1. proc' = [proc EXCEPT ![p] = r] /\ UNCHANGED <<store, journal>>
    BY <1>5 DEF L!Boot
  <2>2. /\ r \in Gateways /\ r.pc = "booted" /\ r.at = "memory" /\ r.opened = "memory"
        /\ r.seen = {} /\ r.knew = {}
    BY <1>1 DEF Gateways, Opened
  <2> HIDE DEF r
  <2>3. Rests /\ disturbed' \in BOOLEAN /\ disturbed' = disturbed
    BY <1>1, <1>2, <2>1 DEF Rests, LaunchTyped
  <2>4. file.storage # "relative"
    BY <1>1, <1>3, <1>5 DEF L!Places
  <2>5. WayFits(r) /\ OpenFits(r) /\ r.pc \notin Ways
    BY <2>2, <2>4 DEF WayFits, OpenFits, Ways, Opened
  <2> QED
    BY <1>1, <1>4, <2>1, <2>2, <2>3, <2>5, GoesOn
<1>6. CASE place # "memory"
  <2> DEFINE knew == IF place = "absolute" THEN {} ELSE known
             r == [proc[p] EXCEPT !.pc = "booted", !.at = place, !.opened = place,
                                  !.seen = L!Readable(place), !.knew = knew]
  <2>0. place \in L!Places
    BY <1>3, <1>6
  <2>1. /\ proc' = [proc EXCEPT ![p] = r]
        /\ store' = [store EXCEPT ![place] = [there |-> TRUE, sessions |-> L!Readable(place), torn |-> FALSE]]
        /\ journal' = [journal EXCEPT ![place] = FALSE]
    BY <1>6 DEF L!Boot
  <2>2. L!Readable(place) \subseteq Stored /\ knew \subseteq Stored
    BY <1>1, <2>0 DEF LaunchTyped, L!Readable
  <2> HIDE DEF place
  <2>3. /\ r \in Gateways /\ r.pc = "booted" /\ r.at = place /\ r.opened = place
        /\ r.seen = L!Readable(place) /\ r.knew = knew
    BY <1>1, <2>0, <2>2 DEF Gateways, Opened
  <2>4. knew \subseteq known /\ (place = "absolute" => knew = {})
    OBVIOUS
  <2> HIDE DEF r, knew
  <2> QED
    BY <1>1, <1>2, <1>4, <1>6, <2>0, <2>1, <2>3, <2>4, OpensAt
<1> QED
  BY <1>5, <1>6

\* The look for the store of verify --chain ends where the store in use is.
LEMMA ChainIsHome ==
  ASSUME LaunchTyped, file.storage = "relative"
  PROVE  L!ChainDir = Home
<1>1. L!FirstLeft = IF store["data"].there THEN 1 ELSE IF store["beside"].there THEN 2 ELSE 0
  BY FirstLeftIs
<1> QED
  BY <1>1 DEF L!ChainDir, Home, L!Legacies

LEMMA LaunchVerifyStep ==
  ASSUME LaunchInv, NEW p \in Starters, L!VerifyChain(p)
  PROVE  LaunchInv'
<1> DEFINE place == CASE file.storage = "relative" -> L!ChainDir
                      [] file.storage = "absolute" -> "absolute"
                      [] OTHER -> "memory"
           sessions == IF place = "memory" THEN {} ELSE L!Readable(place)
           knew == IF file.storage = "relative" THEN known ELSE {}
           verdict == L!Verdict(sessions)
           moves == place \in L!ToSet(L!Legacies) /\ movable
           r == [proc[p] EXCEPT !.pc = "verified", !.seen = sessions, !.verdict = verdict, !.knew = knew]
<1>1. LaunchTyped /\ proc[p] \in Gateways
  BY DEF LaunchInv, LaunchTyped
<1>2. /\ UNCHANGED <<file, env, installed, movable, known>>
      /\ proc[p].pc = "booted"
      /\ IF moves THEN L!Renamed(place)
         ELSE /\ store' = IF place = "memory" THEN store
                          ELSE [store EXCEPT ![place] = [there |-> TRUE, sessions |-> sessions, torn |-> FALSE]]
              /\ UNCHANGED disturbed
      /\ proc' = [q \in Starters |-> IF q = p THEN r
                                     ELSE IF moves THEN [proc[q] EXCEPT !.at = L!At(q, place)] ELSE proc[q]]
      /\ journal' = IF place \in L!Places /\ ~moves THEN [journal EXCEPT ![place] = FALSE] ELSE journal
  BY DEF L!VerifyChain, L!configvars
<1>3. moves <=> place \in {"data", "beside"} /\ movable
  <2>1. L!ToSet(L!Legacies) = {"data", "beside"}
    BY DEF L!ToSet, L!Legacies
  <2> QED
    BY <2>1
<1>4. /\ place \in L!Places \cup {"memory"}
      /\ file.storage = "relative" => place = Home /\ place # "memory"
      /\ file.storage # "relative" => place \in {"absolute", "memory"}
  BY <1>1, ChainIsHome DEF Home, L!Places
<1>5. verdict \in {"none", "no sessions", "broken", "intact"} /\ sessions \subseteq Stored /\ knew \subseteq Stored
  BY <1>1, <1>4, WordsOf DEF LaunchTyped, L!Readable
<1> HIDE DEF place, moves, verdict
<1>6. knew \subseteq known /\ (file.storage # "relative" => knew = {})
  OBVIOUS
<1> HIDE DEF sessions, knew
<1>7. /\ r \in Gateways /\ r.pc = "verified" /\ r.seen = sessions /\ r.knew = knew
  <2>1. proc[p] \in Gateways
    BY <1>1
  <2>2. r.pc = "verified" /\ r.seen = sessions /\ r.knew = knew
    BY <2>1 DEF Gateways
  <2>3. sessions \in SUBSET Stored /\ knew \in SUBSET Stored
    BY <1>5
  <2>4. r \in Gateways
    BY <1>5, <2>1, <2>3 DEF Gateways
  <2> QED
    BY <2>2, <2>4
<1> HIDE DEF r
<1>8. CASE moves
  <2>1. place \in {"data", "beside"} /\ movable /\ file.storage = "relative" /\ place = Home
    BY <1>3, <1>4, <1>8
  <2>2. L!Renamed(place)
    BY <1>2, <1>8
  <2>3. /\ store' \in [L!Places -> [there : BOOLEAN, sessions : SUBSET Stored, torn : BOOLEAN]]
        /\ disturbed' \in BOOLEAN /\ (~disturbed' => ~disturbed)
        /\ \A q \in Starters : L!At(q, place) \in L!Places \cup {"none", "memory", "gone"}
    BY <1>1, <2>1, <2>2, RenamedTyped
  <2>4. proc' \in [Starters -> Gateways]
    <3>1. ASSUME NEW q \in Starters PROVE [proc[q] EXCEPT !.at = L!At(q, place)] \in Gateways
      <4>1. proc[q] \in Gateways /\ L!At(q, place) \in L!Places \cup {"none", "memory", "gone"}
        BY <1>1, <2>3 DEF LaunchTyped
      <4> QED
        BY <4>1 DEF Gateways
    <3> QED
      BY <1>2, <1>7, <1>8, <3>1
  <2>5. journal' = journal
    BY <1>2, <1>8
  <2>6. LaunchTyped'
    BY <1>1, <1>2, <2>3, <2>4, <2>5 DEF LaunchTyped
  <2>7. ASSUME ~disturbed' PROVE FALSE
    <3>1. WayFits(proc[p])
      BY <2>3, <2>7 DEF LaunchInv, Calm, ProcsFit
    <3> QED
      BY <1>2, <2>1, <3>1 DEF WayFits, Stays
  <2> QED
    BY <2>6, <2>7 DEF LaunchInv
<1>9. CASE ~moves
  <2>1. proc' = [proc EXCEPT ![p] = r] /\ disturbed' = disturbed
    BY <1>1, <1>2, <1>9 DEF LaunchTyped
  <2>2. CASE place = "memory"
    <3>1. Rests /\ disturbed' \in BOOLEAN
      BY <1>1, <1>2, <1>9, <2>1, <2>2 DEF Rests, LaunchTyped, L!Places
    <3>2. WayFits(r) /\ OpenFits(r) /\ r.pc \notin Ways
      BY <1>4, <1>7, <1>6, <2>2 DEF WayFits, OpenFits, Ways, Opened
    <3>3. ~disturbed' => Calm
      BY <2>1 DEF LaunchInv
    <3> QED
      BY <1>1, <1>7, <2>1, <3>1, <3>2, <3>3, GoesOn
  <2>3. CASE place # "memory"
    <3>1. place \in L!Places /\ sessions = L!Readable(place)
      BY <1>4, <2>3 DEF sessions
    <3>2. /\ store' = [store EXCEPT ![place] = [there |-> TRUE, sessions |-> L!Readable(place), torn |-> FALSE]]
          /\ journal' = [journal EXCEPT ![place] = FALSE]
      BY <1>2, <1>9, <2>3, <3>1
    <3>3. place \in {Home, "absolute"} /\ (place = "absolute" => knew = {})
      BY <1>4, <1>6, <2>3 DEF Home
    <3>4. ~disturbed => Calm
      BY DEF LaunchInv
    <3> QED
      BY <1>1, <1>2, <1>7, <1>6, <2>1, <3>1, <3>2, <3>3, <3>4, OpensAt
  <2> QED
    BY <2>2, <2>3
<1> QED
  BY <1>8, <1>9

LEMMA LaunchStarts ==
  ASSUME L!LaunchInit
  PROVE  LaunchInv
<1>1. PICK old \in OldSessions :
         /\ store = [x \in L!Places |-> IF x \in DOMAIN old
                       THEN [there |-> TRUE, sessions |-> old[x], torn |-> FALSE] ELSE L!NoStore]
         /\ installed \in BOOLEAN /\ movable \in BOOLEAN
         /\ known = LET places == IF installed THEN <<"state">> \o L!Legacies ELSE <<"config">>
                        first  == L!SelectInSeq(places, LAMBDA x : x \in DOMAIN old)
                    IN IF first = 0 THEN {} ELSE old[places[first]]
  BY DEF L!LaunchInit
<1>2. journal = [x \in L!Places |-> FALSE] /\ proc = [q \in Starters |-> L!Down] /\ disturbed = FALSE
  BY DEF L!LaunchInit
<1>3. DOMAIN old \subseteq L!Places /\ \A x \in DOMAIN old : old[x] \subseteq Stored
  BY LaunchAssumption DEF Stored, L!Places
<1>4. store \in [L!Places -> [there : BOOLEAN, sessions : SUBSET Stored, torn : BOOLEAN]]
  BY <1>1, <1>3 DEF L!NoStore
<1>5. \A x \in L!Places : (store[x].there <=> x \in DOMAIN old) /\ ~store[x].torn
                         /\ (x \in DOMAIN old => store[x].sessions = old[x])
  BY <1>1 DEF L!NoStore
<1>6. known \subseteq Stored /\ KnownInv
  <2> DEFINE places == IF installed THEN <<"state">> \o L!Legacies ELSE <<"config">>
             I == {i \in 1..Len(places) : places[i] \in DOMAIN old}
  <2>0. /\ installed => Len(places) = 3 /\ places[1] = "state" /\ places[2] = "data" /\ places[3] = "beside"
        /\ ~installed => Len(places) = 1 /\ places[1] = "config"
    <3> DEFINE newest == <<"state">>
               legacies == <<"data", "beside">>
    <3>1. newest \in Seq(L!Places) /\ legacies \in Seq(L!Places) /\ Len(newest) = 1 /\ Len(legacies) = 2
      BY DEF L!Places
    <3>2. legacies[1] = "data" /\ legacies[2] = "beside" /\ newest[1] = "state"
      OBVIOUS
    <3> HIDE DEF newest, legacies
    <3>3. /\ Len(newest \o legacies) = Len(newest) + Len(legacies)
          /\ \A i \in 1 .. Len(newest) + Len(legacies) :
                (newest \o legacies)[i] = IF i <= Len(newest) THEN newest[i] ELSE legacies[i - Len(newest)]
      BY <3>1, ConcatProperties, Zenon
    <3>4. /\ Len(newest \o legacies) = 3
          /\ \A i \in {1, 2, 3} : (newest \o legacies)[i] = IF i = 1 THEN newest[1] ELSE legacies[i - 1]
      BY <3>1, <3>3
    <3> QED
      BY <3>2, <3>4 DEF L!Legacies, newest, legacies
  <2>1. known = IF I = {} THEN {} ELSE IF L!Min(I) = 0 THEN {} ELSE old[places[L!Min(I)]]
    <3>1. L!SelectInSeq(places, LAMBDA x : x \in DOMAIN old) = IF I # {} THEN L!Min(I) ELSE 0
      BY DEF L!SelectInSeq
    <3>2. known = LET first == L!SelectInSeq(places, LAMBDA x : x \in DOMAIN old)
                  IN IF first = 0 THEN {} ELSE old[places[first]]
      BY <1>1, Zenon
    <3> QED
      BY <3>1, <3>2
  <2> HIDE DEF places
  <2>2. I \in SUBSET Nat /\ Len(places) = IF installed THEN 3 ELSE 1
    BY <2>0
  <2>3. CASE I = {}
    BY <2>1, <2>3 DEF KnownInv
  <2>4. CASE I # {}
    <3> DEFINE m == L!Min(I)
    <3>1. m \in I /\ \A i \in I : m <= i
      BY <2>2, <2>4, LeastOf
    <3> HIDE DEF m
    <3>2. m \in 1..Len(places) /\ places[m] \in DOMAIN old /\ m # 0
      BY <2>2, <3>1
    <3>3. known = old[places[m]]
      BY <2>1, <2>4, <3>2 DEF m
    <3>4. \A i \in 1..Len(places) : i < m => places[i] \notin DOMAIN old
      BY <2>2, <3>1
    <3>5. Home = places[m]
      <4>1. {"config", "state", "data", "beside"} \subseteq L!Places
        BY DEF L!Places
      <4>2. CASE ~installed
        <5>1. m = 1 /\ places[m] = "config"
          BY <2>0, <2>2, <3>2, <4>2
        <5> QED
          BY <4>2, <5>1 DEF Home
      <4>3. CASE installed
        <5>1. m \in {1, 2, 3} /\ places[1] = "state" /\ places[2] = "data" /\ places[3] = "beside"
          BY <2>0, <2>2, <3>2, <4>3
        <5>2. /\ m > 1 => "state" \notin DOMAIN old
              /\ m > 2 => "data" \notin DOMAIN old
          BY <2>2, <3>4, <4>3, <5>1
        <5> QED
          BY <1>5, <3>2, <4>1, <4>3, <5>1, <5>2 DEF Home
      <4> QED
        BY <4>2, <4>3
    <3> QED
      BY <1>3, <1>5, <3>2, <3>3, <3>5 DEF KnownInv
  <2> QED
    BY <2>3, <2>4
<1>7. L!Down \in Gateways /\ L!Down.pc = "down"
  BY DEF L!Down, Gateways, L!Commands
<1>8. LaunchTyped
  BY <1>1, <1>2, <1>4, <1>6, <1>7 DEF LaunchTyped
<1>9. ProcsFit /\ AloneInv
  BY <1>2, <1>7 DEF ProcsFit, WayFits, OpenFits, AloneInv, Ways, Opened
<1>10. TornInv
  BY <1>5 DEF TornInv
<1> QED
  BY <1>6, <1>8, <1>9, <1>10 DEF LaunchInv, Calm

LEMMA LaunchStep ==
  ASSUME LaunchInv, [L!LaunchNext]_(L!vars)
  PROVE  LaunchInv'
<1>1. ASSUME NEW doc \in ByHand, L!EditDuring(doc) PROVE LaunchInv'
  BY <1>1, EditStep DEF L!EditDuring, L!HandEdit
<1>2. ASSUME NEW w \in Writers, L!WriteDuring(w) PROVE LaunchInv'
  <2>1. env' = env
    BY <1>2 DEF L!WriteDuring, L!WriterStep, L!OpenTmp, L!FillTmp, L!Rename, L!RenameFails, L!OpenDigest,
       L!FillDigest, L!Fails
  <2> QED
    BY <1>2, <2>1, EditStep DEF L!WriteDuring
<1>3. CASE L!CheckDuring
  BY <1>3, EditStep DEF L!CheckDuring, L!CheckDigest, L!CheckFile
<1>4. ASSUME NEW p \in Starters, NEW command \in L!Commands, L!Start(p, command) PROVE LaunchInv'
  BY <1>4, StartStep
<1>5. ASSUME NEW p \in Starters,
             \/ L!StoreDir(p) \/ L!LookBehind(p) \/ L!LookAhead(p) \/ L!Move(p) \/ L!MoveFails(p)
             \/ L!Boot(p) \/ L!BootFails(p) \/ L!Serve(p) \/ L!VerifyChain(p)
             \/ L!BeginWrite(p) \/ L!EndWrite(p) \/ L!Ends(p)
      PROVE  LaunchInv'
  BY <1>5, StoreDirStep, LookBehindStep, LookAheadStep, LaunchMoveStep, MoveFailsStep, LaunchBootStep,
     ServeOrEndStep, LaunchVerifyStep, BeginWriteStep, EndWriteStep
<1>6. CASE UNCHANGED L!vars
  <2>1. UNCHANGED <<file, env, store, journal, proc, installed, movable, known, disturbed>>
    BY <1>6 DEF L!vars, L!configvars, L!launchvars
  <2>2. disturbed \in BOOLEAN /\ env' = env
    BY <2>1 DEF LaunchInv, LaunchTyped
  <2>3. UNCHANGED starts
    BY <1>6 DEF L!vars, L!launchvars
  <2>4. L!Disturbing
    BY <2>1, <2>2, <2>3 DEF L!Disturbing
  <2> QED
    BY <2>2, <2>4, EditStep
<1> QED
  BY <1>1, <1>2, <1>3, <1>4, <1>5, <1>6 DEF L!LaunchNext

\* Launch, for any documents, any stores left by earlier installs, any writers and edits:
\* whatever is killed where it stands, every gateway that has opened the store has every
\* session its users know of, unless two starts overlapped, the file changed during one,
\* or a store was moved that was open or whose last transaction was cut short.
THEOREM EarlierSessionsAreSeen == L!LaunchSpec => []EarlierSessionsSeen
<1>1. LaunchInv => EarlierSessionsSeen
  BY DEF LaunchInv, Calm, ProcsFit, OpenFits, EarlierSessionsSeen, L!EarlierSessionsSeen
<1> QED
  BY <1>1, LaunchStarts, LaunchStep, PTL DEF L!LaunchSpec

---------------------------------------------------------------------------
(* The file and its writers.                                               *)

Documents == L!Docs \cup {L!NoFile, L!Half}
WriterStates == {"idle", "writing", "filled", "renamed", "digesting"}
Writing == [pc : WriterStates, doc : BySetup \cup {L!NoFile}, holds : {"none", "tmp", "file"}]

ConfigTyped ==
    /\ file \in Documents /\ tmp \in Documents /\ digest \in Documents
    /\ writer \in [Writers -> Writing]
    /\ \A w \in Writers : writer[w].pc # "idle" => writer[w].doc \in BySetup
    /\ check.stored \in Documents /\ check.read \in Documents
    /\ env \in Environment /\ edits \in 0..MaxEdits /\ overlapped \in BOOLEAN
    /\ written \subseteq Documents

\* One writer at a time: it writes to the temporary file, and it has the whole of it there
\* before the rename.
WholeInv ==
    /\ file # L!Half
    /\ \A w, x \in Writers : writer[w].pc # "idle" /\ writer[x].pc # "idle" => w = x
    /\ \A w \in Writers : /\ writer[w].pc = "writing" => writer[w].holds = "tmp"
                          /\ writer[w].pc # "writing" => writer[w].holds = "none"
                          /\ writer[w].pc = "filled" => tmp # L!Half

ConfigInv == ConfigTyped /\ (~overlapped => WholeInv)

LEMMA ConfigStarts ==
  ASSUME L!ConfigInit
  PROVE  ConfigInv
<1>1. L!Idle \in Writing /\ L!Idle.pc = "idle" /\ L!Idle.holds = "none"
  BY DEF L!Idle, Writing, WriterStates
<1>2. ConfigTyped
  <2>1. L!NoFile \in Documents /\ \A doc \in ByHand : doc \in Documents
    BY DEF Documents, L!Docs
  <2>2. file \in ByHand /\ tmp = L!NoFile /\ digest = L!NoFile /\ check.stored = L!NoFile /\ check.read = L!NoFile
    BY DEF L!ConfigInit
  <2>3. writer = [w \in Writers |-> L!Idle] /\ env \in Environment /\ edits = 0 /\ written = {} /\ overlapped = FALSE
    BY DEF L!ConfigInit
  <2>4. writer \in [Writers -> Writing] /\ \A w \in Writers : writer[w].pc = "idle"
    BY <1>1, <2>3
  <2>5. edits \in 0..MaxEdits
    BY <2>3, LaunchAssumption
  <2> QED
    BY <2>1, <2>2, <2>3, <2>4, <2>5 DEF ConfigTyped
<1>3. WholeInv
  BY <1>1, LaunchAssumption DEF L!ConfigInit, WholeInv, L!Half
<1> QED
  BY <1>2, <1>3 DEF ConfigInv

\* A writer goes on, and nobody else has a file open.
LEMMA OneWrites ==
  ASSUME ConfigInv, NEW w \in Writers, NEW r \in Writing, writer' = [writer EXCEPT ![w] = r],
         UNCHANGED <<check, env, edits>>,
         r.pc # "idle" => r.doc \in BySetup,
         file' \in Documents, tmp' \in Documents, digest' \in Documents, written' \subseteq Documents,
         overlapped' \in BOOLEAN, overlapped => overlapped',
         ~overlapped' =>
            /\ file' # L!Half
            /\ r.pc # "idle" => \A x \in Writers \ {w} : writer[x].pc = "idle"
            /\ r.pc = "writing" => r.holds = "tmp"
            /\ r.pc # "writing" => r.holds = "none"
            /\ r.pc = "filled" => tmp' # L!Half
            /\ tmp' = tmp \/ tmp' # L!Half \/ \A x \in Writers \ {w} : writer[x].pc = "idle"
  PROVE  ConfigInv'
<1>1. writer'[w] = r /\ \A x \in Writers : x # w => writer'[x] = writer[x]
  BY DEF ConfigInv, ConfigTyped
<1>2. ConfigTyped'
  <2>1. writer' \in [Writers -> Writing] /\ check.stored \in Documents /\ check.read \in Documents
    BY DEF ConfigInv, ConfigTyped
  <2>2. \A x \in Writers : writer'[x].pc # "idle" => writer'[x].doc \in BySetup
    BY <1>1 DEF ConfigInv, ConfigTyped
  <2>3. env' \in Environment /\ edits' \in 0..MaxEdits
    BY DEF ConfigInv, ConfigTyped
  <2>4. Documents' = Documents
    BY DEF Documents, L!Docs, L!NoFile, L!Half
  <2> QED
    BY <2>1, <2>2, <2>3, <2>4 DEF ConfigTyped
<1>3. ASSUME ~overlapped' PROVE WholeInv'
  <2>1. WholeInv
    BY <1>3 DEF ConfigInv, ConfigTyped
  <2> QED
    BY <1>1, <1>3, <2>1 DEF WholeInv, L!Half
<1> QED
  BY <1>2, <1>3 DEF ConfigInv

LEMMA OpenTmpStep ==
  ASSUME ConfigInv, NEW w \in Writers, NEW doc \in BySetup, L!OpenTmp(w, doc)
  PROVE  ConfigInv'
<1> DEFINE r == [pc |-> "writing", doc |-> doc, holds |-> "tmp"]
<1>1. /\ writer' = [writer EXCEPT ![w] = r] /\ tmp' = L!Half
      /\ overlapped' = (overlapped \/ \E x \in Writers \ {w} : writer[x].pc # "idle")
      /\ UNCHANGED <<file, digest, check, env, edits, written>>
  BY DEF L!OpenTmp
<1>2. r \in Writing /\ r.pc = "writing" /\ r.holds = "tmp" /\ r.doc = doc
  BY DEF Writing, WriterStates
<1> HIDE DEF r
<1>3. /\ file' \in Documents /\ tmp' \in Documents /\ digest' \in Documents /\ written' \subseteq Documents
      /\ overlapped' \in BOOLEAN /\ (overlapped => overlapped')
  BY <1>1 DEF ConfigInv, ConfigTyped, Documents
<1>4. ~overlapped' => file' # L!Half /\ \A x \in Writers \ {w} : writer[x].pc = "idle"
  BY <1>1 DEF ConfigInv, WholeInv
<1> QED
  BY <1>1, <1>2, <1>3, <1>4, OneWrites

LEMMA FillTmpStep ==
  ASSUME ConfigInv, NEW w \in Writers, L!FillTmp(w)
  PROVE  ConfigInv'
<1> DEFINE r == [writer[w] EXCEPT !.pc = "filled", !.holds = "none"]
<1>1. /\ writer[w].pc = "writing" /\ writer' = [writer EXCEPT ![w] = r]
      /\ UNCHANGED <<digest, check, env, edits, overlapped>>
  BY DEF L!FillTmp
<1>2. writer[w] \in Writing /\ writer[w].doc \in BySetup
  BY <1>1 DEF ConfigInv, ConfigTyped
<1>3. r \in Writing /\ r.pc = "filled" /\ r.holds = "none" /\ r.doc = writer[w].doc
  BY <1>2 DEF Writing, WriterStates
<1> HIDE DEF r
<1>4. PICK content \in L!Contents(w) :
        \/ writer[w].holds = "tmp" /\ tmp' = content /\ UNCHANGED <<file, written>>
        \/ writer[w].holds = "file" /\ file' = content /\ written' = written \cup {content} /\ UNCHANGED tmp
  BY DEF L!FillTmp
<1>5. content \in Documents
  BY <1>2, <1>4 DEF L!Contents, Documents, L!Docs
<1>6. /\ file' \in Documents /\ tmp' \in Documents /\ digest' \in Documents /\ written' \subseteq Documents
      /\ overlapped' \in BOOLEAN /\ overlapped' = overlapped
  BY <1>1, <1>4, <1>5 DEF ConfigInv, ConfigTyped
<1>7. ASSUME ~overlapped'
      PROVE  /\ file' # L!Half /\ tmp' # L!Half
             /\ \A x \in Writers \ {w} : writer[x].pc = "idle"
  <2>1. WholeInv /\ writer[w].holds = "tmp"
    BY <1>1, <1>6, <1>7 DEF ConfigInv, WholeInv
  <2>2. \A x \in Writers \ {w} : writer[x].pc = "idle" /\ writer[x].holds = "none"
    BY <1>1, <2>1 DEF WholeInv
  <2>3. content = writer[w].doc
    BY <1>4, <2>1, <2>2 DEF L!Contents
  <2>4. content # L!Half
    BY <1>2, <2>3, LaunchAssumption DEF L!Half
  <2> QED
    BY <1>4, <2>1, <2>2, <2>4 DEF WholeInv
<1>8. UNCHANGED <<check, env, edits>> /\ (overlapped => overlapped') /\ (r.pc # "idle" => r.doc \in BySetup)
  BY <1>1, <1>2, <1>3
<1>9. ~overlapped' =>
         /\ file' # L!Half
         /\ r.pc # "idle" => \A x \in Writers \ {w} : writer[x].pc = "idle"
         /\ r.pc = "writing" => r.holds = "tmp"
         /\ r.pc # "writing" => r.holds = "none"
         /\ r.pc = "filled" => tmp' # L!Half
         /\ tmp' = tmp \/ tmp' # L!Half \/ \A x \in Writers \ {w} : writer[x].pc = "idle"
  BY <1>3, <1>7
<1> QED
  BY <1>1, <1>3, <1>6, <1>8, <1>9, OneWrites

LEMMA RenameStep ==
  ASSUME ConfigInv, NEW w \in Writers, L!Rename(w)
  PROVE  ConfigInv'
<1>1. /\ writer[w].pc = "filled" /\ file' = tmp /\ tmp' = L!NoFile /\ written' = written \cup {tmp}
      /\ UNCHANGED <<digest, check, env, edits, overlapped>>
      /\ writer' = [x \in Writers |->
           IF x = w THEN [writer[x] EXCEPT !.pc = "renamed"]
           ELSE IF writer[x].holds = "tmp" THEN [writer[x] EXCEPT !.holds = "file"] ELSE writer[x]]
  BY DEF L!Rename
<1>2. ConfigTyped
  BY DEF ConfigInv
<1>3. ASSUME NEW x \in Writers
      PROVE  /\ writer'[x] \in Writing /\ writer'[x].doc = writer[x].doc
             /\ writer'[x].pc = IF x = w THEN "renamed" ELSE writer[x].pc
             /\ writer[x].holds # "tmp" => writer'[x].holds = writer[x].holds
  <2>1. writer[x] \in Writing
    BY <1>2 DEF ConfigTyped
  <2>2. CASE x = w
    BY <1>1, <2>1, <2>2 DEF Writing, WriterStates
  <2>3. CASE x # w /\ writer[x].holds = "tmp"
    BY <1>1, <2>1, <2>3 DEF Writing
  <2>4. CASE x # w /\ writer[x].holds # "tmp"
    BY <1>1, <2>1, <2>4
  <2> QED
    BY <2>2, <2>3, <2>4
<1>4. ConfigTyped'
  <2>1. writer' \in [Writers -> Writing]
    BY <1>1, <1>3
  <2>2. \A x \in Writers : writer'[x].pc # "idle" => writer'[x].doc \in BySetup
    BY <1>1, <1>2, <1>3 DEF ConfigTyped
  <2>3. L!NoFile \in Documents
    BY DEF Documents
  <2> QED
    BY <1>1, <1>2, <2>1, <2>2, <2>3 DEF ConfigTyped
<1>5. ASSUME ~overlapped' PROVE WholeInv'
  <2>1. WholeInv
    BY <1>1, <1>5 DEF ConfigInv
  <2>2. file' # L!Half /\ tmp' # L!Half
    BY <1>1, <2>1 DEF WholeInv, L!NoFile, L!Half
  <2>3. \A x \in Writers : writer[x].holds = "none" \/ writer[x].pc = "writing"
    BY <2>1 DEF WholeInv
  <2>4. \A x \in Writers : writer[x].pc # "idle" => x = w
    BY <1>1, <2>1 DEF WholeInv
  <2> QED
    BY <1>1, <1>3, <2>1, <2>2, <2>3, <2>4 DEF WholeInv
<1> QED
  BY <1>4, <1>5 DEF ConfigInv

LEMMA WriterEndsStep ==
  ASSUME ConfigInv, NEW w \in Writers,
         L!RenameFails(w) \/ L!OpenDigest(w) \/ L!FillDigest(w) \/ L!Fails(w)
  PROVE  ConfigInv'
<1>1. /\ L!NoFile \in Documents /\ L!Half \in Documents /\ L!Idle \in Writing
      /\ L!Idle.pc = "idle" /\ L!Idle.holds = "none" /\ L!NoFile # L!Half
  BY DEF Documents, L!Idle, Writing, WriterStates, L!NoFile, L!Half
<1>2. /\ UNCHANGED <<file, check, env, edits, written, overlapped>>
      /\ writer[w].pc # "idle" /\ tmp' \in {tmp, L!NoFile}
  BY DEF L!RenameFails, L!OpenDigest, L!FillDigest, L!Fails
<1>3. writer[w] \in Writing /\ writer[w].doc \in BySetup
  BY <1>2 DEF ConfigInv, ConfigTyped
<1>4. digest' \in Documents
  BY <1>1, <1>3 DEF L!RenameFails, L!OpenDigest, L!FillDigest, L!Fails, L!DigestOf, ConfigInv, ConfigTyped,
     Documents, L!Docs
<1>5. /\ file' \in Documents /\ tmp' \in Documents /\ written' \subseteq Documents
      /\ overlapped' \in BOOLEAN /\ overlapped' = overlapped
  BY <1>1, <1>2 DEF ConfigInv, ConfigTyped
<1>6. ~overlapped' => /\ file' # L!Half /\ (tmp' = tmp \/ tmp' # L!Half)
                      /\ \A x \in Writers \ {w} : writer[x].pc = "idle"
                      /\ writer[w].pc # "writing" => writer[w].holds = "none"
  BY <1>1, <1>2, <1>5 DEF ConfigInv, WholeInv
<1>7. CASE writer' = [writer EXCEPT ![w] = L!Idle]
  <2> DEFINE r == L!Idle
  <2>1. r \in Writing /\ writer' = [writer EXCEPT ![w] = r] /\ UNCHANGED <<check, env, edits>>
        /\ (overlapped => overlapped') /\ (r.pc # "idle" => r.doc \in BySetup)
    BY <1>1, <1>2, <1>5, <1>7
  <2>2. ~overlapped' =>
           /\ file' # L!Half
           /\ r.pc # "idle" => \A x \in Writers \ {w} : writer[x].pc = "idle"
           /\ r.pc = "writing" => r.holds = "tmp"
           /\ r.pc # "writing" => r.holds = "none"
           /\ r.pc = "filled" => tmp' # L!Half
           /\ tmp' = tmp \/ tmp' # L!Half \/ \A x \in Writers \ {w} : writer[x].pc = "idle"
    BY <1>1, <1>6
  <2> HIDE DEF r
  <2> QED
    BY <1>4, <1>5, <2>1, <2>2, OneWrites
<1>8. CASE L!OpenDigest(w)
  <2> DEFINE r == [writer[w] EXCEPT !.pc = "digesting"]
  <2>1. writer[w].pc = "renamed" /\ writer' = [writer EXCEPT ![w] = r]
    BY <1>8 DEF L!OpenDigest
  <2>2. r \in Writing /\ r.pc = "digesting" /\ r.holds = writer[w].holds /\ r.doc = writer[w].doc
    BY <1>3 DEF Writing, WriterStates
  <2> HIDE DEF r
  <2>3. UNCHANGED <<check, env, edits>> /\ (overlapped => overlapped') /\ (r.pc # "idle" => r.doc \in BySetup)
    BY <1>2, <1>3, <1>5, <2>2
  <2>4. ~overlapped' =>
           /\ file' # L!Half
           /\ r.pc # "idle" => \A x \in Writers \ {w} : writer[x].pc = "idle"
           /\ r.pc = "writing" => r.holds = "tmp"
           /\ r.pc # "writing" => r.holds = "none"
           /\ r.pc = "filled" => tmp' # L!Half
           /\ tmp' = tmp \/ tmp' # L!Half \/ \A x \in Writers \ {w} : writer[x].pc = "idle"
    BY <1>6, <2>1, <2>2
  <2> QED
    BY <1>4, <1>5, <2>1, <2>2, <2>3, <2>4, OneWrites
<1> QED
  BY <1>7, <1>8 DEF L!RenameFails, L!FillDigest, L!Fails

LEMMA HandEditStep ==
  ASSUME ConfigInv, NEW doc \in ByHand, L!HandEdit(doc)
  PROVE  ConfigInv'
<1>1. /\ edits < MaxEdits /\ file' = doc /\ edits' = edits + 1
      /\ UNCHANGED <<tmp, digest, writer, check, env, written, overlapped>>
  BY DEF L!HandEdit
<1>2. doc \in Documents /\ doc # L!Half /\ edits' \in 0..MaxEdits
  <2>1. doc \in Documents
    BY DEF Documents, L!Docs
  <2>2. doc # L!Half
    BY LaunchAssumption DEF L!Half
  <2>3. edits \in 0..MaxEdits /\ MaxEdits \in Nat
    BY LaunchAssumption DEF ConfigInv, ConfigTyped
  <2> QED
    BY <1>1, <2>1, <2>2, <2>3
<1>3. ConfigTyped'
  BY <1>1, <1>2 DEF ConfigInv, ConfigTyped
<1>4. ~overlapped' => WholeInv'
  BY <1>1, <1>2 DEF ConfigInv, WholeInv
<1> QED
  BY <1>3, <1>4 DEF ConfigInv

LEMMA CheckStep ==
  ASSUME ConfigInv, L!CheckDigest \/ L!CheckFile
  PROVE  ConfigInv'
<1>1. UNCHANGED <<file, tmp, digest, writer, env, edits, written, overlapped>>
  BY DEF L!CheckDigest, L!CheckFile
<1>2. check'.stored \in Documents /\ check'.read \in Documents
  <2>1. L!NoFile \in Documents
    BY DEF Documents
  <2>2. CASE L!CheckDigest
    BY <2>1, <2>2 DEF L!CheckDigest, ConfigInv, ConfigTyped
  <2>3. CASE L!CheckFile
    <3>1. /\ check'.stored = check.stored
          /\ check'.read \in {check.read, file}
      BY <2>3 DEF L!CheckFile, ConfigInv, ConfigTyped
    <3> QED
      BY <3>1 DEF ConfigInv, ConfigTyped
  <2> QED
    BY <2>2, <2>3
<1>3. ConfigTyped'
  BY <1>1, <1>2 DEF ConfigInv, ConfigTyped
<1>4. ~overlapped' => WholeInv'
  BY <1>1 DEF ConfigInv, WholeInv
<1> QED
  BY <1>3, <1>4 DEF ConfigInv

LEMMA ConfigStep ==
  ASSUME ConfigInv, [L!ConfigNext]_(L!configvars)
  PROVE  ConfigInv'
<1>1. ASSUME NEW w \in Writers, L!WriterStep(w) PROVE ConfigInv'
  BY <1>1, OpenTmpStep, FillTmpStep, RenameStep, WriterEndsStep DEF L!WriterStep
<1>2. ASSUME NEW doc \in ByHand, L!HandEdit(doc) PROVE ConfigInv'
  BY <1>2, HandEditStep
<1>3. CASE L!CheckDigest \/ L!CheckFile
  BY <1>3, CheckStep
<1>4. CASE UNCHANGED L!configvars
  BY <1>4 DEF L!configvars, ConfigInv, ConfigTyped, WholeInv
<1> QED
  BY <1>1, <1>2, <1>3, <1>4 DEF L!ConfigNext

\* write_config_atomically, for any documents, writers and edits: whatever step fails and
\* whoever is killed, config.yaml is never a half-written file, if no two calls overlap.
THEOREM ConfigStaysWhole == L!ConfigSpec => []ConfigIsWhole
<1>1. ConfigInv => ConfigIsWhole
  BY DEF ConfigInv, WholeInv, ConfigIsWhole, L!ConfigIsWhole
<1> QED
  BY <1>1, ConfigStarts, ConfigStep, PTL DEF L!ConfigSpec

\* What a start does with the file is what Config says may be done with it.
LEMMA LaunchKeepsConfig ==
  ASSUME [L!LaunchNext]_(L!vars)
  PROVE  [L!ConfigNext]_(L!configvars)
<1>1. ASSUME NEW p \in Starters, NEW command \in L!Commands,
             \/ L!Start(p, command) \/ L!StoreDir(p) \/ L!LookBehind(p) \/ L!LookAhead(p)
             \/ L!Move(p) \/ L!MoveFails(p) \/ L!Boot(p) \/ L!BootFails(p)
             \/ L!Serve(p) \/ L!VerifyChain(p) \/ L!BeginWrite(p) \/ L!EndWrite(p) \/ L!Ends(p)
      PROVE  UNCHANGED L!configvars
  BY <1>1 DEF L!Start, L!StoreDir, L!LookBehind, L!LookAhead, L!Move, L!MoveFails, L!Boot, L!BootFails,
     L!Serve, L!VerifyChain, L!BeginWrite, L!EndWrite, L!Ends, L!OnlyProc
<1>2. "serve" \in L!Commands
  BY DEF L!Commands
<1>3. CASE L!LaunchNext
  BY <1>1, <1>2, <1>3 DEF L!LaunchNext, L!EditDuring, L!WriteDuring, L!CheckDuring, L!ConfigNext
<1>4. CASE UNCHANGED L!vars
  BY <1>4 DEF L!vars
<1> QED
  BY <1>3, <1>4

\* Launch: the file, the stores and the gateways are always what LaunchTypes says, however
\* many gateways, writers and documents there are.
THEOREM LaunchTypesHold == L!LaunchSpec => []LaunchTypes
<1> DEFINE Few == starts \in 0..MaxStarts
           Inv == LaunchInv /\ ConfigInv /\ Few
<1>1. L!LaunchInit => Inv
  <2>1. MaxStarts \in Nat
    BY LaunchAssumption
  <2>2. L!LaunchInit => L!ConfigInit /\ starts = 0
    BY DEF L!LaunchInit
  <2> QED
    BY <2>1, <2>2, LaunchStarts, ConfigStarts
<1>2. Inv /\ [L!LaunchNext]_(L!vars) => Inv'
  <2>1. ASSUME Inv, [L!LaunchNext]_(L!vars) PROVE Few'
    <3>1. ASSUME NEW p \in Starters, NEW command \in L!Commands, L!Start(p, command) PROVE Few'
      BY <2>1, <3>1, LaunchAssumption DEF L!Start
    <3>2. ASSUME NEW p \in Starters,
                 \/ L!StoreDir(p) \/ L!LookBehind(p) \/ L!LookAhead(p) \/ L!Move(p) \/ L!MoveFails(p)
                 \/ L!Boot(p) \/ L!BootFails(p) \/ L!Serve(p) \/ L!VerifyChain(p)
                 \/ L!BeginWrite(p) \/ L!EndWrite(p) \/ L!Ends(p)
          PROVE  starts' = starts
      BY <3>2 DEF L!StoreDir, L!LookBehind, L!LookAhead, L!Move, L!MoveFails, L!Boot, L!BootFails,
         L!Serve, L!VerifyChain, L!BeginWrite, L!EndWrite, L!Ends, L!OnlyProc
    <3>3. ASSUME L!Disturbing PROVE starts' = starts
      BY <3>3 DEF L!Disturbing
    <3>4. CASE UNCHANGED L!vars
      BY <2>1, <3>4 DEF L!vars, L!launchvars
    <3> QED
      BY <2>1, <3>1, <3>2, <3>3, <3>4 DEF L!LaunchNext, L!EditDuring, L!WriteDuring, L!CheckDuring
  <2> QED
    BY <2>1, LaunchStep, LaunchKeepsConfig, ConfigStep
<1>3. Inv => LaunchTypes
  <2>1. LaunchInv => /\ \A x \in L!Places : store[x].there \in BOOLEAN /\ store[x].torn \in BOOLEAN
                                           /\ journal[x] \in BOOLEAN
                     /\ \A p \in Starters : proc[p] \in Gateways
    BY DEF LaunchInv, LaunchTyped
  <2>2. ConfigInv => L!ConfigTypes
    <3>1. \A r \in Writing : r.pc \in WriterStates /\ r.holds \in {"none", "tmp", "file"}
      BY DEF Writing
    <3> QED
      BY <3>1 DEF ConfigInv, ConfigTyped, Documents, WriterStates, L!ConfigTypes
  <2> QED
    BY <2>1, <2>2 DEF LaunchTypes, L!LaunchTypes, Gateways, Ways, Opened
<1> QED
  BY <1>1, <1>2, <1>3, PTL DEF L!LaunchSpec
===============================================================================
