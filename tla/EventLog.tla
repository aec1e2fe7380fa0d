------------------------------- MODULE EventLog -------------------------------
(***************************************************************************)
(* The session store's `events` table: one append-only log per session,    *)
(* each row carrying the digest of the row before it.  Modelled from       *)
(* pkgs/host/session/src/{store,event_log,projection}.rs and from the boot *)
(* that opens the store (Runtime::open_store, pkgs/host/agent/src/lib.rs). *)
(*                                                                         *)
(* One process owns the store behind a mutex, so an operation of a running *)
(* store is one action.  Opening the store is not: the column upgrade and  *)
(* the conversion of old transcripts commit row by row, and the process    *)
(* can die between two rows.                                               *)
(***************************************************************************)
EXTENDS Integers, Sequences, FiniteSets, FiniteSetsExt

CONSTANTS
    Sessions,        \* session ids
    Kinds,           \* the row kinds that occur
    Payloads,        \* the payloads that occur
    NewPayloads,     \* the payloads a running store logs
    OldTables,       \* tables from before the digest column: session -> seq of contents
    OldTranscripts,  \* what the pre-log transcripts convert to: session -> seq of contents
    NoDigest,        \* SQL NULL in the prev_digest column
    None,            \* no session
    MaxRows,         \* bound: rows of one session's log
    MaxCrashes       \* bound: crashes of the process

\* What a row says: its kind and payload.  `ts` is left out: nothing below tells two times apart.
Contents == [kind : Kinds, payload : Payloads]

\* The digest of a row identifies the row's place and content (SHA-256 taken as injective).
Digests == Nat \X Kinds \X Payloads

Rows == [kind : Kinds, payload : Payloads, prev : Digests \cup {NoDigest}]

\* A log is a table indexed by the sequence number, the primary key within a session.
ContentLogs == [Sessions -> Seq(Contents)]

ASSUME ConstantsAssumption ==
    /\ MaxRows \in Nat /\ MaxCrashes \in Nat
    /\ NewPayloads \subseteq Payloads
    /\ NoDigest \notin Digests
    /\ None \notin Sessions
    /\ OldTranscripts \in ContentLogs
    /\ \A s \in Sessions : Len(OldTranscripts[s]) <= MaxRows
    /\ \A table \in OldTables : /\ table \in ContentLogs
                                /\ \A s \in Sessions : Len(table[s]) <= MaxRows

VARIABLES
    events,       \* the table: session -> (seq -> row)
    hasColumn,    \* whether the table has the prev_digest column
    phase,        \* the process: down, backfilling, converting or up
    todo,         \* <<session, seq>> rows the backfill has not updated yet
    unconverted,  \* sessions with a transcript the conversion has not looked at yet
    current,      \* the session under conversion
    left,         \* rows the conversion still has to append to `current`
    crashes,      \* crashes so far
    upgraded,     \* history: no backfill was ever cut short
    parent        \* history: [from, copied], the rows a fork copied (0: no fork) and from where

vars == <<events, hasColumn, phase, todo, unconverted, current, left, crashes, upgraded, parent>>

NoFork == [from |-> None, copied |-> 0]

boot == <<todo, unconverted, current, left>>

-----------------------------------------------------------------------------
(* Operations on one log. *)

Seqs(s) == DOMAIN events[s]

\* COALESCE(MAX(seq), 0)
LastSeq(log) == IF DOMAIN log = {} THEN 0 ELSE Max(DOMAIN log)

\* compute_event_digest
Digest(seq, row) == <<seq, row.kind, row.payload>>

\* The row before `seq` in the order of the log, 0 when it is the first.
Before(log, seq) == LastSeq([q \in {p \in DOMAIN log : p < seq} |-> log[q]])

\* Mutant: the digest is taken with the number of the row it goes into.
LastDigestOfNext(log) ==
    IF DOMAIN log = {} THEN NoDigest ELSE Digest(LastSeq(log) + 1, log[LastSeq(log)])

\* The digest the next row of `log` carries: NULL for the first.
LastDigest(log) ==
    IF DOMAIN log = {} THEN NoDigest ELSE Digest(LastSeq(log), log[LastSeq(log)])

\* A row saying what `content` says, with this digest.
WithPrev(content, digest) ==
    [kind |-> content.kind, payload |-> content.payload, prev |-> digest]

\* Mutant: the number is MAX(seq), not one more, and the row there is replaced.
AppendedInPlace(log, content) ==
    [q \in DOMAIN log \cup {IF DOMAIN log = {} THEN 1 ELSE LastSeq(log)} |->
        IF q \in DOMAIN log /\ q # LastSeq(log)
        THEN log[q]
        ELSE WithPrev(content, NoDigest)]

\* Mutant: numbers start at 0.
AppendedFromZero(log, content) ==
    [q \in DOMAIN log \cup {Cardinality(DOMAIN log)} |->
        IF q \in DOMAIN log
        THEN log[q]
        ELSE WithPrev(content, LastDigest(log))]

\* append_event_at: the number is allocated in the INSERT, the digest read just before it.
Appended(log, content) ==
    [q \in DOMAIN log \cup {LastSeq(log) + 1} |->
        IF q \in DOMAIN log
        THEN log[q]
        ELSE WithPrev(content, LastDigest(log))]

\* Mutant: ROW_NUMBER() counts from the last row.
ForkedBackwards(log, at) ==
    LET copied == {q \in DOMAIN log : q <= at}
        rank(q) == Cardinality({p \in copied : p >= q})
    IN  [i \in 1..Cardinality(copied) |->
            WithPrev(log[CHOOSE q \in copied : rank(q) = i], NoDigest)]

\* fork_events: rows up to `at`, renumbered by ROW_NUMBER(); the INSERT names no prev_digest.
Forked(log, at) ==
    LET copied == {q \in DOMAIN log : q <= at}
        rank(q) == Cardinality({p \in copied : p <= q})
    IN  [i \in 1..Cardinality(copied) |->
            WithPrev(log[CHOOSE q \in copied : rank(q) = i], NoDigest)]

\* verify_chain_internal, row by row.
RowVerifies(log, q) ==
    log[q].prev = IF Before(log, q) = 0 THEN NoDigest
                  ELSE Digest(Before(log, q), log[Before(log, q)])

Verify(log) ==
    IF DOMAIN log = {} THEN "not-found"
    ELSE IF \A q \in DOMAIN log : RowVerifies(log, q) THEN "intact" ELSE "broken"

-----------------------------------------------------------------------------
(* What a new turn replays. *)

TurnStarts(log) == {q \in DOMAIN log : log[q].kind = "user-message"}

From(log, seq) == [q \in {p \in DOMAIN log : p >= seq} |-> log[q]]

\* Mutant: OFFSET is one too small.
LatestButOne(starts, turns) == {q \in starts : Cardinality({p \in starts : p >= q}) < turns}

\* The `turns` largest members of a set of numbers.
Latest(starts, turns) == {q \in starts : Cardinality({p \in starts : p >= q}) <= turns}

\* Store::recent_turns: from the smallest of the latest `turns` user-message rows.
RecentTurns(log, turns) ==
    LET starts == Latest(TurnStarts(log), turns)
    IN  IF turns = 0 THEN From(log, LastSeq(log) + 1)
        ELSE From(log, IF starts = {} THEN 0 ELSE Min(starts))

\* projection::last_turns: every row when there are no more than `turns` turns.
LastTurns(log, turns) ==
    LET starts == TurnStarts(log)
    IN  CASE turns = 0 -> From(log, LastSeq(log) + 1)
          [] turns # 0 /\ Cardinality(starts) <= turns -> log
          [] OTHER -> From(log, Min(Latest(starts, turns)))

-----------------------------------------------------------------------------
(* Opening the store. *)

\* A table from before the column (no digests), or one with the column, made empty by CREATE TABLE.
Init ==
    /\ \E table \in OldTables :
         events = [s \in Sessions |-> [q \in DOMAIN table[s] |-> WithPrev(table[s][q], NoDigest)]]
    /\ hasColumn = (\A s \in Sessions : Seqs(s) = {})
    /\ phase = "down"
    /\ todo = {} /\ unconverted = {} /\ current = None /\ left = <<>>
    /\ crashes = 0
    /\ upgraded = TRUE
    /\ parent = [s \in Sessions |-> NoFork]

HasTranscript == {s \in Sessions : OldTranscripts[s] # <<>>}

\* Store::init with the column present: the conversion is next.
OpenCurrent ==
    /\ phase = "down" /\ hasColumn
    /\ phase' = "converting"
    /\ unconverted' = HasTranscript
    /\ UNCHANGED <<events, hasColumn, todo, current, left, crashes, upgraded, parent>>

\* Mutant: the column is added, its rows are not backfilled.
OpenOldBare ==
    /\ phase = "down" /\ ~hasColumn
    /\ hasColumn' = TRUE
    /\ phase' = "backfilling"
    /\ UNCHANGED <<events, todo, unconverted, current, left, crashes, upgraded, parent>>

\* ensure_prev_digest_column without it: ALTER TABLE commits, then migrate_digests begins.
OpenOld ==
    /\ phase = "down" /\ ~hasColumn
    /\ hasColumn' = TRUE
    /\ phase' = "backfilling"
    /\ todo' = {row \in Sessions \X (1..MaxRows) :
                  row[2] \in Seqs(row[1]) /\ Before(events[row[1]], row[2]) # 0}
    /\ UNCHANGED <<events, unconverted, current, left, crashes, upgraded, parent>>

\* One UPDATE of migrate_digests: rows of a session in order.
BackfillRow ==
    /\ phase = "backfilling"
    /\ \E s \in Sessions, q \in 1..MaxRows :
         /\ <<s, q>> \in todo
         /\ \A p \in 1..(q - 1) : <<s, p>> \notin todo
         /\ LET before == Before(events[s], q)
            IN  events' = [events EXCEPT ![s][q] = WithPrev(@, Digest(before, events[s][before]))]
         /\ todo' = todo \ {<<s, q>>}
    /\ UNCHANGED <<hasColumn, phase, unconverted, current, left, crashes, upgraded, parent>>

BackfillDone ==
    /\ phase = "backfilling" /\ todo = {}
    /\ phase' = "converting"
    /\ unconverted' = HasTranscript
    /\ UNCHANGED <<events, hasColumn, todo, current, left, crashes, upgraded, parent>>

\* Mutant: a session that has events is converted again.
ConvertAgain(s) ==
    /\ phase = "converting" /\ left = <<>> /\ s \in unconverted
    /\ Cardinality(Seqs(s)) + Len(OldTranscripts[s]) <= MaxRows
    /\ unconverted' = unconverted \ {s}
    /\ current' = s /\ left' = OldTranscripts[s]
    /\ UNCHANGED <<events, hasColumn, phase, todo, crashes, upgraded, parent>>

\* migrate_transcripts looks at the next session; one that has any events is skipped.
ConvertSession(s) ==
    /\ phase = "converting" /\ left = <<>> /\ s \in unconverted
    /\ unconverted' = unconverted \ {s}
    /\ IF Seqs(s) = {}
       THEN current' = s /\ left' = OldTranscripts[s]
       ELSE UNCHANGED <<current, left>>
    /\ UNCHANGED <<events, hasColumn, phase, todo, crashes, upgraded, parent>>

\* One append of the conversion.
ConvertRow ==
    /\ phase = "converting" /\ left # <<>>
    /\ events' = [events EXCEPT ![current] = Appended(@, Head(left))]
    /\ left' = Tail(left)
    /\ UNCHANGED <<hasColumn, phase, todo, unconverted, current, crashes, upgraded, parent>>

\* Every session was looked at.
ConvertDone ==
    /\ phase = "converting" /\ left = <<>> /\ unconverted = {}
    /\ phase' = "up"
    /\ current' = None
    /\ UNCHANGED <<events, hasColumn, todo, unconverted, left, crashes, upgraded, parent>>

\* A read or an append of the conversion fails: open_store warns and the store is served as it is.
ConvertFails ==
    /\ phase = "converting" /\ (left # <<>> \/ unconverted # {})
    /\ phase' = "up"
    /\ unconverted' = {} /\ current' = None /\ left' = <<>>
    /\ UNCHANGED <<events, hasColumn, todo, crashes, upgraded, parent>>

-----------------------------------------------------------------------------
(* The running store. *)

\* Mutant: rows are numbered across sessions.
AppendEventGlobally(s, content) ==
    /\ phase = "up"
    /\ LET all == UNION {Seqs(t) : t \in Sessions}
           seq == IF all = {} THEN 1 ELSE Max(all) + 1
       IN  /\ seq <= MaxRows
           /\ events' = [events EXCEPT ![s] =
                [q \in DOMAIN @ \cup {seq} |->
                    IF q = seq THEN WithPrev(content, LastDigest(events[s])) ELSE events[s][q]]]
    /\ UNCHANGED <<hasColumn, phase, boot, crashes, upgraded, parent>>

\* Store::append_event, the one way a row enters the log of a running store.
AppendEvent(s, content) ==
    /\ phase = "up"
    /\ Cardinality(Seqs(s)) < MaxRows
    /\ events' = [events EXCEPT ![s] = Appended(@, content)]
    /\ UNCHANGED <<hasColumn, phase, boot, crashes, upgraded, parent>>

\* Store::fork_events, from session::fork: `into` is a minted id, so it has no old transcript.
ForkEvents(from, at, into) ==
    /\ phase = "up"
    /\ into \notin HasTranscript
    /\ Seqs(into) = {}
    /\ events' = [events EXCEPT ![into] = Forked(events[from], at)]
    /\ parent' = [parent EXCEPT ![into] =
                    [from |-> from, copied |-> LastSeq(Forked(events[from], at))]]
    /\ UNCHANGED <<hasColumn, phase, boot, crashes, upgraded>>

\* Store::purge_session_events.
PurgeSessionEvents(s) ==
    /\ phase = "up"
    /\ events' = [events EXCEPT ![s] = <<>>]
    /\ parent' = [c \in Sessions |->
                    IF c = s THEN NoFork
                    ELSE IF parent[c].from = s THEN [from |-> None, copied |-> parent[c].copied]
                    ELSE parent[c]]
    /\ UNCHANGED <<hasColumn, phase, boot, crashes, upgraded>>

\* The process dies; what is committed stays.
Crash ==
    /\ phase # "down" /\ crashes < MaxCrashes
    /\ crashes' = crashes + 1
    /\ phase' = "down"
    /\ todo' = {} /\ unconverted' = {} /\ current' = None /\ left' = <<>>
    /\ upgraded' = (upgraded /\ todo = {})
    /\ UNCHANGED <<events, hasColumn, parent>>

Next ==
    \/ OpenCurrent
    \/ OpenOld
    \/ BackfillRow
    \/ BackfillDone
    \/ \E s \in Sessions : ConvertSession(s)
    \/ ConvertRow
    \/ ConvertDone
    \/ ConvertFails
    \/ \E s \in Sessions, kind \in Kinds, payload \in NewPayloads :
         AppendEvent(s, [kind |-> kind, payload |-> payload])
    \/ \E from, into \in Sessions, at \in 0..MaxRows : ForkEvents(from, at, into)
    \/ \E s \in Sessions : PurgeSessionEvents(s)
    \/ Crash

Spec == Init /\ [][Next]_vars
-----------------------------------------------------------------------------
(* Properties. *)

\* Type correctness of the table and of the boot's cursors.
TypeOK ==
    /\ DOMAIN events = Sessions
    /\ \A s \in Sessions : Seqs(s) \subseteq 1..MaxRows /\ \A q \in Seqs(s) : events[s][q] \in Rows
    /\ hasColumn \in BOOLEAN /\ upgraded \in BOOLEAN
    /\ phase \in {"down", "backfilling", "converting", "up"}
    /\ todo \subseteq Sessions \X (1..MaxRows)
    /\ unconverted \subseteq Sessions
    /\ current \in Sessions \cup {None}
    /\ left \in Seq(Contents)
    /\ crashes \in 0..MaxCrashes
    /\ parent \in [Sessions -> [from : Sessions \cup {None}, copied : 0..MaxRows]]

\* Sequence numbers are 1..n in every session, whatever was forked, purged or cut short:
\* a client pages the log and names fork points by them.
Gapless == \A s \in Sessions : Seqs(s) = 1..Cardinality(Seqs(s))

\* A digest that is present is the digest of the row before: a chain this program alone wrote
\* can lack digests but never contradict itself, so a mismatch always means an edit.
DigestsTrue ==
    \A s \in Sessions : \A q \in Seqs(s) : events[s][q].prev # NoDigest => RowVerifies(events[s], q)

\* `log verify` finds no fault in a session that is no fork, unless a backfill was cut short.
ChainIntact ==
    phase \in {"converting", "up"} /\ upgraded =>
        \A s \in Sessions : parent[s].copied = 0 => Verify(events[s]) # "broken"

\* The log is append-only: a row keeps its number and content until the session is purged,
\* and a digest, once there, stays.
KeepsRows(s) ==
    \A q \in Seqs(s) :
        /\ q \in DOMAIN events'[s]
        /\ events'[s][q].kind = events[s][q].kind
        /\ events'[s][q].payload = events[s][q].payload
        /\ events[s][q].prev # NoDigest => events'[s][q].prev = events[s][q].prev

AppendOnly == [][\A s \in Sessions : KeepsRows(s) \/ DOMAIN events'[s] = {}]_vars

\* A fork stays a copy of the front of its source, message for message, while both live on.
ForkIsPrefix ==
    \A s \in Sessions : parent[s].from # None =>
        \A q \in 1..parent[s].copied :
            /\ q \in Seqs(s) /\ q \in Seqs(parent[s].from)
            /\ events[s][q].kind = events[parent[s].from][q].kind
            /\ events[s][q].payload = events[parent[s].from][q].payload

\* Boots repeated over crashes convert a transcript at most once: its rows stand in order at
\* the front of the log, and none of them occurs again further on.
ConvertedOnce ==
    \A s \in HasTranscript : \E n \in 0..Len(OldTranscripts[s]) :
        /\ 1..n \subseteq Seqs(s)
        /\ \A q \in Seqs(s) :
             LET content == [kind |-> events[s][q].kind, payload |-> events[s][q].payload]
             IN  IF q <= n THEN content = OldTranscripts[s][q]
                 ELSE \A i \in 1..Len(OldTranscripts[s]) : content # OldTranscripts[s][i]

\* What a turn replays starts at the start of a turn, holds as many turns as asked for or all
\* there are, and is what the in-memory rule keeps whenever the log itself starts with a turn.
ReplayWholeTurns ==
    \A s \in Sessions, turns \in 1..MaxRows :
        LET log    == events[s]
            replay == RecentTurns(log, turns)
            starts == TurnStarts(log)
        IN  /\ Cardinality(TurnStarts(replay)) =
                 IF Cardinality(starts) <= turns THEN Cardinality(starts) ELSE turns
            /\ starts # {} => Min(DOMAIN replay) \in starts
            /\ 1 \in starts => replay = LastTurns(log, turns)

-----------------------------------------------------------------------------
(* What the repository says and the code does not do. *)

\* ChainStatus::Broken: "The event was edited, reordered, or a row was deleted" (event_log.rs:322).
\* No action here does any of that, so no session should verify as broken.
OnlyEditsBreakAChain ==
    phase = "up" /\ upgraded => \A s \in Sessions : Verify(events[s]) # "broken"

\* open_store: sessions whose conversion failed "will not be listed until it succeeds"
\* (agent/src/lib.rs:182): a session listed by event_sessions has all of its transcript.
ListedMeansConverted ==
    phase = "up" => \A s \in HasTranscript :
        Seqs(s) # {} => \A i \in 1..Len(OldTranscripts[s]) : i \in Seqs(s)
===============================================================================
