-------------------------------- MODULE Telegram --------------------------------
(***************************************************************************)
(* The Telegram bot: one thread that fetches updates and runs a turn for   *)
(* each, and while a turn's question waits fetches more of them.  Modelled *)
(* from pkgs/host/host/src/telegram.rs and the loop in main.rs.            *)
(*                                                                         *)
(* Telegram itself is external: it keeps the updates of a bot in order,    *)
(* hands out the first ones from an offset on, at most Limit at a time,    *)
(* and forgets those before the offset it is asked for.  What the turn     *)
(* does is Turn's; here it asks and ends as it likes.                      *)
(***************************************************************************)
EXTENDS Integers, Sequences, SequencesExt

CONSTANTS
    Sorts,          \* the updates that may be sent: a chat, and the kind
    Limit,          \* Telegram's: updates in one answer
    AnswerPolls,    \* MAX_ANSWER_POLLS
    MaxErrors,      \* MAX_CONSECUTIVE_ERRORS
    MaxUpdates,     \* bound: updates sent to the bot
    MaxAsks,        \* bound: questions of a turn
    MaxFailures,    \* bound: requests to Telegram that fail
    MaxKills        \* bound: times the bot is killed, and started again

VARIABLES
    updates,        \* every update sent: its number is its place
    confirmed,      \* Telegram has forgotten the updates up to this one
    offset,         \* of the loop in main.rs
    cursor,         \* the offset of this cycle, moved by every fetch
    queue,          \* updates of this cycle still to be run
    deferred,       \* updates a waiting turn fetched that are no answer to it
    pc,             \* poll | next | turn | wait | stopped
    current,        \* the update whose turn runs
    polls,          \* fetches a waiting turn has left
    asks,           \* questions the turn has put
    errors,         \* consecutive_errors
    failures, kills, cuts,   \* history: cuts are the kills, and the cycles cut short
    turns,          \* history: update -> how many turns were begun with it
    replies,        \* history: update -> how often it was taken for an answer
    refused,        \* history: updates of senders that are not listed
    waited          \* history: updates confirmed by a fetch of a waiting turn

telegram == <<updates, confirmed>>
loop == <<offset, errors>>
turn == <<current, polls, asks>>
faults == <<failures, kills, cuts>>
uses == <<turns, replies, refused>>
vars == <<telegram, loop, cursor, queue, deferred, pc, turn, faults, uses, waited>>

Ids == 1..MaxUpdates

\* A text message, one of a sender that is not listed, or no text message at all.
Kinds == {"text", "unlisted", "other"}

TypeOK ==
    /\ updates \in Seq(Sorts) /\ \A u \in DOMAIN updates : updates[u].kind \in Kinds
    /\ confirmed \in 0..Len(updates) /\ offset \in 1..Len(updates) + 1
    /\ cursor \in offset..Len(updates) + 1
    /\ ToSet(queue) \cup ToSet(deferred) \subseteq 1..Len(updates)
    /\ current \in 0..Len(updates) /\ polls \in 0..AnswerPolls /\ errors \in 0..MaxErrors
    /\ (current # 0) <=> (pc \in {"turn", "wait"})
    /\ (queue = <<>> /\ deferred = <<>>) \/ pc \in {"next", "turn", "wait"}
    /\ deferred # <<>> => pc \in {"turn", "wait"}

\* main.rs begins with offset 0, which asks for every update: 1 does the same.
Init ==
    /\ updates = <<>> /\ confirmed = 0
    /\ offset = 1 /\ cursor = 1 /\ queue = <<>> /\ deferred = <<>>
    /\ pc = "poll" /\ current = 0 /\ polls = 0 /\ asks = 0
    /\ errors = 0 /\ failures = 0 /\ kills = 0 /\ cuts = 0
    /\ turns = [u \in Ids |-> 0] /\ replies = [u \in Ids |-> 0]
    /\ refused = {} /\ waited = {}

---------------------------------------------------------------------------
(* Telegram.                                                               *)

Send(sort) ==
    /\ Len(updates) < MaxUpdates
    /\ updates' = Append(updates, sort)
    /\ UNCHANGED <<confirmed, loop, cursor, queue, deferred, pc, turn, faults, uses, waited>>

\* What is forgotten once a request names this offset.
ConfirmedBy(from) == Max({confirmed, from - 1})

\* The answer to getUpdates: the first updates from there on.
Fetched(from) ==
    LET first == ConfirmedBy(from) + 1
    IN first..Min({Len(updates), first + Limit - 1})

\* parse_updates: the answer's messages, in its order, which is that of their numbers;
\* what is no text message is skipped.
Texts(ids) ==
    LET messages == {u \in ids : updates[u].kind # "other"}
    IN CHOOSE texts \in BoundedSeq(messages, Limit) :
          /\ ToSet(texts) = messages
          /\ \A i, j \in DOMAIN texts : i < j => texts[i] < texts[j]

\* next_offset, of the messages alone.
NextOffset(ids, otherwise) == IF Texts(ids) = <<>> THEN otherwise ELSE Last(Texts(ids)) + 1

---------------------------------------------------------------------------
(* poll_once and the loop around it.                                       *)

\* Mutant: the offset moves on with the fetch, before the updates are handled.
PollAdvancing ==
    /\ pc = "poll"
    /\ confirmed' = ConfirmedBy(offset)
    /\ queue' = Texts(Fetched(offset)) /\ cursor' = NextOffset(Fetched(offset), offset)
    /\ offset' = cursor' /\ pc' = "next"
    /\ UNCHANGED <<updates, errors, deferred, turn, faults, uses, waited>>

\* getUpdates, answered.
Poll ==
    /\ pc = "poll"
    /\ confirmed' = ConfirmedBy(offset)
    /\ queue' = Texts(Fetched(offset)) /\ cursor' = NextOffset(Fetched(offset), offset)
    /\ pc' = "next"
    /\ UNCHANGED <<updates, loop, deferred, turn, faults, uses, waited>>

\* The cycle ends with an error: the offset is as before, and what was fetched is
\* gone.  The loop sleeps and goes on, or gives up.
CycleFails ==
    /\ failures < MaxFailures /\ failures' = failures + 1
    /\ errors' = errors + 1 /\ pc' = IF errors' >= MaxErrors THEN "stopped" ELSE "poll"
    /\ queue' = <<>> /\ deferred' = <<>> /\ cursor' = offset
    /\ current' = 0 /\ polls' = 0 /\ asks' = 0
    /\ UNCHANGED <<updates, offset, kills, uses>>

\* A request that fails may have been heard.
PollFails ==
    /\ pc = "poll" /\ CycleFails
    /\ confirmed' \in {confirmed, ConfirmedBy(offset)}
    /\ UNCHANGED <<cuts, waited>>

\* The next update: a sender that is not listed is refused.
Refuse ==
    /\ pc = "next" /\ queue # <<>> /\ updates[Head(queue)].kind = "unlisted"
    /\ queue' = Tail(queue) /\ refused' = refused \cup {Head(queue)}
    /\ UNCHANGED <<telegram, loop, cursor, deferred, pc, turn, faults, turns, replies, waited>>

BeginTurn ==
    /\ pc = "next" /\ queue # <<>> /\ updates[Head(queue)].kind # "unlisted"
    /\ current' = Head(queue) /\ queue' = Tail(queue) /\ pc' = "turn"
    /\ asks' = 0 /\ turns' = [turns EXCEPT ![Head(queue)] = @ + 1]
    /\ UNCHANGED <<telegram, loop, cursor, deferred, polls, faults, replies, refused, waited>>

\* Mutant: what came in while the turn waited is not run.
ReplyForgetting ==
    /\ pc = "turn"
    /\ queue' = queue /\ deferred' = <<>>
    /\ pc' = "next" /\ current' = 0 /\ polls' = 0 /\ asks' = 0
    /\ UNCHANGED <<telegram, loop, cursor, faults, uses, waited>>

\* The turn ended and its answer was sent; what came in meanwhile is run next.
Reply ==
    /\ pc = "turn"
    /\ queue' = queue \o deferred /\ deferred' = <<>>
    /\ pc' = "next" /\ current' = 0 /\ polls' = 0 /\ asks' = 0
    /\ UNCHANGED <<telegram, loop, cursor, faults, uses, waited>>

ReplyFails ==
    /\ pc = "turn" /\ CycleFails /\ cuts' = cuts + 1
    /\ UNCHANGED <<confirmed, waited>>

\* Mutant: the cycle's own fetch alone moves the offset.
CycleEndsBehind ==
    /\ pc = "next" /\ queue = <<>>
    /\ offset' = Min({cursor, offset + 1}) /\ errors' = 0 /\ pc' = "poll"
    /\ UNCHANGED <<telegram, cursor, queue, deferred, turn, faults, uses, waited>>

\* The queue is empty: the cycle's cursor is the next offset.
CycleEnds ==
    /\ pc = "next" /\ queue = <<>>
    /\ offset' = cursor /\ errors' = 0 /\ pc' = "poll"
    /\ UNCHANGED <<telegram, cursor, queue, deferred, turn, faults, uses, waited>>

---------------------------------------------------------------------------
(* ChatDriver: a turn asks in its chat.                                    *)

\* The question is sent, or cannot be and has its default answer.
Ask ==
    /\ pc = "turn" /\ asks < MaxAsks /\ asks' = asks + 1
    /\ \/ pc' = "wait" /\ polls' = AnswerPolls /\ UNCHANGED failures
       \/ failures < MaxFailures /\ failures' = failures + 1 /\ UNCHANGED <<pc, polls>>
    /\ UNCHANGED <<telegram, loop, cursor, queue, deferred, current, kills, cuts, uses, waited>>

\* The first message of the chat the turn waits in, 0 if there is none.
OfChat(texts) == SelectInSeq(texts, LAMBDA u : updates[u].chat = updates[current].chat)

\* wait_for_reply, one fetch: the first message of the chat is the answer, whoever
\* sent it and whenever; the others are kept for later.
WaitPoll ==
    /\ pc = "wait"
    /\ confirmed' = ConfirmedBy(cursor) /\ waited' = waited \cup (confirmed + 1..confirmed')
    /\ LET fetched == Texts(Fetched(cursor))
           mine    == OfChat(fetched)
       IN /\ cursor' = NextOffset(Fetched(cursor), cursor)
          /\ deferred' = deferred \o IF mine = 0 THEN fetched ELSE RemoveAt(fetched, mine)
          /\ replies' = IF mine = 0 THEN replies ELSE [replies EXCEPT ![fetched[mine]] = @ + 1]
          /\ polls' = polls - 1
          /\ pc' = IF mine # 0 \/ polls' = 0 THEN "turn" ELSE "wait"
    /\ UNCHANGED <<updates, loop, queue, current, asks, faults, turns, refused>>

\* A fetch that fails ends the wait: the default answer.
WaitFails ==
    /\ pc = "wait" /\ failures < MaxFailures /\ failures' = failures + 1
    /\ confirmed' \in {confirmed, ConfirmedBy(cursor)}
    /\ waited' = waited \cup (confirmed + 1..confirmed')
    /\ pc' = "turn"
    /\ UNCHANGED <<updates, loop, cursor, queue, deferred, turn, kills, cuts, uses>>

\* The bot is killed and started again, or had given up and is: what the last cycle
\* handled may be unconfirmed yet.
Restart ==
    /\ kills < MaxKills /\ kills' = kills + 1
    /\ cuts' = cuts + 1
    /\ offset' = 1 /\ cursor' = 1 /\ errors' = 0 /\ pc' = "poll"
    /\ queue' = <<>> /\ deferred' = <<>> /\ current' = 0 /\ polls' = 0 /\ asks' = 0
    /\ UNCHANGED <<telegram, failures, uses, waited>>

Bot == Poll \/ Refuse \/ BeginTurn \/ Reply \/ CycleEnds \/ WaitPoll

Next ==
    \/ \E s \in Sorts : Send(s)
    \/ Bot \/ Ask
    \/ PollFails \/ ReplyFails \/ WaitFails \/ Restart

Spec == Init /\ [][Next]_vars

\* The bot's one thread runs on: a fetch returns after its long poll, and a turn
\* ends, with its questions' waits.  Nobody has to write, nothing has to fail.
FairSpec == Spec /\ WF_vars(Bot)

---------------------------------------------------------------------------

Message(u) == updates[u].kind # "other"
Used(u) == turns[u] > 0 \/ replies[u] > 0 \/ u \in refused

\* Dropped by a cycle cut short, after a waiting turn's fetch had confirmed it.
MayBeLost(u) == u \in waited /\ cuts > 0

\* Telegram is never told to forget a message that was neither run, nor taken for
\* an answer, nor refused, and is not in memory - whatever fails and whenever the
\* bot is killed - unless a turn's question fetched on behind it.
ConfirmedIsHandled ==
    \A u \in 1..confirmed :
        Message(u) => Used(u) \/ u \in ToSet(queue) \cup ToSet(deferred) \/ MayBeLost(u)

\* A message is run once, or taken for one answer, and not both; each kill
\* or cycle cut short may bring it back once.
OnceEach == \A u \in Ids : turns[u] + replies[u] <= 1 + cuts

\* A turn begins with a message only when the earlier ones of its chat were used:
\* what a question's fetches deferred does not overtake the batch, or the other way.
InOrder ==
    [][\A u \in Ids : turns'[u] > turns[u] =>
        \A v \in 1..u-1 : Message(v) /\ updates[v].chat = updates[u].chat =>
            Used(v) \/ MayBeLost(v)]_vars

\* An answer full of updates that are no text messages leaves the offset where it
\* is, and is fetched again and again.
Blocked == Cardinality(Fetched(offset)) = Limit /\ Texts(Fetched(offset)) = <<>>

\* Every message is run, taken for an answer or refused, unless it was lost with a
\* cycle, the bot gave up, or updates of other kinds fill a whole answer.
EveryMessageUsed ==
    \A u \in Ids : (u <= Len(updates) /\ Message(u)) ~>
        (Used(u) \/ MayBeLost(u) \/ pc = "stopped" \/ Blocked)
=============================================================================
