------------------------------- MODULE Edits -------------------------------
(* One file of the workspace, as agents edit it: a view gives each line an  *)
(* anchor, a hash of its number and text; an edit names lines by anchors,   *)
(* is checked against the file as it is read then, and writes all of it     *)
(* back (tool-edit).  Others write the file at any time: another session's  *)
(* edit, a write of the file tool, the user's own editor.                   *)
EXTENDS Integers, Sequences, FiniteSets, SequencesExt

CONSTANTS
    Editors,     \* the sessions whose model edits the file
    Blank,       \* the text of an empty line
    Hash,        \* of a line's number and text: 32 bits, so two lines may share one
    Firsts,      \* what the file may hold at first, and what others may write
    Blocks,      \* what a call may put in
    MaxLines, MaxEdits, MaxOthers,     \* bounds of the model
    ViewCap      \* lines of a view that fit into a tool's output

NoEnd == <<>>

VARIABLES
    file,        \* its lines, and whether the last one ends with a newline
    view,        \* the lines an editor was last shown
    edit,        \* its call: what it read, what it asked for, whether others wrote since
    others,      \* how often others wrote
    edits

vars == <<file, view, edit, others, edits>>

-----------------------------------------------------------------------------
\* Lines as they are written and read back: no lines are one that is blank, and a
\* blank one at the end of a file without a newline is the newline of the one before.
Content(lines, nl) ==
    CASE lines = <<>> -> [lines |-> <<Blank>>, nl |-> nl]
      [] ~nl /\ Len(lines) > 1 /\ Last(lines) = Blank -> [lines |-> Front(lines), nl |-> TRUE]
      [] OTHER -> [lines |-> lines, nl |-> nl]
Empty == Content(<<>>, FALSE)

\* Mutant: the text alone is hashed.
AnchorOfText(number, text) == Hash[<<1, text>>]
Anchor(number, text) == Hash[<<number, text>>]

\* An anchor is found if it is that of one line and no other.
Hits(lines, anchor) == {k \in DOMAIN lines : Anchor(k, lines[k]) = anchor}
Found(lines, anchor) == Cardinality(Hits(lines, anchor)) = 1
At(lines, anchor) == CHOOSE k \in Hits(lines, anchor) : TRUE

Shown(c) == SubSeq(c.lines, 1, IF Len(c.lines) < ViewCap THEN Len(c.lines) ELSE ViewCap)
AnchorsOf(lines) == {Anchor(k, lines[k]) : k \in DOMAIN lines}

\* A call: the span from start to end (start itself, if no end is given) is replaced, or
\* a block that is not empty is put before or after a line.
Asked(e) ==
    LET known == AnchorsOf(view[e]) IN
    [op : {"replace"}, start : known, end : known \cup {NoEnd}, block : Blocks]
      \cup [op : {"before", "after"}, start : known, end : {NoEnd}, block : Blocks \ {<<>>}]
EndOf(asked) == IF asked.end = NoEnd THEN asked.start ELSE asked.end

\* It is rejected if an anchor is not found, or if they are the wrong way round.
Rejected(lines, asked) ==
    \/ ~Found(lines, asked.start) \/ ~Found(lines, EndOf(asked))
    \/ \E first \in Hits(lines, asked.start), last \in Hits(lines, EndOf(asked)) : last < first

\* The first line that goes, and the first after it that stays.
Span(lines, asked) ==
    LET first == At(lines, asked.start)
        from  == IF asked.op = "after" THEN first + 1 ELSE first
    IN  <<from, IF asked.op = "replace" THEN At(lines, EndOf(asked)) + 1 ELSE from>>
Spliced(c, asked) ==
    LET span == Span(c.lines, asked)
    IN  Content(SubSeq(c.lines, 1, span[1] - 1) \o asked.block
                  \o SubSeq(c.lines, span[2], Len(c.lines)), c.nl)

-----------------------------------------------------------------------------
NoEdit == [pc |-> "idle"]

Init ==
    /\ file \in Firsts
    /\ view = [e \in Editors |-> <<>>] /\ edit = [e \in Editors |-> NoEdit]
    /\ others = 0 /\ edits = 0

View(e) ==
    /\ edit[e].pc = "idle" /\ view' = [view EXCEPT ![e] = Shown(file)]
    /\ UNCHANGED <<file, edit, others, edits>>

\* The guest reads the file and has the host write all of it, or nothing.
Read(e) ==
    /\ edit[e].pc = "idle" /\ edits < MaxEdits /\ edits' = edits + 1
    /\ \E asked \in Asked(e) :
         edit' = [edit EXCEPT ![e] = [pc |-> "read", read |-> file, asked |-> asked, touched |-> FALSE]]
    /\ UNCHANGED <<file, view, others>>

Reject(e) ==
    /\ edit[e].pc = "read" /\ Rejected(edit[e].read.lines, edit[e].asked)
    /\ edit' = [edit EXCEPT ![e] = NoEdit]
    /\ UNCHANGED <<file, view, others, edits>>

\* Whoever is at work on the file has read what is no longer there.
Touched(calls) == [e \in Editors |-> IF calls[e].pc = "idle" THEN NoEdit
                                     ELSE [calls[e] EXCEPT !.touched = TRUE]]

\* It is cut off when it is opened, and then written.
Open(e) ==
    /\ edit[e].pc = "read" /\ ~Rejected(edit[e].read.lines, edit[e].asked)
    /\ Len(Spliced(edit[e].read, edit[e].asked).lines) <= MaxLines
    /\ file' = Empty
    /\ edit' = [Touched(edit) EXCEPT ![e] = [edit[e] EXCEPT !.pc = "open"]]
    /\ UNCHANGED <<view, others, edits>>

Write(e) ==
    /\ edit[e].pc = "open" /\ file' = Spliced(edit[e].read, edit[e].asked)
    /\ edit' = [Touched(edit) EXCEPT ![e] = NoEdit]
    /\ UNCHANGED <<view, others, edits>>

\* The host is killed before it writes: the call is gone, the file as it is.
Killed(e) ==
    /\ edit[e].pc # "idle" /\ edit' = [edit EXCEPT ![e] = NoEdit]
    /\ UNCHANGED <<file, view, others, edits>>

OtherWrites(c) ==
    /\ others < MaxOthers /\ others' = others + 1
    /\ file' = c /\ edit' = Touched(edit)
    /\ UNCHANGED <<view, edits>>

Next ==
    \/ \E e \in Editors : View(e) \/ Read(e) \/ Reject(e) \/ Open(e) \/ Write(e) \/ Killed(e)
    \/ \E c \in Firsts : OtherWrites(c)

Spec == Init /\ [][Next]_vars

-----------------------------------------------------------------------------
EditTypes ==
    /\ Len(file.lines) \in 1..MaxLines /\ file.nl \in BOOLEAN
    /\ \A e \in Editors : edit[e].pc \in {"idle", "read", "open"} /\ Len(view[e]) <= ViewCap
    /\ others \in 0..MaxOthers /\ edits \in 0..MaxEdits

\* The editor saw a line with this text at this number.
SawIt(e, number, text) == number \in DOMAIN view[e] /\ view[e][number] = text

\* It saw another line, or another text there, of the same hash.
Collides(e, number, text) ==
    \E k \in DOMAIN view[e] :
        <<k, view[e][k]>> # <<number, text>> /\ Hash[<<k, view[e][k]>>] = Hash[<<number, text>>]

\* The lines an editor's call takes for the ends of its span.
Ends(e) == {At(file.lines, edit[e].asked.start), At(file.lines, EndOf(edit[e].asked))}

\* Its edit is about to be written, of a file nobody wrote since it was read.
Applies(e) == edit[e].pc = "read" /\ edit'[e].pc = "open" /\ ~edit[e].touched

\* An editor's edit finds the ends of its span as it saw them, or lines that collide with
\* what it saw, and leaves the lines around it as they are - a blank one at the end
\* without a newline is written as the newline.
LandsAsSeen(e) ==
    LET new   == Spliced(edit[e].read, edit[e].asked).lines
        span  == Span(file.lines, edit[e].asked)
        after == SubSeq(file.lines, span[2], Len(file.lines))
    IN  /\ ~Rejected(file.lines, edit[e].asked)
        /\ \A end \in Ends(e) : SawIt(e, end, file.lines[end]) \/ Collides(e, end, file.lines[end])
        /\ \A k \in 1..(span[1] - 1) : k \in DOMAIN new => new[k] = file.lines[k]
        /\ \A k \in DOMAIN after :
             LET there == span[1] - 1 + Len(edit[e].asked.block) + k
             IN  there \in DOMAIN new => new[there] = after[k]

\* EditsLandAsSeen: however the file changed since the view, an edit that is written
\* found both ends of its span on the disk as its editor saw them, number and text,
\* and leaves every line before and after them as it is on the disk - unless another
\* write came between its own read and write, or a line it finds has the hash of another
\* it was shown (tool-edit lib.rs:51-122).
EditsLandAsSeen ==
    [][\A e \in Editors : Applies(e) => LandsAsSeen(e)]_vars

\* CollisionsAreRejected: an edit that is written found the very lines its editor saw: "a
\* collision costs a rejected edit, never a bad write" (tool-edit lib.rs:9).  That is so
\* of two lines of the file that share a hash; a line that was changed, or moved, to one
\* with the hash of the line that was seen is taken for it.
CollisionsAreRejected ==
    [][\A e \in Editors :
         Applies(e) => \A end \in Ends(e) : SawIt(e, end, file.lines[end])]_vars

\* SpansAreSeen: every line that a replacement takes away is one its editor saw: what
\* the tool's own description promises ("an edit against a changed file is rejected
\* instead of applied").  The code looks at the ends alone.
SpansAreSeen ==
    [][\A e \in Editors :
         Applies(e) =>
           LET span == Span(file.lines, edit[e].asked)
           IN  \A k \in span[1]..(span[2] - 1) :
                 SawIt(e, k, file.lines[k]) \/ Collides(e, k, file.lines[k])]_vars
=============================================================================
