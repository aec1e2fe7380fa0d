------------------------------- MODULE Search -------------------------------
(* A search of the workspace by an agent's tool: the walk that both use     *)
(* (guest-fs) with its bounds, the paths that find returns (tool-find), and *)
(* the matching lines of grep (tool-fs), while the tree may change.  What   *)
(* the bounds left out is to be said, or a part reads as the whole.         *)
EXTENDS Integers, Sequences, FiniteSets, SequencesExt

CONSTANTS
    Names,                   \* in the order directories are listed in
    Trees,                   \* what the workspace may hold: its paths, and what each is
    Patterns,                \* globs, by their segments; one of a single segment has no "/"
    Pruned, Credentials,     \* names
    MaxVisits, MaxDepth, MaxResults, MaxMatches, OutputCap,    \* the tools' bounds
    MaxSearches, MaxChanges  \* bounds of the model

VARIABLES tree, search, searches, changes

vars == <<tree, search, searches, changes>>

-----------------------------------------------------------------------------
\* A path is its names from the workspace's root.  It is a directory, readable or not, or
\* a file with so many lines that match; one that is no text, or has gone, has none to read.
Dir == [is |-> "dir"]
Closed == [is |-> "closed"]
File(n) == [is |-> "file", lines |-> n]
Binary == [is |-> "binary"]

Paths == UNION {DOMAIN t : t \in Trees}
Lists(t, dir) == dir = <<>> \/ (dir \in DOMAIN t /\ t[dir] = Dir)
IsDir(t, path) == t[path].is \in {"dir", "closed"}
Entries(t, dir) == SelectSeq(Names, LAMBDA n : Append(dir, n) \in DOMAIN t)

\* A glob without "/" is for any depth.  "**" stands for any segments, "*" for any one name.
Normal(pattern) == IF Len(pattern) = 1 THEN <<"**">> \o pattern ELSE pattern
MatchName(pattern, name) == pattern = "*" \/ pattern = name
RECURSIVE MatchSegments(_, _)
MatchSegments(pattern, path) ==
    CASE pattern = <<>> -> path = <<>>
      [] pattern # <<>> /\ Head(pattern) = "**" ->
           \E k \in 0..Len(path) : MatchSegments(Tail(pattern), SubSeq(path, k + 1, Len(path)))
      [] OTHER -> /\ path # <<>> /\ MatchName(Head(pattern), Head(path))
                  /\ MatchSegments(Tail(pattern), Tail(path))

\* Build trees are left out, and files that hold credentials, unless the pattern names them.
Named(name, pattern) == \E k \in DOMAIN pattern : pattern[k] = name
Descends(name, pattern) == name \notin Pruned \/ Named(name, pattern)
Hidden(name, pattern) == name \in Credentials /\ ~Named(name, pattern)

-----------------------------------------------------------------------------
\* A walk that has seen as much as it may is over.
\* Mutant: it does not say that there was more.
StopsUnsaid(s, bound) == [s EXCEPT !.stopped = TRUE]
Stops(s, bound) == [s EXCEPT !.stopped = TRUE, !.bound = {bound}]

\* One entry of a directory, which counts as a visit whatever it is.
Visit(t, before, dir, name) ==
    LET path == Append(dir, name)
        s    == [before EXCEPT !.visits = @ + 1]
        here == s.root \o path
        deep == Len(path) >= MaxDepth
        hit  == MatchSegments(s.pattern, path) /\ ~Hidden(name, s.pattern)
    IN  CASE before.stopped -> before
          [] ~before.stopped /\ s.visits > MaxVisits -> Stops(s, "visits")
          [] OTHER ->
               IF IsDir(t, here)
               THEN IF deep \/ ~Descends(name, s.pattern) THEN s ELSE [s EXCEPT !.queue = Append(@, path)]
               ELSE IF ~hit THEN s
               ELSE IF Cardinality(s.paths) = MaxResults THEN Stops(s, "results")
               ELSE [s EXCEPT !.paths = @ \cup {here}]

\* What is shown of more than fits is its beginning, with a note of the rest; where nothing
\* was found that is all that is said, whatever the bounds.
Fits(all) == {some \in SUBSET all :
                Cardinality(some) = IF Cardinality(all) < OutputCap THEN Cardinality(all) ELSE OutputCap}
\* Mutant: only grep's own bound is noted.
NotesOfMatches(bound, all, some) ==
    IF all = {} THEN {} ELSE (bound \cap {"matches"}) \cup (IF some = all THEN {} ELSE {"output"})
Notes(bound, all, some) ==
    IF all = {} THEN {} ELSE bound \cup (IF some = all THEN {} ELSE {"output"})

NoSearch == [pc |-> "idle"]

Init == tree \in Trees /\ search = NoSearch /\ searches = 0 /\ changes = 0

\* The root must list; grep takes one that does not for a file.
Begin(tool, root, pattern) ==
    /\ search.pc = "idle" /\ searches < MaxSearches /\ searches' = searches + 1
    /\ Lists(tree, root)
    /\ search' = [pc |-> "walk", tool |-> tool, root |-> root, pattern |-> Normal(pattern),
                  queue |-> <<<<>>>>, visits |-> 0, paths |-> {}, bound |-> {}, stopped |-> FALSE,
                  hits |-> {}, steady |-> TRUE]
    /\ UNCHANGED <<tree, changes>>

BeginAtFile(path) ==
    /\ search.pc = "idle" /\ searches < MaxSearches /\ searches' = searches + 1
    /\ path \in DOMAIN tree /\ tree[path].is = "file"
    /\ LET all == {path} \X (1..tree[path].lines)
       IN  \E some \in Fits(all) :
             search' = [pc |-> "done", tool |-> "grep", root |-> path, pattern |-> <<>>, bound |-> {},
                        hits |-> some, notes |-> Notes({}, all, some), steady |-> TRUE]
    /\ UNCHANGED <<tree, changes>>

\* The last directory that was found; one that does not list is passed over.
Walk ==
    /\ search.pc = "walk" /\ ~search.stopped /\ search.queue # <<>>
    /\ LET dir  == Last(search.queue)
           rest == [search EXCEPT !.queue = Front(@)]
       IN  search' = IF Lists(tree, search.root \o dir)
                     THEN FoldLeft(LAMBDA s, name : Visit(tree, s, dir, name), rest,
                                   Entries(tree, search.root \o dir))
                     ELSE rest
    /\ UNCHANGED <<tree, searches, changes>>
Walked == search.pc = "walk" /\ (search.stopped \/ search.queue = <<>>)

\* grep reads the files one by one, up to so many lines.  (They are sorted; every order
\* is allowed here.)
Grep(path) ==
    /\ Walked /\ search.tool = "grep" /\ path \in search.paths
    /\ "matches" \notin search.bound
    /\ LET there == IF path \in DOMAIN tree /\ tree[path].is = "file" THEN tree[path].lines ELSE 0
           room  == MaxMatches - Cardinality(search.hits)
       IN  search' = [search EXCEPT !.paths = @ \ {path},
                                    !.hits = @ \cup {path} \X (1..(IF there < room THEN there ELSE room)),
                                    !.bound = @ \cup (IF there > room THEN {"matches"} ELSE {})]
    /\ UNCHANGED <<tree, searches, changes>>

Return ==
    /\ Walked
    /\ search.tool = "grep" => search.paths = {} \/ "matches" \in search.bound
    /\ LET all == IF search.tool = "grep" THEN search.hits ELSE search.paths
       IN  \E some \in Fits(all) :
             search' = [pc |-> "done", tool |-> search.tool, root |-> search.root,
                        pattern |-> search.pattern, bound |-> search.bound, hits |-> some,
                        notes |-> Notes(search.bound, all, some), steady |-> search.steady]
    /\ UNCHANGED <<tree, searches, changes>>

Answered ==
    /\ search.pc = "done" /\ search' = NoSearch
    /\ UNCHANGED <<tree, searches, changes>>

\* Files come and go while a search runs.
Changes(t) ==
    /\ changes < MaxChanges /\ changes' = changes + 1 /\ t # tree /\ tree' = t
    /\ search' = IF search.pc = "idle" THEN search ELSE [search EXCEPT !.steady = FALSE]
    /\ UNCHANGED searches

Next ==
    \/ \E pattern \in Patterns, root \in {<<>>} \cup Paths :
         Begin("find", root, pattern) \/ Begin("grep", root, pattern)
    \/ \E path \in Paths : BeginAtFile(path) \/ Grep(path)
    \/ Walk \/ Return \/ Answered
    \/ \E t \in Trees : Changes(t)

Spec == Init /\ [][Next]_vars

-----------------------------------------------------------------------------
SearchTypes ==
    /\ tree \in Trees /\ search.pc \in {"idle", "walk", "done"}
    /\ search.pc = "walk" =>
         /\ search.visits \in 0..(MaxVisits + 1) /\ Cardinality(search.paths) <= MaxResults
         /\ Cardinality(search.hits) <= MaxMatches
    /\ search.pc = "done" => search.notes \subseteq {"visits", "results", "matches", "output"}
    /\ searches \in 0..MaxSearches /\ changes \in 0..MaxChanges

\* The files below a root that a pattern asks for, by what it means and not by how they
\* are found: every directory on the way lists, and none is a build tree.
Below(root, path) == SubSeq(path, Len(root) + 1, Len(path))
Wanted(root, pattern) ==
    {path \in DOMAIN tree :
       LET rel == Below(root, path) IN
       /\ IsStrictPrefix(root, path) /\ ~IsDir(tree, path)
       /\ MatchSegments(pattern, rel) /\ ~Hidden(Last(path), pattern)
       /\ \A k \in 1..(Len(rel) - 1) :
            Lists(tree, root \o SubSeq(rel, 1, k)) /\ Descends(rel[k], pattern)}
WantedLines(root, pattern) ==
    UNION {{path} \X (1..tree[path].lines) : path \in {p \in Wanted(root, pattern) : tree[p].is = "file"}}

\* What the search that is done was to find, paths or lines.
AskedFor ==
    IF search.pattern = <<>> THEN {search.root} \X (1..tree[search.root].lines)
    ELSE IF search.tool = "grep" THEN WantedLines(search.root, search.pattern)
    ELSE Wanted(search.root, search.pattern)
Shows == search.pc = "done" /\ search.steady /\ search.hits # {}

\* No walk goes as deep as these, and none says so.
TooDeep(found) ==
    LET path == IF search.tool = "grep" THEN found[1] ELSE found
    IN  Len(Below(search.root, path)) > MaxDepth

\* PartialIsSaid: in a tree that stands still, what a search shows is nothing but what
\* was asked for, and it leaves nothing out without saying which bound cut it short -
\* but for what is deeper than a walk goes, which it never mentions, and if it shows
\* anything: "no files match" is said of a walk that was cut short as well
\* (guest-fs walk, tool-find and tool-fs render).
PartialIsSaid ==
    /\ Shows => search.hits \subseteq AskedFor
    /\ Shows /\ search.notes = {} => \A left \in AskedFor \ search.hits : TooDeep(left)

\* DepthIsSaid: a search that shows something and names no bound shows everything that
\* was asked for: "a partial tree never reads as exhaustive" (tool-find lib.rs:3).  The
\* walk passes over directories at its depth bound and leaves bounded_by as it is.
DepthIsSaid == Shows /\ search.notes = {} => search.hits = AskedFor

\* NothingIsSaidOfAll: that nothing matches is said only if nothing does.  The code says
\* it as well when the walk stopped at its visits or a file's lines were never looked at.
NothingIsSaidOfAll ==
    search.pc = "done" /\ search.steady /\ search.pattern # <<>> /\ search.hits = {} =>
        IF search.tool = "grep" THEN WantedLines(search.root, search.pattern) = {}
        ELSE Wanted(search.root, search.pattern) = {}
=============================================================================
