---------------------------- MODULE InstallProofs ----------------------------
(***************************************************************************)
(* What holds of ext/ for any number of builds, calls and removals, any    *)
(* checks asked for, and a kill between any two steps.                     *)
(***************************************************************************)
EXTENDS Install, TLAPS

\* The calls that may have landed a file, by the step they are at.
LandedBy == [f \in Files |->
    {"clean-installed", "installed", "crashed"}
        \cup (IF f = "manifest" THEN {"land-second"} ELSE {})]

\* Two calls at once, and a call and a removal at once, are noticed.
Alone == ~shared => \A c, d \in Calls : AtWork(c) /\ AtWork(d) => c = d
Apart == ~crossed => \A c \in Calls, r \in Removes : ~(AtWork(c) /\ Deleting(r))

\* What is landed was landed by a call that is past landing it.
Owned == \A f \in Files :
    /\ landed[f] = None <=> by[f] = None
    /\ by[f] # None => at[by[f]] \in LandedBy[f]

\* What the one call at work has checked of the staged files is true of them.
DigestChecked == ~shared => \A c \in Calls :
    at[c] \in {"copy-manifest", "sign-wasm", "sign-manifest", "structure", "land-first", "land-second"}
        => way[c].sha256 \in {None, staged["wasm"]}
ComponentSigned == ~shared => \A c \in Calls :
    at[c] \in {"sign-manifest", "structure", "land-first", "land-second"} /\ ~way[c].unsigned
        => staged["wasm"] \in Signed
ManifestSigned == ~shared => \A c \in Calls :
    at[c] \in {"structure", "land-first"} /\ ~way[c].unsigned => staged["manifest"] \in Signed
PairChecked == ~shared => \A c \in Calls :
    at[c] = "land-first" => Consistent(staged["wasm"], staged["manifest"])

\* Its manifest has landed before the component does.
ManifestFirst == ~shared /\ ~crossed => \A c \in Calls :
    at[c] = "land-second" =>
        by["manifest"] = c /\ Consistent(staged["wasm"], landed["manifest"])

\* No component lies in ext/ while one is on its way there, nor when a removal
\* has come to the manifest.
Free == ~shared => \A c \in Calls : at[c] \in Landing => landed["wasm"] = None
Hollow == ~crossed => \A r \in Removes : removal[r] = "manifest" => landed["wasm"] = None

IInv ==
    /\ TypeOK /\ Alone /\ Apart /\ Owned
    /\ DigestChecked /\ ComponentSigned /\ ManifestSigned /\ PairChecked
    /\ ManifestFirst /\ Free /\ Hollow
    /\ LandedAsChecked /\ ComponentHasItsManifest

-----------------------------------------------------------------------------
\* The type of every variable, without the conjunct on `dir`.
Types ==
    /\ source \in [Files -> Builds \cup {None}]
    /\ staged \in [Files -> Builds \cup {None}]
    /\ landed \in [Files -> Builds \cup {None}]
    /\ fetched \in [Calls -> [Files -> Builds \cup {None}]]
    /\ by \in [Files -> Calls \cup {None}] /\ at \in [Calls -> Steps] /\ way \in [Calls -> Ways]
    /\ removal \in [Removes -> Files \cup {"idle", "both", "done"}]
    /\ queued \subseteq ToolCalls
    /\ adopting \in Builds \cup {None} /\ loaded \in Builds \cup {None}
    /\ dir \in BOOLEAN /\ shared \in BOOLEAN /\ crossed \in BOOLEAN
    /\ died \in BOOLEAN /\ replaced \in BOOLEAN

DirOwned == dir => shared \/ \E c \in Calls : at[c] \in Working \cup {"crashed"}

LEMMA TypeParts == TypeOK <=> Types /\ DirOwned
  BY DEF TypeOK, Types, DirOwned

-----------------------------------------------------------------------------
(* Types. *)

LEMMA TypesStep ==
    ASSUME Types, [Next]_vars
    PROVE  Types'
<1> USE InstallAssumption
<1> USE DEF Types, Files, Steps, Over, Working, Landing
<1>1. CASE UNCHANGED vars
  BY <1>1 DEF vars
<1>2. CASE SourceReplaced
  BY <1>2 DEF SourceReplaced, staging, ext, gateway, races
<1>3. CASE Adopt
  BY <1>3 DEF Adopt, AdoptRead, AdoptInspect, staging, ext, races
<1>4. ASSUME NEW c \in Calls, Begin(c) \/ Check(c)
      PROVE  Types'
  BY <1>4 DEF Begin, Check, Goes, From, AtWork, Deleting, staging, ext, gateway, races
<1>5. ASSUME NEW c \in Calls, NEW f \in Files, Fetch(c, f)
      PROVE  Types'
  <2>1. fetched' \in [Calls -> [Files -> Builds \cup {None}]]
    <3>1. source[f] \in Builds \cup {None}
      OBVIOUS
    <3>2. [fetched[c] EXCEPT ![f] = source[f]] \in [Files -> Builds \cup {None}]
      BY <3>1
    <3> QED
      BY <1>5, <3>2 DEF Fetch
  <2>2. at' \in [Calls -> Steps]
    BY <1>5 DEF Fetch, Fetching, Goes
  <2> QED
    BY <1>5, <2>1, <2>2 DEF Fetch, staging, ext, gateway, races
<1>6. ASSUME NEW c \in Calls, NEW f \in Files, Copy(c, f)
      PROVE  Types'
  BY <1>6 DEF Copy, Copying, Goes, Refuse, From, ext, gateway, races
<1>7. ASSUME NEW c \in Calls, NEW f \in Files, VerifySignature(c, f)
      PROVE  Types'
  BY <1>7 DEF VerifySignature, Signing, Goes, Refuse, staging, ext, gateway, races
<1>8. ASSUME NEW c \in Calls, Wipe(c) \/ VerifyDigest(c) \/ CheckStructure(c)
      PROVE  Types'
  <2>1. CASE Wipe(c)
    <3>1. NoFiles \in [Files -> Builds \cup {None}]
      BY DEF NoFiles
    <3> QED
      BY <2>1, <3>1 DEF Wipe, Goes, ext, gateway, races
  <2>2. CASE VerifyDigest(c)
    BY <2>2 DEF VerifyDigest, Goes, Refuse, staging, ext, gateway, races
  <2>3. CASE CheckStructure(c)
    BY <2>3 DEF CheckStructure, Goes, Refuse, staging, ext, gateway, races
  <2> QED
    BY <1>8, <2>1, <2>2, <2>3
<1>9. ASSUME NEW c \in Calls, LandFirst(c) \/ LandSecond(c)
      PROVE  Types'
  <2>1. ASSUME NEW f \in Files, Rename(c, f)
        PROVE  staged' \in [Files -> Builds \cup {None}] /\ landed' \in [Files -> Builds \cup {None}]
               /\ by' \in [Files -> Calls \cup {None}]
    BY <2>1 DEF Rename
  <2>2. CASE LandFirst(c)
    <3>1. at' \in [Calls -> Steps]
      BY <2>2 DEF LandFirst, Goes, Refuse
    <3> QED
      BY <2>1, <2>2, <3>1 DEF LandFirst, FirstToLand, ext, gateway, races
  <2>3. CASE LandSecond(c)
    <3>1. at' \in [Calls -> Steps]
      BY <2>3 DEF LandSecond, Goes, Refuse
    <3>2. CASE Rename(c, SecondToLand)
      BY <2>1, <2>3, <3>1, <3>2 DEF LandSecond, SecondToLand, FirstToLand, gateway, races
    <3>3. CASE Delete(TakenBack) /\ UNCHANGED staged
      BY <2>3, <3>1, <3>3 DEF LandSecond, Delete, gateway, races
    <3> QED
      BY <2>3, <3>2, <3>3 DEF LandSecond
  <2> QED
    BY <1>9, <2>2, <2>3
<1>10. ASSUME NEW c \in Calls, Clean(c)
       PROVE  Types'
  BY <1>10 DEF Clean, Queued, Goes, NoFiles, ext, races
<1>11. ASSUME NEW c \in Calls, Crash(c)
       PROVE  Types'
  BY <1>11 DEF Crash, Running, staging, ext, gateway, races
<1>12. ASSUME NEW r \in Removes, Removing(r)
       PROVE  Types'
  <2>1. CASE RemoveBegins(r)
    BY <2>1 DEF RemoveBegins, AtWork, staging, ext, gateway
  <2>2. CASE RemoveComponent(r)
    BY <2>2 DEF RemoveComponent, Delete, staging, gateway, races
  <2>3. CASE RemoveManifest(r) \/ RemoveDies(r)
    BY <2>3 DEF RemoveManifest, RemoveDies, Delete, staging, ext, gateway, races
  <2> QED
    BY <1>12, <2>1, <2>2, <2>3 DEF Removing
<1> QED
  BY <1>1, <1>2, <1>3, <1>4, <1>5, <1>6, <1>7, <1>8, <1>9, <1>10, <1>11, <1>12 DEF Next, Install

-----------------------------------------------------------------------------
(* Who moves: one call, every call of the gateway when it dies, or none. *)

LEMMA CallMoves ==
    ASSUME Types, NEW c \in Calls, Begin(c) \/ Install(c)
    PROVE  /\ \A d \in Calls : d # c => at'[d] = at[d]
           /\ at'[c] \in Working => at[c] \in Working \/ Check(c)
           /\ at[c] \in Working => at'[c] \in Working \cup {"refused", "installed"}
           /\ at[c] \in Working /\ at'[c] \notin Working => ~dir'
           /\ at[c] # "crashed"
           /\ way' = way /\ removal' = removal
           /\ Check(c) \/ (shared' = shared /\ crossed' = crossed)
           /\ dir' => dir \/ at'[c] \in Working
<1> USE DEF Types, Goes, Refuse, Working, Landing, Steps, Over
<1>1. CASE Begin(c) \/ Check(c)
  BY <1>1 DEF Begin, Check, staging, races
<1>2. CASE \E f \in Files : Fetch(c, f) \/ Copy(c, f) \/ VerifySignature(c, f)
  BY <1>2 DEF Fetch, Fetching, Copy, Copying, VerifySignature, Signing, Files, staging, races
<1>3. CASE Wipe(c) \/ VerifyDigest(c) \/ CheckStructure(c)
  BY <1>3 DEF Wipe, VerifyDigest, CheckStructure, staging, races
<1>4. CASE LandFirst(c) \/ LandSecond(c)
  BY <1>4 DEF LandFirst, LandSecond, races
<1>5. CASE Clean(c)
  BY <1>5 DEF Clean, races
<1> QED
  BY <1>1, <1>2, <1>3, <1>4, <1>5 DEF Install

\* A call that enters the staging directory while another call, or a removal,
\* is at work says so.
LEMMA Entering ==
    ASSUME Types, NEW c \in Calls, Check(c), at'[c] \in Working
    PROVE  /\ ~shared' => ~shared /\ \A d \in Calls : at[d] \in Working => d = c
           /\ ~crossed' => ~crossed /\ \A r \in Removes : ~Deleting(r)
           /\ at'[c] = "wipe" /\ landed["wasm"] = None
<1>1. at' = [at EXCEPT ![c] = "refused"] \/ at' = [at EXCEPT ![c] = "wipe"]
  BY DEF Check, Goes
<1>2. at' = [at EXCEPT ![c] = "wipe"] /\ at'[c] = "wipe"
  BY <1>1 DEF Types, Working, Landing
<1>3. /\ shared' = (shared \/ \E d \in Calls \ {c} : AtWork(d))
      /\ crossed' = (crossed \/ \E r \in Removes : Deleting(r))
      /\ landed["wasm"] = None
  <2>1. ~Goes(c, "refused")
    BY <1>2 DEF Goes, Types
  <2> QED
    BY <2>1 DEF Check
<1> QED
  BY <1>2, <1>3 DEF AtWork

LEMMA Refused ==
    ASSUME Types, NEW c \in Calls, Check(c), at'[c] \notin Working
    PROVE  UNCHANGED <<shared, crossed>>
<1>1. at' # [at EXCEPT ![c] = "wipe"]
  BY DEF Types, Working, Landing
<1> QED
  BY <1>1 DEF Check, Goes, races

LEMMA CrashMoves ==
    ASSUME Types, NEW c \in Calls, Crash(c)
    PROVE  /\ \A d \in Calls : at'[d] \in {at[d], "crashed"}
           /\ UNCHANGED <<staged, dir, landed, by, way, removal, shared, crossed>>
  BY DEF Types, Crash, staging, ext, races

LEMMA OthersMove ==
    ASSUME UNCHANGED vars \/ SourceReplaced \/ Adopt \/ \E r \in Removes : Removing(r)
    PROVE  UNCHANGED <<at, way, staged, dir, shared>>
  BY DEF vars, SourceReplaced, Adopt, AdoptRead, AdoptInspect, Removing, RemoveBegins,
         RemoveComponent, RemoveManifest, RemoveDies, staging, races

LEMMA Actors ==
    ASSUME [Next]_vars
    PROVE  \/ \E c \in Calls : Begin(c) \/ Install(c)
           \/ \E c \in Calls : Crash(c)
           \/ UNCHANGED vars \/ SourceReplaced \/ Adopt \/ \E r \in Removes : Removing(r)
  BY DEF Next

LEMMA DirOwnedStep ==
    ASSUME Types, DirOwned, [Next]_vars
    PROVE  DirOwned'
<1>1. ASSUME NEW c \in Calls, Begin(c) \/ Install(c)
      PROVE  DirOwned'
  <2>1. shared => shared'
    BY <1>1, CallMoves DEF Check, races
  <2> QED
    BY <1>1, <2>1, CallMoves DEF DirOwned
<1>2. ASSUME NEW c \in Calls, Crash(c)
      PROVE  DirOwned'
  BY <1>2, CrashMoves DEF DirOwned
<1>3. CASE UNCHANGED vars \/ SourceReplaced \/ Adopt \/ \E r \in Removes : Removing(r)
  BY <1>3, OthersMove DEF DirOwned
<1> QED
  BY <1>1, <1>2, <1>3, Actors

LEMMA AloneStep ==
    ASSUME Types, Alone, [Next]_vars
    PROVE  Alone'
<1>1. ASSUME NEW c \in Calls, Begin(c) \/ Install(c)
      PROVE  Alone'
  BY <1>1, CallMoves, Entering, Refused DEF Alone, AtWork
<1>2. ASSUME NEW c \in Calls, Crash(c)
      PROVE  Alone'
  BY <1>2, CrashMoves DEF Alone, AtWork, Working, Landing
<1>3. CASE UNCHANGED vars \/ SourceReplaced \/ Adopt \/ \E r \in Removes : Removing(r)
  BY <1>3, OthersMove DEF Alone, AtWork
<1> QED
  BY <1>1, <1>2, <1>3, Actors

LEMMA ApartStep ==
    ASSUME Types, Apart, [Next]_vars
    PROVE  Apart'
<1>1. ASSUME NEW c \in Calls, Begin(c) \/ Install(c)
      PROVE  Apart'
  BY <1>1, CallMoves, Entering, Refused DEF Apart, AtWork, Deleting
<1>2. ASSUME NEW c \in Calls, Crash(c)
      PROVE  Apart'
  BY <1>2, CrashMoves DEF Apart, AtWork, Deleting, Working, Landing
<1>3. CASE UNCHANGED vars \/ SourceReplaced \/ Adopt
  BY <1>3 DEF Apart, AtWork, Deleting, vars, SourceReplaced, Adopt, AdoptRead, AdoptInspect, races
<1>4. ASSUME NEW r \in Removes, Removing(r)
      PROVE  Apart'
  BY <1>4 DEF Types, Apart, AtWork, Deleting, Files, Removing, RemoveBegins, RemoveComponent,
              RemoveManifest, RemoveDies, races
<1> QED
  BY <1>1, <1>2, <1>3, <1>4, Actors

-----------------------------------------------------------------------------
(* What lies in ext/. *)

\* Only four steps touch ext/ or the staged files of another step's making.
LEMMA ExtMoves ==
    ASSUME Types, [Next]_vars
    PROVE  \/ UNCHANGED ext
           \/ \E c \in Calls : LandFirst(c) \/ LandSecond(c)
           \/ \E r \in Removes : RemoveComponent(r) \/ RemoveManifest(r)
<1>1. ASSUME NEW c \in Calls, Begin(c) \/ Install(c)
      PROVE  UNCHANGED ext \/ LandFirst(c) \/ LandSecond(c)
  BY <1>1 DEF Begin, Install, Fetch, Copy, VerifySignature, Check, Wipe, VerifyDigest,
              CheckStructure, Clean, ext
<1>2. ASSUME NEW c \in Calls, Crash(c)
      PROVE  UNCHANGED ext
  BY <1>2 DEF Crash, ext
<1>3. CASE UNCHANGED vars \/ SourceReplaced \/ Adopt
  BY <1>3 DEF vars, SourceReplaced, Adopt, AdoptRead, AdoptInspect, ext
<1>4. ASSUME NEW r \in Removes, Removing(r)
      PROVE  UNCHANGED ext \/ RemoveComponent(r) \/ RemoveManifest(r)
  BY <1>4 DEF Removing, RemoveBegins, RemoveDies, ext
<1> QED
  BY <1>1, <1>2, <1>3, <1>4, Actors

\* A call that has landed a file moves on to no step that forgets it.
LEMMA LandedMoves ==
    ASSUME Types, [Next]_vars, NEW c \in Calls, NEW f \in Files, at[c] \in LandedBy[f],
           ~LandSecond(c)
    PROVE  at'[c] \in LandedBy[f]
<1>1. ASSUME NEW d \in Calls, Begin(d) \/ Install(d)
      PROVE  at'[c] \in LandedBy[f]
  <2>1. CASE d = c
    BY <1>1, <2>1 DEF Types, LandedBy, Files, Begin, Install, Fetch, Fetching, Copy, Copying,
                      VerifySignature, Signing, Check, Wipe, VerifyDigest, CheckStructure, LandFirst,
                      Clean, Goes
  <2>2. CASE d # c
    BY <1>1, <2>2, CallMoves
  <2> QED
    BY <2>1, <2>2
<1>2. ASSUME NEW d \in Calls, Crash(d)
      PROVE  at'[c] \in LandedBy[f]
  BY <1>2, CrashMoves DEF LandedBy
<1>3. CASE UNCHANGED vars \/ SourceReplaced \/ Adopt \/ \E r \in Removes : Removing(r)
  BY <1>3, OthersMove
<1> QED
  BY <1>1, <1>2, <1>3, Actors

LEMMA OwnedStep ==
    ASSUME Types, Owned, [Next]_vars
    PROVE  Owned'
<1> USE InstallAssumption
<1>1. ASSUME NEW c \in Calls, LandSecond(c)
      PROVE  Owned'
  <2>1. at[c] = "land-second" /\ \A d \in Calls : d # c => at'[d] = at[d]
    BY <1>1 DEF LandSecond, Types, Goes, Refuse
  <2>2. CASE Rename(c, "wasm") /\ Goes(c, "clean-installed")
    <3>1. at'[c] = "clean-installed"
      BY <2>2 DEF Goes, Types
    <3>2. /\ landed' = [landed EXCEPT !["wasm"] = staged["wasm"]] /\ staged["wasm"] # None
          /\ by' = [by EXCEPT !["wasm"] = c]
      BY <2>2 DEF Rename
    <3> QED
      BY <2>1, <3>1, <3>2 DEF Owned, Types, Files, LandedBy
  <2>3. CASE Refuse(c) /\ Delete({"manifest"})
    <3>1. \A f \in Files : by'[f] # None => f = "wasm" /\ by'[f] = by[f] /\ by'[f] # c
      BY <2>1, <2>3 DEF Delete, Files, Owned, LandedBy
    <3>2. \A f \in Files : landed'[f] = None <=> by'[f] = None
      BY <2>3 DEF Delete, Files, Owned
    <3>3. by' \in [Files -> Calls \cup {None}]
      BY TypesStep DEF Types
    <3> QED
      BY <2>1, <3>1, <3>2, <3>3 DEF Owned
  <2> QED
    BY <1>1, <2>2, <2>3 DEF LandSecond, SecondToLand, FirstToLand, TakenBack
<1>2. ASSUME NEW c \in Calls, LandFirst(c)
      PROVE  Owned'
  <2>1. at[c] = "land-first" /\ \A d \in Calls : d # c => at'[d] = at[d]
    BY <1>2 DEF LandFirst, Types, Goes, Refuse
  <2>2. CASE Rename(c, "manifest") /\ Goes(c, "land-second")
    <3>1. at'[c] = "land-second"
      BY <2>2 DEF Goes, Types
    <3>2. /\ landed' = [landed EXCEPT !["manifest"] = staged["manifest"]] /\ staged["manifest"] # None
          /\ by' = [by EXCEPT !["manifest"] = c]
      BY <2>2 DEF Rename
    <3> QED
      BY <2>1, <3>1, <3>2 DEF Owned, Types, Files, LandedBy
  <2>3. CASE UNCHANGED ext
    BY <2>1, <2>3 DEF Owned, Types, Files, LandedBy, ext
  <2> QED
    BY <1>2, <2>2, <2>3 DEF LandFirst, FirstToLand
<1>3. ASSUME ~\E c \in Calls : LandFirst(c) \/ LandSecond(c)
      PROVE  Owned'
  <2>1. \A f \in Files : by[f] # None => by[f] \in Calls /\ at'[by[f]] \in LandedBy[f]
    BY <1>3, LandedMoves DEF Owned, Types
  <2>2. CASE UNCHANGED ext
    BY <2>1, <2>2 DEF Owned, ext
  <2>3. CASE \E r \in Removes : RemoveComponent(r) \/ RemoveManifest(r)
    <3>1. \A f \in Files : \/ landed'[f] = None /\ by'[f] = None
                           \/ landed'[f] = landed[f] /\ by'[f] = by[f]
      BY <2>3 DEF RemoveComponent, RemoveManifest, Delete
    <3> QED
      BY <2>1, <3>1 DEF Owned
  <2> QED
    BY <1>3, <2>2, <2>3, ExtMoves
<1> QED
  BY <1>1, <1>2, <1>3

-----------------------------------------------------------------------------
(* What the one call at work has checked. *)

\* The staged files are touched by calls at work only.
LEMMA StagedMoves ==
    ASSUME Types, NEW d \in Calls, Begin(d) \/ Install(d), at[d] \notin Working
    PROVE  UNCHANGED staged /\ UNCHANGED ext
  BY DEF Types, Begin, Install, Fetch, Copy, Copying, VerifySignature, Check, Wipe, VerifyDigest,
         CheckStructure, LandFirst, LandSecond, Clean, Files, Working, Landing, staging, ext

\* A call that stays alone in the staging directory entered it, took a step of
\* its own, or saw nobody touch the staged files, nor land one.
LEMMA OnlyItself ==
    ASSUME Types, Alone, [Next]_vars, NEW c \in Calls, at'[c] \in Working, ~shared'
    PROVE  /\ ~shared /\ way' = way
           /\ \/ Check(c) /\ at'[c] = "wipe" /\ landed["wasm"] = None /\ UNCHANGED ext
              \/ Install(c) /\ at[c] \in Working
              \/ /\ at'[c] = at[c] /\ UNCHANGED staged
                 /\ UNCHANGED ext \/ \E r \in Removes : RemoveComponent(r) \/ RemoveManifest(r)
<1>1. CASE Begin(c) \/ Install(c)
  <2>1. CASE Check(c)
    BY <1>1, <2>1, CallMoves, Entering DEF Check, ext
  <2>2. CASE ~Check(c)
    <3>1. at[c] \in Working /\ ~shared /\ way' = way
      BY <1>1, <2>2, CallMoves
    <3>2. ~Begin(c)
      BY <3>1 DEF Begin, Working, Landing
    <3> QED
      BY <1>1, <3>1, <3>2
  <2> QED
    BY <2>1, <2>2
<1>2. ASSUME NEW d \in Calls, d # c, Begin(d) \/ Install(d)
      PROVE  ~shared /\ way' = way /\ at'[c] = at[c] /\ UNCHANGED staged /\ UNCHANGED ext
  <2>1. way' = way /\ at'[c] = at[c]
    BY <1>2, CallMoves
  <2>2. ~shared
    BY <1>2, CallMoves, Entering, Refused
  <2>3. at[d] \notin Working
    BY <1>2, <2>1, <2>2 DEF Alone, AtWork
  <2> QED
    BY <1>2, <2>1, <2>2, <2>3, StagedMoves
<1>3. ASSUME NEW d \in Calls, Crash(d)
      PROVE  ~shared /\ way' = way /\ at'[c] = at[c] /\ UNCHANGED staged /\ UNCHANGED ext
  BY <1>3, CrashMoves DEF Working, Landing, ext
<1>4. CASE UNCHANGED vars \/ SourceReplaced \/ Adopt \/ \E r \in Removes : Removing(r)
  <2>1. ~shared /\ way' = way /\ at'[c] = at[c] /\ UNCHANGED staged
    BY <1>4, OthersMove
  <2>2. UNCHANGED ext \/ \E r \in Removes : RemoveComponent(r) \/ RemoveManifest(r)
    BY <1>4 DEF vars, SourceReplaced, Adopt, AdoptRead, AdoptInspect, Removing, RemoveBegins,
                RemoveDies, ext
  <2> QED
    BY <2>1, <2>2
<1> QED
  BY <1>1, <1>2, <1>3, <1>4, Actors

LEMMA DigestStep ==
    ASSUME Types, Alone, DigestChecked, [Next]_vars
    PROVE  DigestChecked'
<1> DEFINE Past == {"copy-manifest", "sign-wasm", "sign-manifest", "structure", "land-first",
                    "land-second"}
<1> SUFFICES ASSUME NEW c \in Calls, ~shared', at'[c] \in Past
             PROVE  way'[c].sha256 \in {None, staged'["wasm"]}
  BY DEF DigestChecked
<1>1. at'[c] \in Working
  BY DEF Working, Landing
<1>2. CASE Install(c) /\ at[c] \in Working /\ way' = way /\ ~shared
  BY <1>2 DEF Types, DigestChecked, Install, Fetch, Fetching, Copy, Copying, VerifySignature, Signing,
              Check, Wipe, VerifyDigest, CheckStructure, LandFirst, LandSecond, Clean, Goes, Refuse,
              Examined, FirstToLand, SecondToLand, Rename, Files, Working, Landing, staging
<1> QED
  BY <1>1, <1>2, OnlyItself DEF DigestChecked

LEMMA SignedStep ==
    ASSUME Types, Alone, ComponentSigned, ManifestSigned, [Next]_vars
    PROVE  ComponentSigned' /\ ManifestSigned'
<1>1. ASSUME NEW c \in Calls, Install(c), at[c] \in Working, way' = way, ~shared, ~way[c].unsigned
      PROVE  /\ at'[c] \in {"sign-manifest", "structure", "land-first", "land-second"}
                  => staged'["wasm"] \in Signed
             /\ at'[c] \in {"structure", "land-first"} => staged'["manifest"] \in Signed
  BY <1>1 DEF Types, ComponentSigned, ManifestSigned, Install, Fetch, Fetching, Copy, Copying,
              VerifySignature, Signing, Check, Wipe, VerifyDigest, CheckStructure, LandFirst,
              LandSecond, Clean, Goes, Refuse, Examined, FirstToLand, SecondToLand, Rename, Files,
              Working, Landing, staging
<1>2. \A s \in {"sign-manifest", "structure", "land-first", "land-second"} : s \in Working
  BY DEF Working, Landing
<1>3. ComponentSigned'
  BY <1>1, <1>2, OnlyItself DEF ComponentSigned
<1>4. ManifestSigned'
  BY <1>1, <1>2, OnlyItself DEF ManifestSigned
<1> QED
  BY <1>3, <1>4

LEMMA PairStep ==
    ASSUME Types, Alone, PairChecked, [Next]_vars
    PROVE  PairChecked'
<1>1. ASSUME NEW c \in Calls, Install(c), at[c] \in Working, at'[c] = "land-first"
      PROVE  Consistent(staged'["wasm"], staged'["manifest"])
  BY <1>1 DEF Types, Install, Fetch, Fetching, Copy, Copying, VerifySignature, Signing, Check, Wipe,
              VerifyDigest, CheckStructure, LandFirst, LandSecond, Clean, Goes, Refuse, Examined,
              Consistent, Files, Working, Landing, staging
<1>2. "land-first" \in Working
  BY DEF Working, Landing
<1> QED
  BY <1>1, <1>2, OnlyItself DEF PairChecked, Consistent

LEMMA FreeStep ==
    ASSUME Types, Alone, Free, [Next]_vars
    PROVE  Free'
<1> SUFFICES ASSUME NEW c \in Calls, ~shared', at'[c] \in Landing
             PROVE  landed'["wasm"] = None
  BY DEF Free
<1>1. at'[c] \in Working
  BY DEF Working
<1>2. CASE Install(c) /\ at[c] \in Working /\ ~shared
  <2>1. at[c] \in Landing
    BY <1>2 DEF Types, Install, Fetch, Fetching, Copy, Copying, VerifySignature, Signing, Check, Wipe,
                VerifyDigest, CheckStructure, LandFirst, LandSecond, Clean, Goes, Working, Landing
  <2>2. landed["wasm"] = None /\ ~Clean(c) /\ at'[c] # "clean-installed"
    BY <1>2, <2>1 DEF Free, Clean, Landing
  <2>3. CASE LandFirst(c)
    BY <2>2, <2>3 DEF LandFirst, FirstToLand, Rename, ext, Types, Files
  <2>4. CASE LandSecond(c)
    BY <2>2, <2>4 DEF LandSecond, Types, Goes, Refuse, Delete, Files, Landing
  <2>5. CASE UNCHANGED ext
    BY <2>2, <2>5 DEF ext
  <2> QED
    BY <1>2, <2>2, <2>3, <2>4, <2>5 DEF Install, Fetch, Copy, VerifySignature, Check, Wipe,
              VerifyDigest, CheckStructure
<1>3. CASE at'[c] = at[c] /\ ~shared /\
           (UNCHANGED ext \/ \E r \in Removes : RemoveComponent(r) \/ RemoveManifest(r))
  <2>1. landed["wasm"] = None
    BY <1>3 DEF Free
  <2> QED
    BY <1>3, <2>1 DEF ext, RemoveComponent, RemoveManifest, Delete, Files
<1> QED
  BY <1>1, <1>2, <1>3, OnlyItself DEF ext

-----------------------------------------------------------------------------
(* The manifest and the component. *)

LEMMA FlagsStay ==
    ASSUME Types, [Next]_vars
    PROVE  /\ shared => shared'
           /\ crossed => crossed'
           /\ way' = way
<1>1. ASSUME NEW c \in Calls, Begin(c) \/ Install(c)
      PROVE  (shared => shared') /\ (crossed => crossed') /\ way' = way
  BY <1>1, CallMoves, Entering, Refused
<1>2. ASSUME NEW c \in Calls, Crash(c)
      PROVE  (shared => shared') /\ (crossed => crossed') /\ way' = way
  BY <1>2, CrashMoves
<1>3. CASE UNCHANGED vars \/ SourceReplaced \/ Adopt \/ \E r \in Removes : Removing(r)
  <2>1. crossed => crossed'
    BY <1>3 DEF vars, SourceReplaced, Adopt, AdoptRead, AdoptInspect, Removing, RemoveBegins,
                RemoveComponent, RemoveManifest, RemoveDies, races
  <2> QED
    BY <1>3, <2>1, OthersMove
<1> QED
  BY <1>1, <1>2, <1>3, Actors

LEMMA HollowStep ==
    ASSUME Types, Apart, Hollow, [Next]_vars
    PROVE  Hollow'
<1> SUFFICES ASSUME NEW r \in Removes, ~crossed', removal'[r] = "manifest"
             PROVE  landed'["wasm"] = None
  BY DEF Hollow
<1>1. ~crossed
  BY FlagsStay
<1>2. ASSUME NEW s \in Removes, Removing(s)
      PROVE  landed'["wasm"] = None
  BY <1>1, <1>2 DEF Types, Hollow, Removing, RemoveBegins, RemoveComponent, RemoveManifest, RemoveDies,
                    Delete, Files, ext
<1>3. CASE removal' = removal
  <2>1. landed["wasm"] = None /\ Deleting(r)
    BY <1>1, <1>3 DEF Hollow, Deleting, Files
  <2>2. ASSUME NEW c \in Calls, LandSecond(c)
        PROVE  FALSE
    BY <1>1, <2>1, <2>2 DEF Apart, AtWork, LandSecond, Working, Landing
  <2>3. ASSUME NEW c \in Calls, LandFirst(c)
        PROVE  landed'["wasm"] = None
    BY <2>1, <2>3 DEF LandFirst, FirstToLand, Rename, ext, Types, Files
  <2>4. CASE UNCHANGED ext
    BY <2>1, <2>4 DEF ext
  <2>5. ASSUME NEW s \in Removes, RemoveComponent(s) \/ RemoveManifest(s)
        PROVE  landed'["wasm"] = None
    BY <2>5, <1>2 DEF Removing
  <2> QED
    BY <2>2, <2>3, <2>4, <2>5, ExtMoves
<1>4. removal' = removal \/ \E s \in Removes : Removing(s)
  <2>1. ASSUME NEW c \in Calls, Begin(c) \/ Install(c) \/ Crash(c)
        PROVE  removal' = removal
    BY <2>1, CallMoves, CrashMoves
  <2>2. CASE UNCHANGED vars \/ SourceReplaced \/ Adopt
    BY <2>2 DEF vars, SourceReplaced, Adopt, AdoptRead, AdoptInspect
  <2> QED
    BY <2>1, <2>2, Actors
<1> QED
  BY <1>2, <1>3, <1>4

LEMMA ManifestFirstStep ==
    ASSUME Types, Alone, Apart, PairChecked, ManifestFirst, [Next]_vars
    PROVE  ManifestFirst'
<1> SUFFICES ASSUME NEW c \in Calls, ~shared', ~crossed', at'[c] = "land-second"
             PROVE  by'["manifest"] = c /\ Consistent(staged'["wasm"], landed'["manifest"])
  BY DEF ManifestFirst, Consistent
<1>1. at'[c] \in Working /\ "land-second" # "wipe" /\ ~shared /\ ~crossed
  BY FlagsStay DEF Working, Landing
<1>2. CASE Install(c) /\ at[c] \in Working
  <2>1. LandFirst(c) /\ at[c] = "land-first" /\ Rename(c, "manifest")
    BY <1>2 DEF Types, Install, Fetch, Fetching, Copy, Copying, VerifySignature, Signing, Check, Wipe,
                VerifyDigest, CheckStructure, LandFirst, LandSecond, Clean, Goes, Refuse, FirstToLand,
                Files, Working, Landing
  <2>2. Consistent(staged["wasm"], staged["manifest"])
    BY <1>1, <2>1 DEF PairChecked
  <2> QED
    BY <2>1, <2>2 DEF Rename, Types, Files, Consistent
<1>3. CASE /\ at'[c] = at[c] /\ UNCHANGED staged
           /\ UNCHANGED ext \/ \E r \in Removes : RemoveComponent(r) \/ RemoveManifest(r)
  <2>1. UNCHANGED ext
    <3>1. ASSUME NEW r \in Removes, RemoveComponent(r) \/ RemoveManifest(r)
          PROVE  FALSE
      BY <1>1, <1>3, <3>1 DEF Apart, AtWork, Deleting, RemoveComponent, RemoveManifest, Files
    <3> QED
      BY <1>3, <3>1
  <2> QED
    BY <1>1, <1>3, <2>1 DEF ManifestFirst, ext, Consistent
<1> QED
  BY <1>1, <1>2, <1>3, OnlyItself

LEMMA LandedStep ==
    ASSUME Types, Owned, DigestChecked, ComponentSigned, ManifestSigned, LandedAsChecked, [Next]_vars
    PROVE  LandedAsChecked'
<1> SUFFICES ASSUME ~shared', NEW f \in Files, landed'[f] # None
             PROVE  Accepts(by[f], f, landed[f])'
  BY DEF LandedAsChecked
<1>1. ~shared /\ way' = way
  BY FlagsStay
<1>2. CASE landed'[f] = landed[f] /\ by'[f] = by[f]
  BY <1>1, <1>2 DEF LandedAsChecked, Accepts
<1>3. ASSUME NEW c \in Calls, LandFirst(c)
      PROVE  Accepts(by[f], f, landed[f])'
  <2>1. CASE Rename(c, "manifest") /\ f = "manifest"
    <3>1. by'[f] = c /\ landed'[f] = staged["manifest"] /\ at[c] = "land-first"
      BY <1>3, <2>1 DEF Rename, LandFirst, Types, Files
    <3>2. ~way[c].unsigned => staged["manifest"] \in Signed
      BY <1>1, <3>1 DEF ManifestSigned
    <3> QED
      BY <1>1, <2>1, <3>1, <3>2 DEF Accepts
  <2>2. CASE UNCHANGED ext \/ (Rename(c, "manifest") /\ f = "wasm")
    BY <1>2, <2>2 DEF Rename, ext, Types, Files
  <2> QED
    BY <1>3, <2>1, <2>2 DEF LandFirst, FirstToLand, Files
<1>4. ASSUME NEW c \in Calls, LandSecond(c)
      PROVE  Accepts(by[f], f, landed[f])'
  <2>1. CASE Rename(c, "wasm") /\ f = "wasm"
    <3>1. by'[f] = c /\ landed'[f] = staged["wasm"] /\ at[c] = "land-second"
      BY <1>4, <2>1 DEF Rename, LandSecond, Types, Files
    <3>2. /\ way[c].sha256 \in {None, staged["wasm"]}
          /\ ~way[c].unsigned => staged["wasm"] \in Signed
      BY <1>1, <3>1 DEF DigestChecked, ComponentSigned
    <3> QED
      BY <1>1, <3>1, <3>2 DEF Accepts
  <2>2. CASE Rename(c, "wasm") /\ f = "manifest"
    BY <1>2, <2>2 DEF Rename, Types, Files
  <2>3. CASE Delete({"manifest"})
    BY <1>2, <2>3 DEF Delete, Files
  <2> QED
    BY <1>4, <2>1, <2>2, <2>3 DEF LandSecond, SecondToLand, FirstToLand, TakenBack, Files
<1>5. ASSUME NEW r \in Removes, RemoveComponent(r) \/ RemoveManifest(r)
      PROVE  landed'[f] = landed[f] /\ by'[f] = by[f]
  BY <1>5 DEF RemoveComponent, RemoveManifest, Delete
<1> QED
  BY <1>2, <1>3, <1>4, <1>5, ExtMoves DEF ext

LEMMA ComponentStep ==
    ASSUME Types, Owned, Free, Hollow, ManifestFirst, ComponentHasItsManifest, [Next]_vars
    PROVE  ComponentHasItsManifest'
<1> SUFFICES ASSUME ~shared', ~crossed', landed'["wasm"] # None
             PROVE  /\ landed'["manifest"] # None /\ by'["manifest"] = by'["wasm"]
                    /\ Consistent(landed'["wasm"], landed'["manifest"])
  BY DEF ComponentHasItsManifest, Consistent
<1>1. ~shared /\ ~crossed
  BY FlagsStay
<1>2. CASE UNCHANGED ext
  BY <1>1, <1>2 DEF ComponentHasItsManifest, ext, Consistent
<1>3. ASSUME NEW c \in Calls, LandFirst(c), ~UNCHANGED ext
      PROVE  FALSE
  <2>1. landed["wasm"] = None
    BY <1>1, <1>3 DEF LandFirst, Free, Landing
  <2> QED
    BY <1>3, <2>1 DEF LandFirst, FirstToLand, Rename, Types, Files
<1>4. ASSUME NEW c \in Calls, LandSecond(c)
      PROVE  /\ landed'["manifest"] # None /\ by'["manifest"] = by'["wasm"]
             /\ Consistent(landed'["wasm"], landed'["manifest"])
  <2>1. at[c] = "land-second"
    BY <1>4 DEF LandSecond
  <2>2. /\ landed["wasm"] = None
        /\ by["manifest"] = c /\ Consistent(staged["wasm"], landed["manifest"])
    BY <1>1, <2>1 DEF Free, ManifestFirst, Landing
  <2>3. landed["manifest"] # None
    BY <2>2, InstallAssumption DEF Owned, Files
  <2>4. Rename(c, "wasm")
    BY <1>4, <2>2 DEF LandSecond, SecondToLand, FirstToLand, Delete, Files
  <2>5. /\ landed' = [landed EXCEPT !["wasm"] = staged["wasm"]]
        /\ by' = [by EXCEPT !["wasm"] = c]
    BY <2>4 DEF Rename
  <2>6. landed'["wasm"] = staged["wasm"] /\ landed'["manifest"] = landed["manifest"]
    BY <2>5 DEF Types, Files
  <2>7. by'["wasm"] = c /\ by'["manifest"] = by["manifest"]
    BY <2>5 DEF Types, Files
  <2> QED
    BY <2>2, <2>3, <2>6, <2>7
<1>5. ASSUME NEW r \in Removes, RemoveComponent(r) \/ RemoveManifest(r)
      PROVE  FALSE
  <2>1. RemoveManifest(r)
    BY <1>5 DEF RemoveComponent, Delete, Files
  <2>2. landed["wasm"] = None
    BY <1>1, <2>1 DEF RemoveManifest, Hollow
  <2> QED
    BY <2>1, <2>2 DEF RemoveManifest, Delete, Files
<1> QED
  BY <1>2, <1>3, <1>4, <1>5, ExtMoves

-----------------------------------------------------------------------------
(* The theorems. *)

LEMMA Initially == Init => IInv
<1> SUFFICES ASSUME Init
             PROVE  IInv
  OBVIOUS
<1> USE InstallAssumption DEF Init, NoFiles, Files
<1>1. Types
  BY DEF Types, Steps, Over
<1>2. DirOwned
  BY DEF DirOwned
<1>3. Owned
  BY DEF Owned
<1>4. LandedAsChecked /\ ComponentHasItsManifest
  BY DEF LandedAsChecked, ComponentHasItsManifest
<1>5. \A c \in Calls : ~AtWork(c) /\ at[c] \notin Landing
  BY DEF AtWork, Working, Landing
<1> QED
  BY <1>1, <1>2, <1>3, <1>4, <1>5, TypeParts
     DEF IInv, Alone, Apart, DigestChecked, ComponentSigned, ManifestSigned, PairChecked,
         ManifestFirst, Free, Hollow, Landing

\* IInv is inductive.
LEMMA Inductive == Spec => []IInv
<1>1. IInv /\ [Next]_vars => IInv'
  <2> SUFFICES ASSUME IInv, [Next]_vars
               PROVE  IInv'
    OBVIOUS
  <2>1. Types /\ DirOwned
    BY TypeParts DEF IInv
  <2>2. TypeOK'
    BY <2>1, TypesStep, DirOwnedStep, TypeParts DEF TypeOK, Types, DirOwned
  <2> QED
    BY <2>1, <2>2, AloneStep, ApartStep, OwnedStep, DigestStep, SignedStep, PairStep, FreeStep,
       HollowStep, ManifestFirstStep, LandedStep, ComponentStep
       DEF IInv
<1> QED
  BY <1>1, Initially, PTL DEF Spec

\* Every variable keeps its type, and a staging directory that is there
\* belongs to a call at work or cut off, unless two calls shared it.
THEOREM TypeCorrect == Spec => []TypeOK
  BY Inductive, PTL DEF IInv

\* What lies in ext/ passed the checks of the call that landed it (ext.rs:658),
\* for any number of calls one after another, any source and any kills.
THEOREM LandedIsChecked == Spec => []LandedAsChecked
  BY Inductive, PTL DEF IInv

\* A component is never without the manifest it was checked with (ext.rs:580, 714).
THEOREM ComponentsHaveManifests == Spec => []ComponentHasItsManifest
  BY Inductive, PTL DEF IInv

\* A refused call has nothing in ext/, even when others are at work beside it
\* (ext.rs:612).
THEOREM RefusalsLeaveNothing == Spec => []RefusalLeavesNothing
<1>1. IInv => RefusalLeavesNothing
  BY InstallAssumption DEF IInv, Owned, LandedBy, RefusalLeavesNothing
<1> QED
  BY <1>1, Inductive, PTL

==============================================================================
