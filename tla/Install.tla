---------------------------- MODULE Install ----------------------------
(***************************************************************************)
(* Installing an extension of one name into ext/, removing it, and taking  *)
(* an installed one into the running gateway.  Modelled from               *)
(* pkgs/host/wasm/src/ext.rs, native_tools.rs, lib.rs and                  *)
(* pkgs/host/host/src/sessions.rs.                                         *)
(*                                                                         *)
(* An extension is two files, a component and its manifest, that land by   *)
(* two renames.  The same code runs in the command-line tool and, as the   *)
(* tool "install", on the gateway's session threads, with nothing between  *)
(* them but the file system: a step here is one call into it, and a        *)
(* process may die between any two.  A copy and a rename are one step.     *)
(* A build stands for the bytes of a file; a signature beside a source     *)
(* file is valid for that build and no other.                              *)
(***************************************************************************)
CONSTANTS
    Builds,       \* the builds published under the name
    Signed,       \* those of them signed with a trusted key
    Fits,         \* <<component, manifest>>: the manifest admits what the component imports
    Calls,        \* the installations, each run once
    ToolCalls,    \* those of them the gateway runs
    Ways,         \* what a call may install from and be asked to check
    Removes,      \* the removals, each run once
    None

ASSUME InstallAssumption ==
    /\ Signed \subseteq Builds /\ ToolCalls \subseteq Calls
    /\ Ways \subseteq [remote : BOOLEAN, sha256 : Builds \cup {None}, unsigned : BOOLEAN]
    /\ Fits \subseteq Builds \X Builds /\ None \notin Builds \cup Calls

VARIABLES
    source,     \* the files at the path or the address installed from
    fetched,    \* call -> its private copy of what it fetched
    dir,        \* whether ext/.staging/<name> is there
    staged,     \* the files in it, shared by all calls
    landed,     \* the files in ext/
    by,         \* file -> the call that landed it; only the properties read it
    at,         \* call -> the step it is at
    way,        \* call -> what it installs from, and its Checks
    removal,    \* removal -> the file it deletes next ("both": first the component)
    queued,     \* NativeTools.installed
    adopting,   \* the component after_turn has read and not yet inspected
    loaded,     \* the build of Runtime.extensions
    shared,     \* two calls were at work in the staging directory at once
    crossed,    \* a removal and a call were at work at once
    died,       \* the gateway died
    replaced    \* the source was replaced

vars == <<source, fetched, dir, staged, landed, by, at, way, removal, queued, adopting,
          loaded, shared, crossed, died, replaced>>
staging == <<dir, staged>>
ext == <<landed, by>>
gateway == <<queued, adopting, loaded, died>>
races == <<shared, crossed>>

Files == {"wasm", "manifest"}
NoFiles == [f \in Files |-> None]
Fetching == [f \in Files |-> IF f = "wasm" THEN "fetch-wasm" ELSE "fetch-manifest"]
Copying == [f \in Files |-> IF f = "wasm" THEN "copy-wasm" ELSE "copy-manifest"]
Signing == [f \in Files |-> IF f = "wasm" THEN "sign-wasm" ELSE "sign-manifest"]
Landing == {"wipe", "copy-wasm", "digest", "copy-manifest", "sign-wasm", "sign-manifest",
            "structure", "land-first", "land-second"}
Working == Landing \cup {"clean-refused", "clean-installed"}
Over == {"installed", "refused", "crashed"}
Steps == Working \cup Over \cup {"idle", "fetch-wasm", "fetch-manifest", "check"}

TypeOK ==
    /\ {source, staged, landed} \subseteq [Files -> Builds \cup {None}]
    /\ fetched \in [Calls -> [Files -> Builds \cup {None}]]
    /\ by \in [Files -> Calls \cup {None}] /\ at \in [Calls -> Steps] /\ way \in [Calls -> Ways]
    /\ removal \in [Removes -> Files \cup {"idle", "both", "done"}]
    /\ queued \subseteq ToolCalls
    /\ adopting \in Builds \cup {None} /\ loaded \in Builds \cup {None}
    /\ {dir, shared, crossed, died, replaced} \subseteq BOOLEAN
    \* A call that left the directory behind is at work in it, or was cut off.
    /\ dir => shared \/ \E c \in Calls : at[c] \in Working \cup {"crashed"}

Init ==
    /\ source \in [Files -> Builds]
    /\ fetched = [c \in Calls |-> NoFiles]
    /\ dir = FALSE /\ staged = NoFiles
    /\ landed = NoFiles /\ by = NoFiles
    /\ at = [c \in Calls |-> "idle"] /\ way \in [Calls -> Ways]
    /\ removal = [r \in Removes |-> "idle"]
    /\ queued = {} /\ adopting = None /\ loaded = None
    /\ shared = FALSE /\ crossed = FALSE /\ died = FALSE /\ replaced = FALSE

\* inspect's verdict on two files that are there.
Consistent(component, manifest) == <<component, manifest>> \in Fits

\* Somebody publishes another build, or takes a file away.
SourceReplaced ==
    /\ ~replaced /\ replaced' = TRUE
    /\ \E f \in Files, b \in Builds \cup {None} : source' = [source EXCEPT ![f] = b]
    /\ UNCHANGED <<fetched, staging, ext, at, way, removal, gateway, races>>

-------------------------------------------------------------------------
(* Before the staging directory: install_from_url, and install's refusals. *)

Goes(c, where) == at' = [at EXCEPT ![c] = where]
From(c) == IF way[c].remote THEN fetched[c] ELSE source

Begin(c) ==
    /\ at[c] = "idle"
    /\ Goes(c, IF way[c].remote THEN "fetch-wasm" ELSE "check")
    /\ UNCHANGED <<source, fetched, staging, ext, way, removal, gateway, races, replaced>>

\* fetch_all takes one file after another; any answer but 200 ends it.
Fetch(c, f) ==
    /\ at[c] = Fetching[f]
    /\ IF source[f] = None
       THEN Goes(c, "refused") /\ UNCHANGED fetched
       ELSE /\ Goes(c, IF f = "wasm" THEN "fetch-manifest" ELSE "check")
            /\ fetched' = [fetched EXCEPT ![c] = [fetched[c] EXCEPT ![f] = source[f]]]
    /\ UNCHANGED <<source, staging, ext, way, removal, gateway, races, replaced>>

AtWork(c) == at[c] \in Working
Deleting(r) == removal[r] \in Files \cup {"both"}

\* A waived signature needs a digest; an installed component is not replaced.
Check(c) ==
    /\ at[c] = "check"
    /\ IF \/ way[c].unsigned /\ way[c].sha256 = None
          \/ From(c)["wasm"] = None \/ landed["wasm"] # None
       THEN Goes(c, "refused") /\ UNCHANGED races
       ELSE /\ Goes(c, "wipe")
            /\ shared' = (shared \/ \E d \in Calls \ {c} : AtWork(d))
            /\ crossed' = (crossed \/ \E r \in Removes : Deleting(r))
    /\ UNCHANGED <<source, fetched, staging, ext, way, removal, gateway, replaced>>

-------------------------------------------------------------------------
(* stage_and_check.  A refusal is followed by the removal of the staging   *)
(* directory, whoever works in it.                                         *)

\* Mutant: a refusal returns before the directory is removed.
RefuseAtOnce(c) == Goes(c, "refused")

Refuse(c) == Goes(c, "clean-refused")

Wipe(c) ==
    /\ at[c] = "wipe" /\ Goes(c, "copy-wasm")
    /\ dir' = TRUE /\ staged' = NoFiles
    /\ UNCHANGED <<source, fetched, ext, way, removal, gateway, races, replaced>>

Copy(c, f) ==
    /\ at[c] = Copying[f]
    /\ IF ~dir \/ From(c)[f] = None
       THEN Refuse(c) /\ UNCHANGED staged
       ELSE /\ staged' = [staged EXCEPT ![f] = From(c)[f]]
            /\ Goes(c, CASE f = "wasm" -> "digest"
                         [] f = "manifest" /\ way[c].unsigned -> "structure"
                         [] f = "manifest" /\ ~way[c].unsigned -> "sign-wasm")
    /\ UNCHANGED <<source, fetched, dir, ext, way, removal, gateway, races, replaced>>

\* Mutant: the bytes looked at are the source's, not those that would land.
ExaminedAtSource(c, f) == From(c)[f]

\* The bytes verify_digest, verify_signature and inspect look at.
Examined(c, f) == staged[f]

VerifyDigest(c) ==
    /\ at[c] = "digest"
    /\ IF way[c].sha256 \in {None, Examined(c, "wasm")}
       THEN Goes(c, "copy-manifest") ELSE Refuse(c)
    /\ UNCHANGED <<source, fetched, staging, ext, way, removal, gateway, races, replaced>>

\* The signature lies beside the source file, the content in the staging directory.
VerifySignature(c, f) ==
    /\ at[c] = Signing[f]
    /\ IF From(c)[f] \in Signed /\ Examined(c, f) = From(c)[f]
       THEN Goes(c, IF f = "wasm" THEN "sign-manifest" ELSE "structure")
       ELSE Refuse(c)
    /\ UNCHANGED <<source, fetched, staging, ext, way, removal, gateway, races, replaced>>

CheckStructure(c) ==
    /\ at[c] = "structure"
    /\ IF Consistent(Examined(c, "wasm"), Examined(c, "manifest"))
       THEN Goes(c, "land-first") ELSE Refuse(c)
    /\ UNCHANGED <<source, fetched, staging, ext, way, removal, gateway, races, replaced>>

\* Mutant: the component lands first.
FirstToLandSwapped == "wasm"

FirstToLand == "manifest"

SecondToLand == IF FirstToLand = "wasm" THEN "manifest" ELSE "wasm"

Rename(c, f) ==
    /\ staged[f] # None
    /\ staged' = [staged EXCEPT ![f] = None]
    /\ landed' = [landed EXCEPT ![f] = staged[f]]
    /\ by' = [by EXCEPT ![f] = c]

Delete(files) ==
    /\ landed' = [f \in Files |-> IF f \in files THEN None ELSE landed[f]]
    /\ by' = [f \in Files |-> IF f \in files THEN None ELSE by[f]]

\* A rename finds no file, or fails.
LandFirst(c) ==
    /\ at[c] = "land-first"
    /\ \/ Rename(c, FirstToLand) /\ Goes(c, "land-second")
       \/ Refuse(c) /\ UNCHANGED <<staged, ext>>
    /\ UNCHANGED <<source, fetched, dir, way, removal, gateway, races, replaced>>

\* Mutant: a component that does not land leaves the manifest that did.
TakenBackNever == {}

\* The manifest goes again when the component does not land.
TakenBack == {FirstToLand}

LandSecond(c) ==
    /\ at[c] = "land-second"
    /\ \/ Rename(c, SecondToLand) /\ Goes(c, "clean-installed")
       \/ Refuse(c) /\ Delete(TakenBack) /\ UNCHANGED staged
    /\ UNCHANGED <<source, fetched, dir, way, removal, gateway, races, replaced>>

\* Mutant: what came from the index is not remembered.
QueuedWhenLocal(c) == IF way[c].remote THEN queued ELSE queued \cup {c}

\* NativeTools remembers what it installed for the end of the turn.
Queued(c) == queued \cup {c}

Clean(c) ==
    /\ dir' = FALSE /\ staged' = NoFiles
    /\ \/ at[c] = "clean-refused" /\ Goes(c, "refused") /\ UNCHANGED queued
       \/ /\ at[c] = "clean-installed" /\ Goes(c, "installed")
          /\ queued' = IF c \in ToolCalls THEN Queued(c) ELSE queued
    /\ UNCHANGED <<source, fetched, ext, way, removal, adopting, loaded, died, races, replaced>>

Running(c) == at[c] \notin Over \cup {"idle"}

\* The command-line tool is killed, or the gateway with every call it runs;
\* what a gateway loaded after its boot is in no configuration file.
Crash(c) ==
    /\ Running(c)
    /\ at' = [d \in Calls |->
                IF d = c \/ ({c, d} \subseteq ToolCalls /\ Running(d)) THEN "crashed" ELSE at[d]]
    /\ IF c \in ToolCalls
       THEN queued' = {} /\ adopting' = None /\ loaded' = None /\ died' = TRUE
       ELSE UNCHANGED gateway
    /\ UNCHANGED <<source, fetched, staging, ext, way, removal, races, replaced>>

-------------------------------------------------------------------------
(* remove. *)

RemoveBegins(r) ==
    /\ removal[r] = "idle"
    /\ removal' = [removal EXCEPT ![r] =
          CASE landed["wasm"] # None /\ landed["manifest"] # None -> "both"
            [] landed["wasm"] # None /\ landed["manifest"] = None -> "wasm"
            [] landed["wasm"] = None /\ landed["manifest"] # None -> "manifest"
            [] landed["wasm"] = None /\ landed["manifest"] = None -> "done"]
    /\ crossed' = (crossed \/ \E c \in Calls : AtWork(c))
    /\ UNCHANGED <<source, fetched, staging, ext, at, way, gateway, shared, replaced>>

\* A file that is gone by now is an error that ends the removal.
RemoveComponent(r) ==
    /\ removal[r] \in {"both", "wasm"}
    /\ Delete({"wasm"})
    /\ removal' = [removal EXCEPT ![r] =
          IF removal[r] = "both" /\ landed["wasm"] # None THEN "manifest" ELSE "done"]
    /\ UNCHANGED <<source, fetched, staging, at, way, gateway, races, replaced>>

RemoveManifest(r) ==
    /\ removal[r] = "manifest"
    /\ Delete({"manifest"})
    /\ removal' = [removal EXCEPT ![r] = "done"]
    /\ UNCHANGED <<source, fetched, staging, at, way, gateway, races, replaced>>

RemoveDies(r) ==
    /\ Deleting(r)
    /\ removal' = [removal EXCEPT ![r] = "done"]
    /\ UNCHANGED <<source, fetched, staging, ext, at, way, gateway, races, replaced>>

-------------------------------------------------------------------------
(* after_turn and adopt_installed: the component is read, then the manifest. *)

AdoptRead ==
    /\ queued # {} /\ adopting = None
    /\ queued' = {}
    /\ adopting' = IF loaded # None THEN None ELSE landed["wasm"]
    /\ UNCHANGED <<source, fetched, staging, ext, at, way, removal, loaded, died, races, replaced>>

AdoptInspect ==
    /\ adopting # None /\ adopting' = None
    /\ loaded' = IF Consistent(adopting, landed["manifest"]) THEN adopting ELSE None
    /\ UNCHANGED <<source, fetched, staging, ext, at, way, removal, queued, died, races, replaced>>

-------------------------------------------------------------------------

Install(c) ==
    \/ \E f \in Files : Fetch(c, f) \/ Copy(c, f) \/ VerifySignature(c, f)
    \/ Check(c) \/ Wipe(c) \/ VerifyDigest(c) \/ CheckStructure(c)
    \/ LandFirst(c) \/ LandSecond(c) \/ Clean(c)

Removing(r) == RemoveBegins(r) \/ RemoveComponent(r) \/ RemoveManifest(r) \/ RemoveDies(r)

Adopt == AdoptRead \/ AdoptInspect

Next ==
    \/ SourceReplaced \/ Adopt
    \/ \E c \in Calls : Begin(c) \/ Install(c) \/ Crash(c)
    \/ \E r \in Removes : Removing(r)

Spec == Init /\ [][Next]_vars

\* A turn that installed something ends, and after_turn runs to its end.
FairSpec == Spec /\ WF_vars(Adopt)

-------------------------------------------------------------------------

Accepts(c, f, b) ==
    /\ f = "wasm" => way[c].sha256 \in {None, b}
    /\ ~way[c].unsigned => b \in Signed

\* What lies in ext/ passed the digest and the signatures asked for by the
\* call that landed it, though the source may change at any moment, as long as
\* no two calls were in the staging directory at once (ext.rs:658).
LandedAsChecked ==
    ~shared => \A f \in Files : landed[f] # None => Accepts(by[f], f, landed[f])

\* Whenever there is a component, the manifest it was checked with lies beside
\* it: in every state, so also after a kill between any two steps, unless
\* another call or a removal ran at the same time (ext.rs:580, 714).
ComponentHasItsManifest ==
    ~shared /\ ~crossed /\ landed["wasm"] # None =>
        /\ landed["manifest"] # None /\ by["manifest"] = by["wasm"]
        /\ Consistent(landed["wasm"], landed["manifest"])

\* A call that was refused leaves nothing of its own behind, whoever else was
\* at work ("or refuse and change nothing", ext.rs:612).
RefusalLeavesNothing ==
    \A c \in Calls : at[c] = "refused" => \A f \in Files : by[f] # c

\* What the gateway says is callable from the next turn becomes so, unless it
\* dies first, somebody removes it or another call meddles (native_tools.rs:274).
InstalledBecomesCallable ==
    \A c \in ToolCalls : at[c] = "installed" ~>
        \/ loaded # None \/ died \/ shared
        \/ \E r \in Removes : removal[r] # "idle"

\* With two calls at once the bytes that land need not be those that were
\* checked, whatever ext.rs:658 says: "Checks the staged copy: those are the
\* bytes that would land."
TheBytesChecked == \A f \in Files : landed[f] # None => Accepts(by[f], f, landed[f])
==========================================================================
