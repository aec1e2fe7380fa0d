-------------------------------- MODULE Config --------------------------------
(***************************************************************************)
(* config.yaml: what a load makes of it, what the setup audit says of it,  *)
(* and how it is replaced by the atomic writer, with the digest by which   *)
(* an edit by hand is told from a file that setup wrote.                   *)
(* Modelled from pkgs/host/config/src/lib.rs, pkgs/host/host/src/setup.rs  *)
(* and pkgs/host/host/src/config_write.rs.                                 *)
(*                                                                         *)
(* A document is what its parser sees: a record of the shapes of its       *)
(* parts.  Its digest is the document: SHA-256 is taken not to collide.    *)
(***************************************************************************)
EXTENDS Naturals, Sequences, FiniteSets, SequencesExt

CONSTANTS
    ByHand,      \* documents an operator may save
    BySetup,     \* documents the writer may be given
    Environment, \* the environments a process may be started in: sets of variables
    Programs,    \* names that are found on the PATH
    Writers,     \* callers of write_config_atomically
    MaxEdits     \* edits by hand, bounded

VARIABLES
    file,        \* config.yaml
    tmp,         \* .config.yaml.tmp
    digest,      \* config.yaml.setup-digest
    writer,      \* how far each caller of the writer has come
    check,       \* the last call of has_not_been_edited
    env,         \* the variables that are set
    edits,
    written,     \* the documents the writer put into place
    overlapped   \* two calls of the writer were under way at once

configvars == <<file, tmp, digest, writer, check, env, edits, written, overlapped>>

\* No such file; a file whose writer has not finished it, which is no mapping, if it
\* parses at all.
NoFile == [yaml |-> FALSE, missing |-> TRUE]
Half == [yaml |-> FALSE, missing |-> FALSE]
Docs == ByHand \cup BySetup

---------------------------------------------------------------------------
(* Loading.                                                                *)

\* expand_env: the first variable of its strings that is not set, or that is not closed.
Unexpanded(entry) ==
    LET bad == SelectInSeq(entry.variables, LAMBDA v : v = "unterminated" \/ v \notin env)
        found == entry.variables[bad]
    IN IF bad = 0 THEN <<>>
       ELSE <<[error |-> IF found = "unterminated" THEN "UnterminatedExpansion" ELSE "MissingEnv",
               at |-> entry.name, variable |-> found]>>

Fault(error, at) == <<[error |-> error, at |-> at, variable |-> "none"]>>
NoFault == [error |-> "none", at |-> "none", variable |-> "none"]

\* parse_instances, one entry: what is first wrong with it, if anything.
EntryFaults(entry) ==
    IF ~entry.map THEN Fault("InstanceNotMap", entry.name)
    ELSE IF entry.enabled = "odd" THEN Fault("EnabledNotBool", entry.name)
    ELSE IF entry.type = "odd" THEN Fault("TypeNotString", entry.name)
    ELSE IF entry.enabled = "yes" THEN Unexpanded(entry)
    ELSE <<>>

CategoryFaults(category) ==
    IF category.map THEN FlattenSeq([i \in DOMAIN category.entries |-> EntryFaults(category.entries[i])])
    ELSE Fault("CategoryNotMap", category.name)

\* Categories and names come in their order: serde_json keeps a map sorted.
InstanceFaults(doc) ==
    CASE doc.extensions = "odd" -> Fault("ExtensionsNotMap", "extensions")
      [] doc.extensions = "absent" -> <<>>
      [] OTHER -> FlattenSeq([i \in DOMAIN doc.categories |-> CategoryFaults(doc.categories[i])])

\* The enabled instances; `type` is their name unless they say otherwise.
Enabled(doc) ==
    UNION {{[category |-> c.name, name |-> e.name, kind |-> IF e.type = "absent" THEN e.name ELSE e.type] :
               e \in {x \in ToSet(c.entries) : x.map /\ x.enabled = "yes"}} :
           c \in {x \in ToSet(doc.categories) : x.map}}

StoreFaults(doc) ==
    IF Cardinality({i \in Enabled(doc) : i.category = "store"}) > 1
    THEN Fault("MultipleStores", "store") ELSE <<>>

ObservabilityFaults(doc) ==
    CASE doc.observability = "odd" -> Fault("ObservabilityNotMap", "observability")
      [] doc.observability = "odd-format" -> Fault("ObservabilityFormatNotString", "observability")
      [] doc.observability = "unknown-format" -> Fault("InvalidOutputFormat", "observability")
      [] OTHER -> <<>>

\* from_path and from_yaml: the first thing that is wrong with the file.
Loaded(doc) ==
    CASE doc = NoFile -> Head(Fault("Read", "file"))
      [] ~doc.yaml -> Head(Fault("Parse", "file"))
      [] ~doc.root -> Head(Fault("RootNotMap", "file"))
      [] OTHER -> Head(InstanceFaults(doc) \o StoreFaults(doc) \o ObservabilityFaults(doc) \o <<NoFault>>)

Loads(doc) == Loaded(doc) = NoFault

---------------------------------------------------------------------------
(* The audit of the setup command.                                         *)

KeyOf == [openai |-> "OPENAI_API_KEY", anthropic |-> "ANTHROPIC_API_KEY"]

EntriesOf(doc, category) ==
    IF doc.root /\ doc.extensions = "map"
    THEN UNION {ToSet(c.entries) : c \in {x \in ToSet(doc.categories) : x.name = category /\ x.map}}
    ELSE {}

\* check_guests: a component's name is the sequence of its words, and one that goes on
\* after the guest's counts as the guest.
GuestsMissing(guests, components) ==
    {g \in guests : \A c \in components : ~IsPrefix(g, c)}

\* Mutant: only the first instance is looked at.
KeysMissingOfFirst(doc) ==
    {e.name : e \in {x \in EntriesOf(doc, "provider") : x.name = "anthropic" /\ KeyOf[x.name] \notin env}}

\* check_provider_keys_yaml: by the name of the instance, enabled or not.
KeysMissing(doc) ==
    {e.name : e \in {x \in EntriesOf(doc, "provider") : x.name \in DOMAIN KeyOf /\ KeyOf[x.name] \notin env}}

\* check_config_keys_yaml: it counts `extensions` among the keys of which one is none.
AllDefaults(doc) == ~doc.root \/ doc.keys <= 1

\* check_registry_trust_yaml
Trusts(doc) == doc.root /\ doc.registry = "keys"

\* check_mcp_servers_yaml: a server is looked for by its name in the configuration, not by
\* its command.
ServersMissing(doc) == IF doc.root THEN doc.servers \ Programs ELSE {}

\* infer_distribution_from_yaml: there is one to infer, and it is the default as well.
Distribution(asked) == IF asked = "none" THEN "coding" ELSE asked

\* audit: it reads the file with no load of it, so it says nothing of what a load refuses.
Audited(doc, asked, guestsOf, components) ==
    IF doc = NoFile \/ ~doc.yaml \/ Distribution(asked) \notin DOMAIN guestsOf THEN [ok |-> FALSE]
    ELSE [ok |-> TRUE, guests |-> GuestsMissing(guestsOf[Distribution(asked)], components), keys |-> KeysMissing(doc),
          defaults |-> AllDefaults(doc), trusts |-> Trusts(doc), servers |-> ServersMissing(doc)]

---------------------------------------------------------------------------
(* The writer.                                                             *)

Idle == [pc |-> "idle", doc |-> NoFile, holds |-> "none"]

ConfigInit ==
    /\ file \in ByHand /\ tmp = NoFile /\ digest = NoFile
    /\ writer = [w \in Writers |-> Idle]
    /\ check = [pc |-> "idle", stored |-> NoFile, read |-> NoFile, unedited |-> FALSE]
    /\ env \in Environment /\ edits = 0 /\ written = {} /\ overlapped = FALSE

\* Mutant: the writer opens config.yaml itself.
OpenInPlace(w, doc) ==
    /\ writer[w].pc = "idle"
    /\ writer' = [writer EXCEPT ![w] = [pc |-> "writing", doc |-> doc, holds |-> "file"]]
    /\ file' = Half
    /\ UNCHANGED <<tmp, digest, check, env, edits, written, overlapped>>

\* fs::write of the temporary file, which two calls share: it is truncated first.
OpenTmp(w, doc) ==
    /\ writer[w].pc = "idle"
    /\ writer' = [writer EXCEPT ![w] = [pc |-> "writing", doc |-> doc, holds |-> "tmp"]]
    /\ tmp' = Half
    /\ overlapped' = (overlapped \/ \E x \in Writers \ {w} : writer[x].pc # "idle")
    /\ UNCHANGED <<file, digest, check, env, edits, written>>

\* What a write to the file that is open leaves in it, if another wrote to it too.
Contents(w) ==
    IF \E x \in Writers \ {w} : writer[x].holds = writer[w].holds THEN {writer[w].doc, Half}
    ELSE {writer[w].doc}

FillTmp(w) ==
    /\ writer[w].pc = "writing"
    /\ \E content \in Contents(w) :
        \/ writer[w].holds = "tmp" /\ tmp' = content /\ UNCHANGED <<file, written>>
        \/ writer[w].holds = "file" /\ file' = content /\ written' = written \cup {content} /\ UNCHANGED tmp
    /\ writer' = [writer EXCEPT ![w].pc = "filled", ![w].holds = "none"]
    /\ UNCHANGED <<digest, check, env, edits, overlapped>>

\* The rename.  Who still has the temporary file open now writes to config.yaml.
Rename(w) ==
    /\ writer[w].pc = "filled" /\ tmp # NoFile
    /\ file' = tmp /\ tmp' = NoFile /\ written' = written \cup {tmp}
    /\ writer' = [x \in Writers |->
         IF x = w THEN [writer[x] EXCEPT !.pc = "renamed"]
         ELSE IF writer[x].holds = "tmp" THEN [writer[x] EXCEPT !.holds = "file"] ELSE writer[x]]
    /\ UNCHANGED <<digest, check, env, edits, overlapped>>

\* A rename that fails takes the temporary file away.
RenameFails(w) ==
    /\ writer[w].pc = "filled"
    /\ tmp' = NoFile /\ writer' = [writer EXCEPT ![w] = Idle]
    /\ UNCHANGED <<file, digest, check, env, edits, written, overlapped>>

OpenDigest(w) ==
    /\ writer[w].pc = "renamed" /\ digest' = Half
    /\ writer' = [writer EXCEPT ![w].pc = "digesting"]
    /\ UNCHANGED <<file, tmp, check, env, edits, written, overlapped>>

\* Mutant: the digest of the file, read again.
DigestReread(w) == file

\* The digest of the bytes that were to be written, not of the file as it is now.
DigestOf(w) == writer[w].doc

FillDigest(w) ==
    /\ writer[w].pc = "digesting" /\ digest' = DigestOf(w)
    /\ writer' = [writer EXCEPT ![w] = Idle]
    /\ UNCHANGED <<file, tmp, check, env, edits, written, overlapped>>

\* A write that fails, or a process that is killed, where it stands: what is half written
\* stays, and a digest that cannot be written leaves the new file without one.
Fails(w) ==
    /\ writer[w].pc # "idle" /\ writer' = [writer EXCEPT ![w] = Idle]
    /\ UNCHANGED <<file, tmp, digest, check, env, edits, written, overlapped>>

---------------------------------------------------------------------------
(* Edits by hand, and the question whether there was one.                  *)

HandEdit(doc) ==
    /\ edits < MaxEdits /\ file # doc
    /\ file' = doc /\ edits' = edits + 1
    /\ UNCHANGED <<tmp, digest, writer, check, env, written, overlapped>>

\* has_not_been_edited: the digest first.
CheckDigest ==
    /\ check.pc # "reading"
    /\ check' = IF digest = NoFile
                THEN [pc |-> "done", stored |-> NoFile, read |-> NoFile, unedited |-> FALSE]
                ELSE [pc |-> "reading", stored |-> digest, read |-> NoFile, unedited |-> FALSE]
    /\ UNCHANGED <<file, tmp, digest, writer, env, edits, written, overlapped>>

CheckFile ==
    /\ check.pc = "reading"
    /\ check' = [check EXCEPT !.pc = "done", !.read = file,
                              !.unedited = check.stored # Half /\ check.stored = file]
    /\ UNCHANGED <<file, tmp, digest, writer, env, edits, written, overlapped>>

WriterStep(w) ==
    \/ \E doc \in BySetup : OpenTmp(w, doc)
    \/ FillTmp(w) \/ Rename(w) \/ RenameFails(w) \/ OpenDigest(w) \/ FillDigest(w)
    \/ Fails(w)

ConfigNext ==
    \/ \E w \in Writers : WriterStep(w)
    \/ \E doc \in ByHand : HandEdit(doc)
    \/ CheckDigest \/ CheckFile

ConfigSpec == ConfigInit /\ [][ConfigNext]_configvars

---------------------------------------------------------------------------

ConfigTypes ==
    /\ {file, tmp, digest, check.stored, check.read} \subseteq Docs \cup {NoFile, Half}
    /\ \A w \in Writers : /\ writer[w].pc \in {"idle", "writing", "filled", "renamed", "digesting"}
                          /\ writer[w].holds \in {"none", "tmp", "file"}
    /\ env \in Environment /\ edits \in 0..MaxEdits

\* write_config_atomically, whose calls share one temporary file: whatever step fails and
\* whenever the process is killed, config.yaml is a whole document, if no two calls overlap.
ConfigIsWhole == ~overlapped => file # Half

\* has_not_been_edited: a file that it takes for setup's own was put there by setup, however
\* an edit by hand falls between the rename and the digest or between its own two reads.
EditsAreNoticed == check.pc = "done" /\ check.unedited => check.read \in written

================================================================================
