------------------------------- MODULE Sharing -------------------------------
(***************************************************************************)
(* How a state leaves the machine it was made on (the export, sanitize,    *)
(* import and diff commands of continuum/cli.py over image.py, redact.py   *)
(* and diff.py).  An agent works at home and checkpoints there; one        *)
(* command at a time writes an image to the path the machines share, and   *)
(* one at a time imports what is at that path into a store elsewhere.      *)
(* Artifact files may be rewritten by other runs in the workspace, either  *)
(* command may die between two file operations, and the file may be        *)
(* damaged on its way.                                                     *)
(***************************************************************************)
EXTENDS Image, Redaction, StateDiff

CONSTANTS
    Texts,          \* what an agent may write into its memory or context
    Settings,       \* what it may keep in params, cursor and opaque fields
    Kinds,          \* kinds of memory
    Requirements,   \* capabilities it may come to require
    Artifacts,      \* artifact ids, each with a path of its own
    Shared,         \* artifacts whose path other runs in the workspace write too
    Contents,       \* what an artifact file may hold
    Options,        \* options sanitize may be called with
    Damages,        \* the ways a file may be damaged
    First,          \* the states an agent may begin in
    MaxStates,      \* bound: checkpoints at home
    MaxCommands,    \* bound: checkpoints at home and exports begun, together
    MaxDamage       \* bound: times the file is damaged

ASSUME BoundAssumption == {MaxStates, MaxCommands, MaxDamage} \subseteq Nat

ASSUME DamageAssumption ==
    Damages \subseteq {"cut", "tail", "state", "blob", "object", "digest"}

IsSequence(s) == s \in Seq(ToSet(s))

\* What every operation on documents keeps of their shape.
Document(x) ==
    /\ x = [memory |-> x.memory, context |-> x.context, params |-> x.params,
            cursor |-> x.cursor, runtime_opaque |-> x.runtime_opaque,
            opaque |-> x.opaque, artifacts |-> x.artifacts, requires |-> x.requires,
            optional |-> x.optional, events |-> x.events]
    /\ \A field \in {"memory", "context", "params", "cursor", "runtime_opaque",
                     "artifacts", "events"} : IsSequence(x[field])
    /\ \A i \in DOMAIN x.memory :
          LET entry == x.memory[i]
          IN /\ entry = [id |-> entry.id, kind |-> entry.kind, content |-> entry.content,
                         attributes |-> entry.attributes]
             /\ IsSequence(entry.content)
    /\ \A i \in DOMAIN x.context : IsSequence(x.context[i])

\* An agent begins in a document of its own, which no sanitize has made.
ASSUME DocumentsAssumption ==
    /\ \A x \in First :
          /\ Document(x) /\ Valid(x)
          /\ x.events # <<>> /\ Last(x.events) # "state.sanitized"
    /\ \A text \in Texts \cup Settings : IsSequence(text)

VARIABLES
    states,         \* the checkpoints of the home store, oldest first
    parent,         \* the position of the checkpoint each was made from, or 0
    workspace,      \* what the file of each artifact holds
    image,          \* the file at the shared path
    partial,        \* the file beside it that is being written
    export,         \* the command at home: where it is and what it writes
    import,         \* the command elsewhere: where it is and what it read
    away,           \* the store elsewhere: its states and its blobs
    written,        \* the archive last published at the path
    returned,       \* the archive whose import has just returned
    exports,        \* exports and sanitizations begun so far
    damage          \* times the file was damaged since it was published

vars == <<states, parent, workspace, image, partial, export, import, away,
          written, returned, exports, damage>>
home == <<states, parent, workspace>>
path == <<image, partial, written, damage>>

Idle == [at |-> "idle", file |-> NoFile]

Init ==
    /\ \E x \in First : states = <<x>>
    /\ parent = <<0>>
    /\ workspace = [id \in Artifacts |-> NoFile]
    /\ image = NoFile /\ partial = NoFile
    /\ export = Idle /\ import = [at |-> "idle", file |-> NoFile, todo |-> {}]
    /\ away = [states |-> {}, blobs |-> {}]
    /\ written = NoFile /\ returned = NoFile
    /\ exports = 0 /\ damage = 0

-----------------------------------------------------------------------------
(* The agent goes on from one of its checkpoints and makes another.        *)

\* replace and with_event: a document that does not validate is not made.
Checkpoint(i, x) ==
    /\ Len(states) < MaxStates
    /\ Len(states) + exports < MaxCommands
    /\ Valid(x)
    /\ states' = Append(states, [x EXCEPT !.events = Append(@, "worked")])
    /\ parent' = Append(parent, i)
    /\ UNCHANGED <<path, export, import, away, returned, exports>>

Remember(i, kind, text) ==
    /\ Checkpoint(i, [states[i] EXCEPT !.memory =
           Append(@, [id |-> Len(@) + 1, kind |-> kind, content |-> text,
                      attributes |-> text])])
    /\ UNCHANGED workspace

Revise(i, text) ==
    /\ states[i].memory # <<>>
    /\ Checkpoint(i, [states[i] EXCEPT !.memory[1].content = text])
    /\ UNCHANGED workspace

Say(i, text) ==
    /\ Checkpoint(i, [states[i] EXCEPT !.context = Append(@, text)])
    /\ UNCHANGED workspace

Keep(i, field, text) ==
    /\ Checkpoint(i, [states[i] EXCEPT ![field] = text])
    /\ UNCHANGED workspace

Require(i, name) ==
    /\ Checkpoint(i, [states[i] EXCEPT !.requires = @ \cup {name}])
    /\ UNCHANGED workspace

\* An artifact replaces the one of its id; some adapters do not hash it.
Produce(i, id, content, digest, from) ==
    /\ Checkpoint(i, [states[i] EXCEPT !.artifacts =
           Append(Selected(@, {k \in DOMAIN @ : @[k].id # id}),
                  [id |-> id, digest |-> digest, derived_from |-> from])])
    /\ workspace' = [workspace EXCEPT ![id] = content]

\* Another run in the workspace writes the same path, or someone removes it.
Rewrite(id, content) ==
    /\ workspace' = [workspace EXCEPT ![id] = content]
    /\ UNCHANGED <<states, parent, path, export, import, away, returned, exports>>

Work(i) ==
    \/ \E kind \in Kinds, text \in Texts : Remember(i, kind, text)
    \/ \E text \in Texts : Revise(i, text) \/ Say(i, text)
    \/ \E field \in {"params", "cursor", "runtime_opaque", "opaque"},
          text \in Settings : Keep(i, field, text)
    \/ \E name \in Requirements : Require(i, name)
    \/ \E id \in Artifacts, content \in Contents :
          \E from \in SUBSET (Artifacts \ {id}), digest \in {content, NoDigest} :
             Produce(i, id, content, digest, from)

-----------------------------------------------------------------------------
(* export and sanitize *)

\* Every artifact whose file is there is offered under the recorded digest; of
\* several with one digest the last is.
Offered(x) ==
    LET present == {i \in DOMAIN x.artifacts : workspace[x.artifacts[i].id] # NoFile}
        last(d) == CHOOSE i \in present :
                      /\ x.artifacts[i].digest = d
                      /\ \A j \in present : x.artifacts[j].digest = d => j <= i
    IN [d \in {x.artifacts[i].digest : i \in present} |->
          workspace[x.artifacts[last(d)].id]]

Begin ==
    /\ Len(states) + exports < MaxCommands
    /\ exports' = exports + 1

\* Slip: the archive is written in place.
WriteInPlace(x, blobs) ==
    /\ export.at = "idle"
    /\ Begin
    /\ IF Accepts(x, blobs)
       THEN /\ image' = [Archive(x, blobs) EXCEPT !.cut = TRUE]
            /\ export' = [at |-> "fill", file |-> Archive(x, blobs)]
       ELSE UNCHANGED <<image, export>>
    /\ UNCHANGED <<home, partial, written, damage, import, away, returned>>

\* write_image up to the opening of the file beside the path, which truncates
\* what an earlier command left there.  A refused state or blob writes nothing.
WriteImage(x, blobs) ==
    /\ export.at = "idle"
    /\ Begin
    /\ IF Accepts(x, blobs)
       THEN /\ partial' = [Archive(x, blobs) EXCEPT !.cut = TRUE]
            /\ export' = [at |-> "fill", file |-> Archive(x, blobs)]
       ELSE UNCHANGED <<partial, export>>
    /\ UNCHANGED <<home, image, written, damage, import, away, returned>>

Export(x, artifacts) == WriteImage(x, IF artifacts THEN Offered(x) ELSE <<>>)

\* Slip: a sanitized image brings the artifacts of its source.
SanitizeWithBlobs(x, options) ==
    WriteImage(SanitizeState(x, options).state, Offered(x))

Sanitize(x, options) == WriteImage(SanitizeState(x, options).state, <<>>)

Fill ==
    /\ export.at = "fill"
    /\ partial' = export.file
    /\ export' = [export EXCEPT !.at = "publish"]
    /\ UNCHANGED <<home, image, written, damage, import, away, returned, exports>>

Publish ==
    /\ export.at = "publish"
    /\ image' = partial /\ written' = partial
    /\ partial' = NoFile
    /\ damage' = 0
    /\ export' = Idle
    /\ UNCHANGED <<home, import, away, returned, exports>>

\* The process dies, or a write fails: the file beside the path stays.
Abandon ==
    /\ export.at # "idle"
    /\ export' = Idle
    /\ UNCHANGED <<home, path, import, away, returned, exports>>

-----------------------------------------------------------------------------
(* import *)

BeginImport ==
    /\ import.at = "idle"
    /\ Readable(image)
    /\ import' = [at |-> "record", file |-> image, todo |-> {}]
    /\ returned' = NoFile
    /\ UNCHANGED <<home, path, export, away, exports>>

\* Slip: a state that is there already ends the import.
RecordNewState ==
    /\ import.at = "record"
    /\ away' = [away EXCEPT !.states = @ \cup {import.file.state}]
    /\ import' = [import EXCEPT !.at = "blobs",
                     !.todo = IF import.file.state \in away.states THEN {}
                              ELSE DOMAIN import.file.blobs]
    /\ UNCHANGED <<home, path, export, returned, exports>>

\* record_checkpoint comes first; it returns the entry of a state it has.
RecordState ==
    /\ import.at = "record"
    /\ away' = [away EXCEPT !.states = @ \cup {import.file.state}]
    /\ import' = [import EXCEPT !.at = "blobs", !.todo = DOMAIN import.file.blobs]
    /\ UNCHANGED <<home, path, export, returned, exports>>

\* put_bytes stores a blob at the digest of its bytes.
PutBlob(a) ==
    /\ import.at = "blobs" /\ a \in import.todo
    /\ away' = [away EXCEPT !.blobs = @ \cup {import.file.blobs[a]}]
    /\ import' = [import EXCEPT !.todo = @ \ {a}]
    /\ UNCHANGED <<home, path, export, returned, exports>>

EndImport ==
    /\ import.at = "blobs" /\ import.todo = {}
    /\ returned' = import.file
    /\ import' = [import EXCEPT !.at = "idle", !.file = NoFile]
    /\ UNCHANGED <<home, path, export, away, exports>>

AbandonImport ==
    /\ import.at # "idle"
    /\ import' = [at |-> "idle", file |-> NoFile, todo |-> {}]
    /\ UNCHANGED <<home, path, export, away, returned, exports>>

-----------------------------------------------------------------------------
(* What happens to a file on its way: bytes are lost or added, a member is *)
(* replaced by one of another image, an object or a field of the manifest  *)
(* is lost.                                                                *)

Without(file, a) ==
    [file EXCEPT !.blobs = [b \in DOMAIN file.blobs \ {a} |-> file.blobs[b]]]

Damaged(kind, file) ==
    CASE kind = "cut" -> {[file EXCEPT !.cut = TRUE]}
      [] kind = "tail" -> {[file EXCEPT !.tail = TRUE]}
      [] kind = "state" -> {[file EXCEPT !.state = x] : x \in ToSet(states)}
      [] kind = "blob" -> {[file EXCEPT !.blobs[a] = c] :
                              a \in DOMAIN file.blobs, c \in Contents}
      [] kind = "object" -> {Without(file, a) : a \in DOMAIN file.blobs}
      [] kind = "digest" -> {[file EXCEPT !.manifest.digest = NoDigest]}

Damage(kind) ==
    /\ image # NoFile
    /\ damage < MaxDamage
    /\ image' \in Damaged(kind, image) /\ image' # image
    /\ damage' = damage + 1
    /\ UNCHANGED <<home, partial, written, export, import, away, returned, exports>>

-----------------------------------------------------------------------------

Sources == ToSet(states) \cup (IF Readable(image) THEN {image.state} ELSE {})

Next ==
    \/ \E i \in DOMAIN states : Work(i)
    \/ \E id \in Shared, content \in Contents \cup {NoFile} : Rewrite(id, content)
    \/ \E x \in ToSet(states), artifacts \in BOOLEAN : Export(x, artifacts)
    \/ \E x \in Sources, options \in Options : Sanitize(x, options)
    \/ Fill \/ Publish \/ Abandon
    \/ BeginImport \/ RecordState \/ EndImport \/ AbandonImport
    \/ \E a \in import.todo : PutBlob(a)
    \/ \E kind \in Damages : Damage(kind)

Spec == Init /\ [][Next]_vars

-----------------------------------------------------------------------------

\* An interrupted or refused command never leaves half an image at the path: a
\* file nobody damaged is one that was published whole, and it passes every check
\* a reader makes (write_image writes beside the path and renames).
PathNeverHalf ==
    damage = 0 => image = written /\ (image # NoFile => Readable(image))

\* Whatever happened to a file, what read_image returns from it is the state
\* that was published, and bytes that were published with it, as long as the
\* manifest still has its digest.
ReadIsWritten ==
    Readable(image) /\ image.manifest.digest # NoDigest =>
        /\ image.state = written.state
        /\ \A a \in DOMAIN image.blobs :
              a \in DOMAIN written.blobs /\ image.blobs[a] = written.blobs[a]

\* After an import that returned, also one repeated after a crash, the store
\* elsewhere has the state and the bytes of each of its artifacts, save those the
\* manifest calls external and those lost with their object on the way.
ArtifactsArrive ==
    returned # NoFile =>
        /\ returned.state \in away.states
        /\ returned.manifest.digest # NoDigest =>
              \A d \in Digests(returned.state) \ {NoDigest} :
                 \/ d \in away.blobs
                 \/ d \in returned.manifest.external
                 \/ d \in returned.manifest.objects \ DOMAIN returned.blobs

\* What the rules for known shapes match as it was written, no part of it a
\* placeholder.
Exposed(text) ==
    ShapeSpans(text) \cup BlockSpans(text)
        \cup {s \in UrlSpans(text) : \A i \in s.first .. s.next - 1 : text[i].kind # "open"}

Scrubbed(x) ==
    /\ \A i \in DOMAIN x.memory : Exposed(x.memory[i].content) = {}
    /\ \A i \in DOMAIN x.context : Exposed(x.context[i]) = {}
    /\ \A field \in {"params", "cursor", "runtime_opaque"} : Exposed(x[field]) = {}

\* In no scanned field of a sanitized image does a rule for a known shape still
\* match anything but placeholders, however the spans of the rules overlapped: no
\* key that stands alone as a word, no private key with its header, no password
\* in a URL; and the image carries no artifact bytes.  A key with word characters
\* against it the rules never match, and the body of a private key stays when a
\* span that began before its header took the header (_apply_spans).
SanitizedIsScrubbed ==
    \A file \in {export.file, image} :
        file # NoFile /\ ~file.cut /\ file.state.events # <<>>
          /\ Last(file.state.events) = "state.sanitized" =>
            Scrubbed(file.state) /\ (damage = 0 => file.blobs = <<>>)

ReportAccountsFor(x) ==
    \A options \in Options :
        LET result == SanitizeState(x, options)
            clean == result.found = <<>>
        IN /\ clean <=> result.state = x
           /\ clean <=> Empty(DiffStates(x, result.state))
           /\ Valid(result.state)

\* Of each state a step brings forth, a checkpoint or one that can be read from the
\* shared path: sanitize reports something exactly when it changes something, and
\* the diff of a state and its sanitized form then shows it (exit code 3 is not a
\* matter of taste: a clean report means the very same document).
ReportAccounts == [][\A x \in Sources' \ Sources : ReportAccountsFor(x)]_vars

\* The difference between a new checkpoint and any older one is the same before
\* and after both are sanitized, so that a sanitized history can still be compared
\* (the digest in a placeholder is that of its secret).
SanitizedDiffsAlike ==
    [][\A new \in ToSet(states') \ ToSet(states), options \in Options :
          LET clean(x) == [SanitizeState(x, options).state EXCEPT !.events = x.events]
          IN options.drop = {} =>
             \A x \in ToSet(states) :
                DiffStates(clean(x), clean(new)) = DiffStates(x, new)]_vars

\* The checkpoints on the line that leads to this one, itself among them.
Line(k) ==
    LET up[i \in 0 .. Len(states)] == IF i = 0 THEN {} ELSE {i} \cup up[parent[i]]
    IN up[k]

\* Diffs along one line of checkpoints add up: what is reported between the first
\* and the last is reported on one side or the other of any checkpoint between
\* them, the events in their order and none twice; and two checkpoints of a line
\* are never "(identical state)", also when only fields differ that diff does not
\* compare (_new_events cuts at the last sequence number of the left).
DiffTellsHistory ==
    \A k \in DOMAIN states : \A j \in Line(k) : \A i \in Line(j) :
        LET diff == DiffStates(states[i], states[k])
            early == DiffStates(states[i], states[j])
            late == DiffStates(states[j], states[k])
        IN /\ diff.events = early.events \o late.events
           /\ diff.context = early.context + late.context
           /\ diff.scalars \subseteq early.scalars \cup late.scalars
           /\ diff.memory.added \subseteq early.memory.added \cup late.memory.added
           /\ \A delta \in {"memory", "artifacts"} :
                 diff[delta].modified \subseteq early[delta].modified \cup late[delta].modified
           /\ Empty(diff) => i = k

=============================================================================
