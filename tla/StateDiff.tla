------------------------------ MODULE StateDiff ------------------------------
(***************************************************************************)
(* The structured diff of two state documents (continuum/diff.py).         *)
(* Memory and artifacts are matched by id, scalar sections compared field  *)
(* by field, contexts by length, events by sequence number.                *)
(***************************************************************************)
EXTENDS Integers, Sequences, SequencesExt

Ids(entries) == {entries[i].id : i \in DOMAIN entries}
Entry(entries, id) == entries[CHOOSE i \in DOMAIN entries : entries[i].id = id]

\* What an entry is compared by, for each id: the attributes and the source of a
\* memory are not part of it.
MemoryIdentity(x) ==
    [id \in Ids(x.memory) |->
        LET entry == Entry(x.memory, id) IN <<entry.kind, entry.content>>]

ArtifactIdentity(x) ==
    [id \in Ids(x.artifacts) |->
        LET artifact == Entry(x.artifacts, id)
        IN <<artifact.digest, artifact.derived_from>>]

CollectionDelta(before, after) ==
    [added |-> DOMAIN after \ DOMAIN before,
     removed |-> DOMAIN before \ DOMAIN after,
     modified |-> {id \in DOMAIN before \cap DOMAIN after : before[id] # after[id]}]

\* The sequence number of an event is its place in the history.
NewEvents(left, right) ==
    SubSeq(right.events, Len(left.events) + 1, Len(right.events))

\* The sections that are compared field by field and differ; provider.opaque is
\* left out of the provider section.
ScalarChanges(left, right) ==
    (IF left.cursor # right.cursor THEN {"execution.cursor"} ELSE {})
        \cup (IF left.params # right.params THEN {"provider.params"} ELSE {})

DiffStates(left, right) ==
    [scalars |-> ScalarChanges(left, right),
     memory |-> CollectionDelta(MemoryIdentity(left), MemoryIdentity(right)),
     artifacts |-> CollectionDelta(ArtifactIdentity(left), ArtifactIdentity(right)),
     capabilities |-> [added |-> right.requires \ left.requires,
                       removed |-> left.requires \ right.requires],
     context |-> Len(right.context) - Len(left.context),
     events |-> NewEvents(left, right)]

Untouched(delta) == delta.added = {} /\ delta.removed = {} /\ delta.modified = {}

\* Slip: an event by itself is no difference.
EmptySections(diff) ==
    /\ diff.scalars = {}
    /\ Untouched(diff.memory) /\ Untouched(diff.artifacts)
    /\ diff.capabilities.added = {} /\ diff.capabilities.removed = {}
    /\ diff.context = 0

\* StateDiff.empty, which is rendered as "(identical state)".
Empty(diff) ==
    /\ diff.scalars = {}
    /\ Untouched(diff.memory) /\ Untouched(diff.artifacts)
    /\ diff.capabilities.added = {} /\ diff.capabilities.removed = {}
    /\ diff.context = 0
    /\ diff.events = <<>>
=============================================================================
