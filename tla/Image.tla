-------------------------------- MODULE Image --------------------------------
(***************************************************************************)
(* The .asi container (continuum/image.py) and the checks a state document *)
(* passes when it is written or parsed (continuum/model.py, validate).     *)
(*                                                                         *)
(* Content addresses are taken to be injective: the digest of a document   *)
(* is the document, the address of a file's content is the content.        *)
(***************************************************************************)
EXTENDS Naturals, Sequences, FiniteSets

CONSTANTS NoFile,   \* what a path without a file holds
          NoDigest  \* an artifact that was never hashed; a manifest without digest

Distinct(entries) ==
    \A i, j \in DOMAIN entries : entries[i].id = entries[j].id => i = j

ArtifactIds(x) == {x.artifacts[i].id : i \in DOMAIN x.artifacts}

Parents(x, id) ==
    UNION {x.artifacts[i].derived_from : i \in {k \in DOMAIN x.artifacts :
                                                  x.artifacts[k].id = id}}

\* The artifact graph is closed, and every set of artifacts has a first one.
ProvenanceOK(x) ==
    /\ \A id \in ArtifactIds(x) : Parents(x, id) \subseteq ArtifactIds(x)
    /\ \A ids \in SUBSET ArtifactIds(x) :
          ids # {} => \E id \in ids : Parents(x, id) \cap ids = {}

\* validate: events are numbered by their place, so they ascend.
Valid(x) ==
    /\ Distinct(x.memory)
    /\ Distinct(x.artifacts)
    /\ ProvenanceOK(x)
    /\ x.requires \cap x.optional = {}

-----------------------------------------------------------------------------
(* write_image *)

Digests(x) == {x.artifacts[i].digest : i \in DOMAIN x.artifacts}

\* _missing_artifact_blobs
Missing(x, blobs) == (Digests(x) \ {NoDigest}) \ DOMAIN blobs

\* Slip: a blob is not hashed before it is packed under the recorded digest.
TrustsKeys(x, blobs) == Valid(x) /\ NoDigest \notin DOMAIN blobs

\* blobs: the content offered for each recorded digest.
Accepts(x, blobs) ==
    /\ Valid(x)
    /\ \A a \in DOMAIN blobs : a # NoDigest /\ blobs[a] = a

\* Slip: what the manifest calls external is what is packed.
ExternalSwapped(x, blobs) ==
    [manifest |-> [digest |-> x, objects |-> DOMAIN blobs,
                   external |-> Digests(x) \cap DOMAIN blobs],
     state |-> x, blobs |-> blobs, tail |-> FALSE, cut |-> FALSE]

\* tail: bytes follow the archive; cut: it ends before its central directory.
Archive(x, blobs) ==
    [manifest |-> [digest |-> x, objects |-> DOMAIN blobs,
                   external |-> Missing(x, blobs)],
     state |-> x, blobs |-> blobs, tail |-> FALSE, cut |-> FALSE]

-----------------------------------------------------------------------------
(* read_image *)

\* Slip: the blobs are taken at their names.
ReadableState(file) ==
    /\ file # NoFile
    /\ ~file.cut
    /\ ~file.tail
    /\ file.manifest.digest # NoDigest => file.state = file.manifest.digest
    /\ Valid(file.state)

\* Slip: the state is taken from the archive unhashed.
ReadableBlobs(file) ==
    /\ file # NoFile
    /\ ~file.cut
    /\ ~file.tail
    /\ \A a \in DOMAIN file.blobs : file.blobs[a] = a
    /\ Valid(file.state)

\* Every check of read_image; any other file is an error and returns nothing. A
\* manifest without a digest is not compared, nor are its objects with the blobs.
Readable(file) ==
    /\ file # NoFile
    /\ ~file.cut
    /\ ~file.tail
    /\ file.manifest.digest # NoDigest => file.state = file.manifest.digest
    /\ \A a \in DOMAIN file.blobs : file.blobs[a] = a
    /\ Valid(file.state)
=============================================================================
