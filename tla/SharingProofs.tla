---------------------------- MODULE SharingProofs ----------------------------
(***************************************************************************)
(* What reaches the shared path is a whole image, what is read from it was *)
(* written, and what an import brings is complete: for any states, any     *)
(* texts and artifacts, any damage of the kinds of Sharing, and any number *)
(* of commands.  In a sanitized image no rule for a known shape matches,   *)
(* the report of sanitize accounts for what it changed, and diffs along a  *)
(* line of checkpoints add up.                                             *)
(***************************************************************************)
EXTENDS Sharing, Induction

-----------------------------------------------------------------------------
(* Files *)

\* A file with the members of an archive.
IsFile(f) ==
    /\ f = [manifest |-> f.manifest, state |-> f.state, blobs |-> f.blobs,
            tail |-> f.tail, cut |-> f.cut]
    /\ f.manifest = [digest |-> f.manifest.digest, objects |-> f.manifest.objects,
                     external |-> f.manifest.external]

\* A file as write_image makes it.
Whole(f) ==
    /\ IsFile(f)
    /\ f.cut = FALSE /\ f.tail = FALSE
    /\ f.manifest.digest = f.state
    /\ Valid(f.state)
    /\ \A a \in DOMAIN f.blobs : f.blobs[a] = a

\* The manifest says of every digest in the state where its bytes are.
Accounts(f) ==
    \A d \in Digests(f.manifest.digest) \ {NoDigest} :
        d \in f.manifest.external \/ d \in f.manifest.objects

\* What damage may have made of a file.
From(f, g) ==
    /\ IsFile(f)
    /\ f.manifest.digest \in {g.state, NoDigest}
    /\ DOMAIN f.blobs \subseteq DOMAIN g.blobs
    /\ f.manifest.digest # NoDigest => Accounts(f)

LEMMA ArchiveIsWhole ==
    ASSUME NEW x, NEW blobs, Accepts(x, blobs)
    PROVE  Whole(Archive(x, blobs)) /\ Accounts(Archive(x, blobs))
<1>1. IsFile(Archive(x, blobs))
  BY DEF IsFile, Archive
<1>2. Accounts(Archive(x, blobs))
  BY DEF Accounts, Archive, Missing
<1> QED
  BY <1>1, <1>2 DEF Whole, Archive, Accepts

LEMMA WholeIsReadable ==
    ASSUME NEW f, Whole(f), f # NoFile
    PROVE  Readable(f)
BY DEF Whole, Readable

LEMMA WholeIsItself ==
    ASSUME NEW f, Whole(f), Accounts(f)
    PROVE  From(f, f)
BY DEF Whole, From

\* Damage of any kind leaves a file that comes from the one that was written.
LEMMA DamageKeepsOrigin ==
    ASSUME NEW f, NEW g, NEW kind \in Damages, NEW h \in Damaged(kind, f), From(f, g)
    PROVE  From(h, g)
<1>0. kind \in {"cut", "tail", "state", "blob", "object", "digest"}
  BY DamageAssumption
<1>1. CASE kind = "cut"
  <2>1. h = [f EXCEPT !.cut = TRUE]
    BY <1>1 DEF Damaged
  <2> QED
    BY <2>1 DEF From, IsFile, Accounts
<1>2. CASE kind = "tail"
  <2>1. h = [f EXCEPT !.tail = TRUE]
    BY <1>2 DEF Damaged
  <2> QED
    BY <2>1 DEF From, IsFile, Accounts
<1>3. CASE kind = "state"
  <2>1. PICK x \in ToSet(states) : h = [f EXCEPT !.state = x]
    BY <1>3 DEF Damaged
  <2> QED
    BY <2>1 DEF From, IsFile, Accounts
<1>4. CASE kind = "blob"
  <2>1. PICK a \in DOMAIN f.blobs, c \in Contents : h = [f EXCEPT !.blobs[a] = c]
    BY <1>4 DEF Damaged
  <2>2. DOMAIN h.blobs = DOMAIN f.blobs
    BY <2>1 DEF From, IsFile
  <2> QED
    BY <2>1, <2>2 DEF From, IsFile, Accounts
<1>5. CASE kind = "object"
  <2>1. PICK a \in DOMAIN f.blobs : h = Without(f, a)
    BY <1>5 DEF Damaged
  <2>2. DOMAIN h.blobs \subseteq DOMAIN f.blobs
    BY <2>1 DEF From, IsFile, Without
  <2> QED
    BY <2>1, <2>2 DEF From, IsFile, Accounts, Without
<1>6. CASE kind = "digest"
  <2>1. h = [f EXCEPT !.manifest.digest = NoDigest]
    BY <1>6 DEF Damaged
  <2>2. h.manifest.digest = NoDigest /\ IsFile(h) /\ h.blobs = f.blobs
    BY <2>1 DEF From, IsFile
  <2> QED
    BY <2>2 DEF From
<1> QED
  BY <1>0, <1>1, <1>2, <1>3, <1>4, <1>5, <1>6

-----------------------------------------------------------------------------
(* The inductive invariant *)

\* What a reader elsewhere may rely on in a file it has read.
Read(f) ==
    /\ \A a \in DOMAIN f.blobs : f.blobs[a] = a
    /\ f.manifest.digest # NoDigest => f.state = f.manifest.digest /\ Accounts(f)

\* The file at the path comes from the one published last, and is that one until
\* it is damaged.
PathOK ==
    /\ damage \in Nat
    /\ damage = 0 => image = written
    /\ image # NoFile => From(image, written) /\ Whole(written)

\* A command writes a whole file, and publishes what it has written.
ExportOK ==
    /\ export = [at |-> export.at, file |-> export.file]
    /\ export.at \in {"idle", "fill", "publish"}
    /\ export.at # "idle" => Whole(export.file) /\ Accounts(export.file)
    /\ export.at = "publish" => partial = export.file

\* An import that has recorded its state has stored all blobs but those to do.
ImportOK ==
    /\ import = [at |-> import.at, file |-> import.file, todo |-> import.todo]
    /\ import.at \in {"idle", "record", "blobs"}
    /\ import.at # "idle" => Read(import.file)
    /\ import.at = "blobs" =>
          /\ import.file.state \in away.states
          /\ DOMAIN import.file.blobs \ import.todo \subseteq away.blobs

AwayOK ==
    /\ away = [states |-> away.states, blobs |-> away.blobs]
    /\ ArtifactsArrive

IInv == PathOK /\ ExportOK /\ ImportOK /\ AwayOK

LEMMA InvInit == Init => IInv
BY DEF Init, IInv, PathOK, ExportOK, ImportOK, AwayOK, ArtifactsArrive, Idle

-----------------------------------------------------------------------------
(* Every step keeps it *)

elsewhere == <<image, partial, written, damage, export, import, away, returned>>

\* Work at home touches nothing that is shared.
LEMMA WorkStaysHome ==
    ASSUME NEW i \in DOMAIN states, Work(i)
    PROVE  UNCHANGED elsewhere
<1>1. \A x : Checkpoint(i, x) => UNCHANGED elsewhere
  BY DEF Checkpoint, elsewhere, path
<1> QED
  BY <1>1 DEF Work, Remember, Revise, Say, Keep, Require, Produce

LEMMA UnchangedKeeps ==
    ASSUME IInv, UNCHANGED elsewhere
    PROVE  IInv'
BY DEF elsewhere, IInv, PathOK, ExportOK, ImportOK, AwayOK, ArtifactsArrive

\* write_image up to the file beside the path.
LEMMA WriteImageKeeps ==
    ASSUME IInv, NEW x, NEW blobs, WriteImage(x, blobs)
    PROVE  IInv'
<1>1. PathOK' /\ ImportOK' /\ AwayOK'
  BY DEF WriteImage, home, IInv, PathOK, ImportOK, AwayOK, ArtifactsArrive
<1>2. ExportOK'
  <2>1. CASE Accepts(x, blobs)
    <3>1. export' = [at |-> "fill", file |-> Archive(x, blobs)]
      BY <2>1 DEF WriteImage
    <3>2. Whole(Archive(x, blobs)) /\ Accounts(Archive(x, blobs))
      BY <2>1, ArchiveIsWhole
    <3> QED
      BY <3>1, <3>2 DEF ExportOK
  <2>2. CASE ~Accepts(x, blobs)
    BY <2>2 DEF WriteImage, IInv, ExportOK
  <2> QED
    BY <2>1, <2>2
<1> QED
  BY <1>1, <1>2 DEF IInv

LEMMA ExportKeeps ==
    ASSUME IInv, Fill \/ Publish \/ Abandon
    PROVE  IInv'
<1>1. CASE Fill
  BY <1>1 DEF Fill, home, IInv, PathOK, ExportOK, ImportOK, AwayOK, ArtifactsArrive
<1>2. CASE Publish
  <2>1. partial = export.file /\ Whole(partial) /\ Accounts(partial)
    BY <1>2 DEF Publish, IInv, ExportOK
  <2>2. PathOK'
    <3>1. From(partial, partial)
      BY <2>1, WholeIsItself
    <3> QED
      BY <1>2, <2>1, <3>1 DEF Publish, PathOK
  <2>3. ExportOK'
    BY <1>2 DEF Publish, Idle, ExportOK
  <2> QED
    BY <1>2, <2>2, <2>3 DEF Publish, home, IInv, ImportOK, AwayOK, ArtifactsArrive
<1>3. CASE Abandon
  BY <1>3 DEF Abandon, Idle, home, path, IInv, PathOK, ExportOK, ImportOK, AwayOK,
              ArtifactsArrive
<1> QED
  BY <1>1, <1>2, <1>3

LEMMA ImportKeeps ==
    ASSUME IInv, \/ BeginImport \/ RecordState \/ EndImport \/ AbandonImport
                 \/ \E a \in import.todo : PutBlob(a)
    PROVE  IInv'
<1>1. PathOK' /\ ExportOK'
  BY DEF BeginImport, RecordState, EndImport, AbandonImport, PutBlob, home, path,
         IInv, PathOK, ExportOK
<1>2. CASE BeginImport
  <2>1. image # NoFile /\ From(image, written) /\ Readable(image)
    BY <1>2 DEF BeginImport, Readable, IInv, PathOK
  <2>2. Read(image)
    BY <2>1 DEF Read, From, Readable
  <2>3. ImportOK'
    BY <1>2, <2>2 DEF BeginImport, ImportOK
  <2> QED
    BY <1>1, <1>2, <2>3 DEF BeginImport, IInv, AwayOK, ArtifactsArrive
<1>3. CASE RecordState
  <2>1. /\ away'.states = away.states \cup {import.file.state}
        /\ away'.blobs = away.blobs
        /\ away' = [states |-> away'.states, blobs |-> away'.blobs]
    BY <1>3 DEF RecordState, IInv, AwayOK
  <2>2. import' = [at |-> "blobs", file |-> import.file,
                   todo |-> DOMAIN import.file.blobs]
    BY <1>3 DEF RecordState, IInv, ImportOK
  <2>3. ImportOK'
    BY <1>3, <2>1, <2>2 DEF RecordState, IInv, ImportOK
  <2>4. AwayOK'
    BY <1>3, <2>1 DEF RecordState, IInv, AwayOK, ArtifactsArrive
  <2> QED
    BY <1>1, <2>3, <2>4 DEF IInv
<1>4. ASSUME NEW a \in import.todo, PutBlob(a)
      PROVE  IInv'
  <2>1. /\ away'.states = away.states
        /\ away'.blobs = away.blobs \cup {import.file.blobs[a]}
        /\ away' = [states |-> away'.states, blobs |-> away'.blobs]
    BY <1>4 DEF PutBlob, IInv, AwayOK
  <2>2. import' = [at |-> "blobs", file |-> import.file, todo |-> import.todo \ {a}]
    BY <1>4 DEF PutBlob, IInv, ImportOK
  <2>3. ImportOK'
    <3>1. a \in DOMAIN import.file.blobs => import.file.blobs[a] = a
      BY <1>4 DEF PutBlob, IInv, ImportOK, Read
    <3> QED
      BY <1>4, <2>1, <2>2, <3>1 DEF PutBlob, IInv, ImportOK
  <2>4. AwayOK'
    BY <1>4, <2>1 DEF PutBlob, IInv, AwayOK, ArtifactsArrive
  <2> QED
    BY <1>1, <2>3, <2>4 DEF IInv
<1>5. CASE EndImport
  <2>1. /\ import.file.state \in away.states
        /\ DOMAIN import.file.blobs \subseteq away.blobs
        /\ Read(import.file)
    BY <1>5 DEF EndImport, IInv, ImportOK
  <2>2. AwayOK'
    BY <1>5, <2>1 DEF EndImport, IInv, AwayOK, ArtifactsArrive, Read, Accounts
  <2>3. ImportOK'
    BY <1>5 DEF EndImport, IInv, ImportOK
  <2> QED
    BY <1>1, <2>2, <2>3 DEF IInv
<1>6. CASE AbandonImport
  BY <1>1, <1>6 DEF AbandonImport, IInv, ImportOK, AwayOK, ArtifactsArrive
<1> QED
  BY <1>2, <1>3, <1>4, <1>5, <1>6

LEMMA DamageKeeps ==
    ASSUME IInv, NEW kind \in Damages, Damage(kind)
    PROVE  IInv'
<1>1. From(image, written) /\ Whole(written)
  BY DEF Damage, IInv, PathOK
<1>2. From(image', written)
  BY <1>1, DamageKeepsOrigin DEF Damage
<1>3. PathOK'
  BY <1>1, <1>2 DEF Damage, IInv, PathOK
<1> QED
  BY <1>3 DEF Damage, home, IInv, ExportOK, ImportOK, AwayOK, ArtifactsArrive

LEMMA InvNext == IInv /\ [Next]_vars => IInv'
<1> SUFFICES ASSUME IInv, [Next]_vars PROVE IInv'
  OBVIOUS
<1>1. ASSUME NEW i \in DOMAIN states, Work(i) PROVE IInv'
  BY <1>1, WorkStaysHome, UnchangedKeeps
<1>2. ASSUME NEW id \in Shared, NEW content \in Contents \cup {NoFile},
             Rewrite(id, content)
      PROVE  IInv'
  BY <1>2, UnchangedKeeps DEF Rewrite, path, elsewhere
<1>3. ASSUME NEW x \in ToSet(states), NEW artifacts \in BOOLEAN, Export(x, artifacts)
      PROVE  IInv'
  BY <1>3, WriteImageKeeps DEF Export
<1>4. ASSUME NEW x \in Sources, NEW options \in Options, Sanitize(x, options)
      PROVE  IInv'
  BY <1>4, WriteImageKeeps DEF Sanitize
<1>5. CASE Fill \/ Publish \/ Abandon
  BY <1>5, ExportKeeps
<1>6. CASE \/ BeginImport \/ RecordState \/ EndImport \/ AbandonImport
           \/ \E a \in import.todo : PutBlob(a)
  BY <1>6, ImportKeeps
<1>7. ASSUME NEW kind \in Damages, Damage(kind) PROVE IInv'
  BY <1>7, DamageKeeps
<1>8. CASE UNCHANGED vars
  BY <1>8, UnchangedKeeps DEF vars, elsewhere
<1> QED
  BY <1>1, <1>2, <1>3, <1>4, <1>5, <1>6, <1>7, <1>8 DEF Next

\* The inductive invariant holds in every behaviour.
THEOREM SharingInvariant == Spec => []IInv
BY InvInit, InvNext, PTL DEF Spec

-----------------------------------------------------------------------------

\* A file nobody damaged is one that was published whole (write_image writes
\* beside the path and renames), whenever a command dies or is refused.
THEOREM NeverHalf == Spec => []PathNeverHalf
<1>1. IInv => PathNeverHalf
  BY WholeIsReadable DEF IInv, PathOK, PathNeverHalf
<1> QED
  BY <1>1, SharingInvariant, PTL

\* What read_image accepts, with the digest of the manifest still there, is the
\* state that was published and bytes published with it.
THEOREM OnlyWrittenIsRead == Spec => []ReadIsWritten
<1>1. IInv => ReadIsWritten
  BY DEF IInv, PathOK, ReadIsWritten, Readable, From, Whole
<1> QED
  BY <1>1, SharingInvariant, PTL

\* An import that returned has brought the state and every artifact that the
\* manifest does not call external and that was not lost on the way.
THEOREM ImportsAreComplete == Spec => []ArtifactsArrive
<1>1. IInv => ArtifactsArrive
  BY DEF IInv, AwayOK
<1> QED
  BY <1>1, SharingInvariant, PTL

-----------------------------------------------------------------------------
(* Sequences *)

LEMMA SequenceFacts ==
    ASSUME NEW s, IsSequence(s)
    PROVE  /\ Len(s) \in Nat /\ DOMAIN s = 1 .. Len(s)
           /\ s = [i \in 1 .. Len(s) |-> s[i]]
           /\ \A i \in DOMAIN s : s[i] \in ToSet(s)
<1> DEFINE E == ToSet(s)
<1>1. \A i \in DOMAIN s : s[i] \in E
  BY DEF ToSet
<1>2. s \in Seq(E)
  BY DEF IsSequence
<1> HIDE DEF E
<1>3. Len(s) \in Nat /\ DOMAIN s = 1 .. Len(s) /\ s = [i \in 1 .. Len(s) |-> s[i]]
  BY <1>2
<1> QED
  BY <1>1, <1>3 DEF E

LEMMA InSeq ==
    ASSUME NEW E, NEW s \in Seq(E)
    PROVE  IsSequence(s)
<1>1. \A i \in 1 .. Len(s) : s[i] \in ToSet(s)
  BY DEF ToSet
<1>2. Len(s) \in Nat /\ s = [i \in 1 .. Len(s) |-> s[i]]
  OBVIOUS
<1> QED
  BY <1>1, <1>2 DEF IsSequence

LEMMA IsASequence ==
    ASSUME NEW n \in Nat, NEW s, s = [i \in 1 .. n |-> s[i]]
    PROVE  IsSequence(s) /\ Len(s) = n
<1> DEFINE E == {s[i] : i \in 1 .. n}
<1>1. s \in Seq(E) /\ Len(s) = n
  OBVIOUS
<1> HIDE DEF E
<1> QED
  BY <1>1, InSeq

LEMMA AppendFacts ==
    ASSUME NEW s, IsSequence(s), NEW x
    PROVE  LET t == Append(s, x)
           IN /\ IsSequence(t)
              /\ Len(t) = Len(s) + 1 /\ DOMAIN t = 1 .. (Len(s) + 1)
              /\ t[Len(s) + 1] = x /\ \A i \in DOMAIN s : t[i] = s[i]
<1> DEFINE E == ToSet(s) \cup {x}
           t == Append(s, x)
<1>1. s \in Seq(E)
  <2>1. /\ Len(s) \in Nat /\ s = [i \in 1 .. Len(s) |-> s[i]]
        /\ \A i \in 1 .. Len(s) : s[i] \in E
    BY SequenceFacts
  <2> HIDE DEF E
  <2> QED
    BY <2>1
<1>2. x \in E
  OBVIOUS
<1> HIDE DEF E
<1>3. /\ t \in Seq(E)
      /\ Len(t) = Len(s) + 1 /\ DOMAIN t = 1 .. (Len(s) + 1)
      /\ t[Len(s) + 1] = x /\ \A i \in DOMAIN s : t[i] = s[i]
  BY <1>1, <1>2
<1>4. IsSequence(t)
  BY <1>3, InSeq
<1> QED
  BY <1>3, <1>4

LEMMA EmptyIs == IsSequence(<<>>) /\ Len(<<>>) = 0 /\ DOMAIN <<>> = {}
<1>1. <<>> \in Seq({}) /\ Len(<<>>) = 0 /\ DOMAIN <<>> = {}
  OBVIOUS
<1> QED
  BY <1>1, InSeq

LEMMA EmptyWhen ==
    ASSUME NEW s, IsSequence(s)
    PROVE  s = <<>> <=> Len(s) = 0
<1>1. s \in Seq(ToSet(s))
  BY DEF IsSequence
<1> QED
  BY <1>1

LEMMA ConcatFacts ==
    ASSUME NEW s, IsSequence(s), NEW t, IsSequence(t)
    PROVE  /\ IsSequence(s \o t)
           /\ Len(s \o t) = Len(s) + Len(t) /\ DOMAIN (s \o t) = 1 .. (Len(s) + Len(t))
           /\ \A i \in DOMAIN s : (s \o t)[i] = s[i]
           /\ \A i \in 1 .. Len(t) : \A k \in Nat :
                 k = Len(s) + i => (s \o t)[k] = t[i]
<1> DEFINE E == ToSet(s) \cup ToSet(t)
           u == s \o t
<1>1. s \in Seq(E)
  <2>1. /\ Len(s) \in Nat /\ s = [i \in 1 .. Len(s) |-> s[i]]
        /\ \A i \in 1 .. Len(s) : s[i] \in E
    BY SequenceFacts
  <2> HIDE DEF E
  <2> QED
    BY <2>1
<1>2. t \in Seq(E)
  <2>1. /\ Len(t) \in Nat /\ t = [i \in 1 .. Len(t) |-> t[i]]
        /\ \A i \in 1 .. Len(t) : t[i] \in E
    BY SequenceFacts
  <2> HIDE DEF E
  <2> QED
    BY <2>1
<1> HIDE DEF E
<1>3. u \in Seq(E) /\ Len(u) = Len(s) + Len(t)
  BY <1>1, <1>2
<1>4. /\ \A i \in DOMAIN s : u[i] = s[i]
      /\ \A i \in DOMAIN t : u[Len(s) + i] = t[i]
  BY <1>1, <1>2
<1> HIDE DEF u
<1>0. Len(s) \in Nat /\ Len(t) \in Nat /\ DOMAIN t = 1 .. Len(t)
  BY SequenceFacts
<1>5. IsSequence(u)
  BY <1>3, InSeq
<1>6. DOMAIN u = 1 .. (Len(s) + Len(t))
  BY <1>3, <1>5, SequenceFacts
<1> QED
  BY <1>0, <1>3, <1>4, <1>5, <1>6 DEF u

LEMMA OneIs ==
    ASSUME NEW p
    PROVE  IsSequence(<<p>>) /\ Len(<<p>>) = 1 /\ DOMAIN <<p>> = {1} /\ <<p>>[1] = p
<1>1. <<p>> \in Seq({p}) /\ Len(<<p>>) = 1 /\ DOMAIN <<p>> = {1} /\ <<p>>[1] = p
  OBVIOUS
<1> QED
  BY <1>1, InSeq

LEMMA TwoIs ==
    ASSUME NEW p, NEW q
    PROVE  /\ IsSequence(<<p, q>>) /\ Len(<<p, q>>) = 2 /\ DOMAIN <<p, q>> = {1, 2}
           /\ <<p, q>>[1] = p /\ <<p, q>>[2] = q
<1>1. /\ <<p, q>> \in Seq({p, q}) /\ Len(<<p, q>>) = 2 /\ DOMAIN <<p, q>> = {1, 2}
      /\ <<p, q>>[1] = p /\ <<p, q>>[2] = q
  OBVIOUS
<1> QED
  BY <1>1, InSeq

-----------------------------------------------------------------------------
(* Selecting entries *)

\* d has the entries of s at S, each once and in their order.
Ordered(d, s, S) ==
    \E index \in [DOMAIN d -> S] :
       /\ \A i, j \in DOMAIN d : i < j => index[i] < index[j]
       /\ \A i \in DOMAIN d : d[i] = s[index[i]]
       /\ \A x \in S : \E i \in DOMAIN d : index[i] = x

LEMMA OrderedNext ==
    ASSUME NEW s, IsSequence(s), NEW k \in DOMAIN s, NEW S \in SUBSET (1 .. (k - 1)),
           NEW d, IsSequence(d), Ordered(d, s, S)
    PROVE  Ordered(Append(d, s[k]), s, S \cup {k})
<1> DEFINE e == Append(d, s[k])
           n == Len(d)
<1>1. /\ n \in Nat /\ DOMAIN d = 1 .. n /\ DOMAIN e = 1 .. (n + 1)
      /\ e[n + 1] = s[k] /\ \A i \in DOMAIN d : e[i] = d[i]
  BY AppendFacts, SequenceFacts
<1>2. k \in Nat /\ \A x \in S : x \in Nat /\ x < k
  BY SequenceFacts
<1>3. PICK index \in [DOMAIN d -> S] :
         /\ \A i, j \in DOMAIN d : i < j => index[i] < index[j]
         /\ \A i \in DOMAIN d : d[i] = s[index[i]]
         /\ \A x \in S : \E i \in DOMAIN d : index[i] = x
  BY DEF Ordered
<1> HIDE DEF e, n
<1> DEFINE f == [i \in DOMAIN e |-> IF i = n + 1 THEN k ELSE index[i]]
<1>4. /\ f \in [DOMAIN e -> S \cup {k}] /\ f[n + 1] = k
      /\ \A i \in DOMAIN d : i \in DOMAIN e /\ f[i] = index[i] /\ f[i] \in S
  BY <1>1, <1>3
<1> HIDE DEF f
<1>5. ASSUME NEW i \in DOMAIN e, NEW j \in DOMAIN e, i < j PROVE f[i] < f[j]
  <2>1. i \in DOMAIN d /\ (j \in DOMAIN d \/ j = n + 1)
    BY <1>1, <1>5
  <2> QED
    BY <1>2, <1>3, <1>4, <1>5, <2>1
<1>6. ASSUME NEW i \in DOMAIN e PROVE e[i] = s[f[i]]
  <2>1. i \in DOMAIN d \/ i = n + 1
    BY <1>1
  <2> QED
    BY <1>1, <1>3, <1>4, <2>1
<1>7. ASSUME NEW x \in S \cup {k} PROVE \E i \in DOMAIN e : f[i] = x
  <2>1. CASE x = k
    BY <1>1, <1>4, <2>1
  <2>2. CASE x \in S
    BY <1>3, <1>4, <2>2
  <2> QED
    BY <2>1, <2>2
<1> QED
  BY <1>4, <1>5, <1>6, <1>7 DEF Ordered, e

\* Selected goes through the entries from the first to the last.
Selecting(g, s, C) ==
    /\ g[0] = <<>>
    /\ \A k \in DOMAIN s :
          g[k] = IF k \in C THEN Append(g[k - 1], s[k]) ELSE g[k - 1]

LEMMA SelectedSteps ==
    ASSUME NEW s, IsSequence(s), NEW C
    PROVE  \E g : Selecting(g, s, C) /\ g[Len(s)] = Selected(s, C)
<1> DEFINE n == Len(s)
           D == 0 .. n
           V == Seq(ToSet(s))
           Body(f, k) == IF k = 0 THEN <<>>
                         ELSE IF k \in C THEN Append(f[k - 1], s[k]) ELSE f[k - 1]
           m == [k \in D |-> k]
           next == [k \in D |-> k - 1]
           op == [r \in D \X V |->
                     IF r[1] \in C \cap DOMAIN s THEN Append(r[2], s[r[1]]) ELSE r[2]]
           iter == CHOOSE f : f = [k \in D |-> Body(f, k)]
<1>1. /\ n \in Nat /\ DOMAIN s = 1 .. n /\ 0 \in D /\ n \in D
      /\ \A k \in D \ {0} : k \in DOMAIN s /\ k - 1 \in D
  BY SequenceFacts
<1>2. Selected(s, C) = iter[n]
  BY DEF Selected
<1>3. \E f : f = [k \in D |-> Body(f, k)]
  <2>1. m \in [D -> 0 .. n] /\ \A k \in D \ {0} : next[k] \in D /\ m[next[k]] < m[k]
    BY <1>1
  <2>2. op \in [D \X V -> V]
    <3>1. ASSUME NEW v \in V, NEW k \in DOMAIN s PROVE Append(v, s[k]) \in V
      <4>1. s[k] \in ToSet(s)
        BY DEF ToSet
      <4> QED
        BY <4>1
    <3> HIDE DEF V, D
    <3> QED
      BY <3>1
  <2>3. <<>> \in V
    OBVIOUS
  <2> HIDE DEF V, D, m, next, op, n
  <2>4. PICK f \in [D -> V] : Asks(f, D, {0}, <<>>, next, op)
    BY <1>1, <2>1, <2>2, <2>3, Unfolds
  <2>5. ASSUME NEW k \in D PROVE f[k] = Body(f, k)
    <3>1. CASE k = 0
      BY <2>4, <3>1 DEF Asks
    <3>2. CASE k # 0
      <4>1. k \in DOMAIN s /\ next[k] = k - 1 /\ f[k - 1] \in V
        BY <1>1, <3>2 DEF next
      <4>2. f[k] = op[<<k, f[k - 1]>>]
        BY <2>4, <3>2, <4>1 DEF Asks
      <4> QED
        BY <3>2, <4>1, <4>2 DEF op
    <3> QED
      BY <3>1, <3>2
  <2>6. f = [k \in D |-> Body(f, k)]
    <3> HIDE DEF Body
    <3> QED
      BY <2>5
  <2> QED
    BY <2>6
<1>4. iter = [k \in D |-> Body(iter, k)]
  <2> HIDE DEF Body
  <2> QED
    BY <1>3
<1> HIDE DEF iter
<1>5. Selecting(iter, s, C)
  <2>1. iter[0] = <<>>
    BY <1>1, <1>4
  <2>2. ASSUME NEW k \in DOMAIN s
        PROVE  iter[k] = IF k \in C THEN Append(iter[k - 1], s[k]) ELSE iter[k - 1]
    <3>1. k \in D /\ k # 0
      BY <1>1
    <3>2. iter[k] = Body(iter, k)
      <4> HIDE DEF Body
      <4> QED
        BY <1>4, <3>1
    <3> QED
      BY <3>1, <3>2
  <2> QED
    BY <2>1, <2>2 DEF Selecting
<1> QED
  BY <1>2, <1>5

LEMMA SelectedFacts ==
    ASSUME NEW s, IsSequence(s), NEW C
    PROVE  LET d == Selected(s, C)
           IN /\ IsSequence(d)
              /\ Len(d) <= Len(s)
              /\ Len(d) = Len(s) => d = s
              /\ Ordered(d, s, C \cap DOMAIN s)
<1> DEFINE n == Len(s)
<1>1. n \in Nat /\ DOMAIN s = 1 .. n /\ s = [i \in 1 .. n |-> s[i]]
  BY SequenceFacts
<1>2. PICK g : Selecting(g, s, C) /\ g[n] = Selected(s, C)
  BY SelectedSteps
<1> DEFINE OK(k) == /\ IsSequence(g[k]) /\ Len(g[k]) <= k
                    /\ Len(g[k]) = k => \A i \in 1 .. k : g[k][i] = s[i]
                    /\ Ordered(g[k], s, C \cap (1 .. k))
           T == {k \in 0 .. n : OK(k)}
<1> HIDE DEF n
<1>3. OK(0)
  <2>1. g[0] = <<>> /\ C \cap (1 .. 0) = {}
    BY <1>2 DEF Selecting
  <2>2. Ordered(<<>>, s, {})
    <3> DEFINE f == [i \in DOMAIN <<>> |-> 0]
    <3>1. f \in [DOMAIN <<>> -> {}]
      OBVIOUS
    <3> QED
      BY <3>1 DEF Ordered
  <2> QED
    BY <2>1, <2>2, EmptyIs
<1>4. ASSUME NEW k \in 0 .. (n - 1), OK(k) PROVE OK(k + 1)
  <2> DEFINE j == k + 1
             d == g[k]
  <2>1. /\ j \in DOMAIN s /\ j - 1 = k /\ j \in Nat /\ k \in Nat /\ IsSequence(d)
        /\ Len(d) \in Nat /\ Len(d) <= k
    BY <1>1, <1>4, SequenceFacts
  <2>2. g[j] = IF j \in C THEN Append(d, s[j]) ELSE d
    BY <1>2, <2>1 DEF Selecting
  <2>3. CASE j \notin C
    <3>1. C \cap (1 .. j) = C \cap (1 .. k)
      BY <2>1, <2>3
    <3>2. g[j] = d /\ Len(d) <= j /\ Len(d) # j
      BY <2>1, <2>2, <2>3
    <3> QED
      BY <1>4, <3>1, <3>2
  <2>4. CASE j \in C
    <3>1. C \cap (1 .. j) = (C \cap (1 .. k)) \cup {j} /\ C \cap (1 .. k) \in SUBSET (1 .. (j - 1))
      BY <2>1, <2>4
    <3>2. Ordered(g[j], s, C \cap (1 .. j))
      BY <1>4, <2>1, <2>2, <2>4, <3>1, OrderedNext
    <3>3. /\ IsSequence(g[j]) /\ Len(g[j]) = Len(d) + 1
          /\ g[j][Len(d) + 1] = s[j] /\ \A i \in DOMAIN d : g[j][i] = d[i]
      BY <2>1, <2>2, <2>4, AppendFacts
    <3>4. Len(g[j]) = j => \A i \in 1 .. j : g[j][i] = s[i]
      <4> SUFFICES ASSUME Len(d) = k, NEW i \in 1 .. j PROVE g[j][i] = s[i]
        BY <2>1, <3>3
      <4>1. DOMAIN d = 1 .. k /\ \A l \in 1 .. k : d[l] = s[l]
        BY <1>4, SequenceFacts
      <4>2. i \in 1 .. k \/ i = j
        BY <2>1
      <4> QED
        BY <3>3, <4>1, <4>2
    <3> QED
      BY <2>1, <3>2, <3>3, <3>4
  <2> QED
    BY <2>3, <2>4
<1>5. OK(n)
  <2> HIDE DEF OK
  <2>1. 0 \in T
    BY <1>1, <1>3
  <2>2. \A k \in 0 .. (n - 1) : k \in T => k + 1 \in T
    BY <1>1, <1>4
  <2>3. n \in T
    <3> HIDE DEF T
    <3> QED
      BY <1>1, <2>1, <2>2, Ascends
  <2> QED
    BY <2>3
<1>6. Len(g[n]) = n => g[n] = s
  <2>1. g[n] = [i \in 1 .. Len(g[n]) |-> g[n][i]]
    BY <1>5, SequenceFacts
  <2> QED
    BY <1>1, <1>5, <2>1
<1> QED
  BY <1>1, <1>2, <1>5, <1>6 DEF n

-----------------------------------------------------------------------------
(* Differences *)

LEMMA SubSeqFacts ==
    ASSUME NEW s, IsSequence(s), NEW m \in 0 .. Len(s), NEW n \in m .. Len(s)
    PROVE  LET t == SubSeq(s, m + 1, n)
           IN IsSequence(t) /\ Len(t) = n - m /\ \A i \in 1 .. (n - m) : t[i] = s[m + i]
<1> DEFINE E == ToSet(s)
           t == SubSeq(s, m + 1, n)
<1>1. s \in Seq(E) /\ Len(s) \in Nat
  BY SequenceFacts DEF IsSequence
<1> HIDE DEF E
<1>2. t \in Seq(E) /\ Len(t) = n - m
  BY <1>1
<1>3. \A i \in 1 .. (n - m) : t[i] = s[m + i]
  BY <1>1
<1>4. IsSequence(t)
  BY <1>2, InSeq
<1> QED
  BY <1>2, <1>3, <1>4

\* Sequences of one length with the same entries are one.
LEMMA SameSequence ==
    ASSUME NEW s, IsSequence(s), NEW t, IsSequence(t), Len(s) = Len(t),
           \A i \in 1 .. Len(s) : s[i] = t[i]
    PROVE  s = t
<1>1. s = [i \in 1 .. Len(s) |-> s[i]] /\ t = [i \in 1 .. Len(s) |-> t[i]]
  BY SequenceFacts
<1> QED
  BY <1>1

\* A delta over two steps is told by one of them, if no entry is lost on the way.
LEMMA DeltasAddUp ==
    ASSUME NEW f, NEW g, NEW h, DOMAIN f \subseteq DOMAIN g
    PROVE  /\ CollectionDelta(f, h).added \subseteq
                CollectionDelta(f, g).added \cup CollectionDelta(g, h).added
           /\ CollectionDelta(f, h).modified \subseteq
                CollectionDelta(f, g).modified \cup CollectionDelta(g, h).modified
BY DEF CollectionDelta

\* y goes on where x was: the history is longer, and no entry is gone.
Grown(x, y) ==
    /\ Len(x.events) <= Len(y.events)
    /\ \A i \in 1 .. Len(x.events) : y.events[i] = x.events[i]
    /\ Ids(x.memory) \subseteq Ids(y.memory)
    /\ Ids(x.artifacts) \subseteq Ids(y.artifacts)

LEMMA EventsOf ==
    ASSUME NEW x, Document(x)
    PROVE  /\ IsSequence(x.events) /\ Len(x.events) \in Nat
           /\ IsSequence(x.context) /\ Len(x.context) \in Nat
           /\ IsSequence(x.memory) /\ IsSequence(x.artifacts)
<1>1. IsSequence(x.events) /\ IsSequence(x.context) /\ IsSequence(x.memory)
      /\ IsSequence(x.artifacts)
  <2>1. /\ IsSequence(x["events"]) /\ IsSequence(x["context"]) /\ IsSequence(x["memory"])
        /\ IsSequence(x["artifacts"])
    BY DEF Document
  <2> QED
    BY <2>1
<1> QED
  BY <1>1, SequenceFacts

LEMMA GrownTwice ==
    ASSUME NEW x, Document(x), NEW y, Document(y), NEW z, Document(z),
           Grown(x, y), Grown(y, z)
    PROVE  Grown(x, z)
<1>1. Len(x.events) \in Nat /\ Len(y.events) \in Nat /\ Len(z.events) \in Nat
  BY EventsOf
<1> QED
  BY <1>1 DEF Grown

\* What a longer sequence has from one place on is what the shorter has, and the rest.
LEMMA SubSeqsAddUp ==
    ASSUME NEW s, IsSequence(s), NEW t, IsSequence(t),
           NEW a \in 0 .. Len(s), Len(s) <= Len(t),
           \A i \in 1 .. Len(s) : t[i] = s[i]
    PROVE  SubSeq(t, a + 1, Len(t)) = SubSeq(s, a + 1, Len(s)) \o SubSeq(t, Len(s) + 1, Len(t))
<1> DEFINE b == Len(s)
           c == Len(t)
           left == SubSeq(s, a + 1, b)
           right == SubSeq(t, b + 1, c)
           whole == SubSeq(t, a + 1, c)
           both == left \o right
<1>1. b \in Nat /\ c \in Nat /\ \A i \in 1 .. b : t[i] = s[i]
  BY SequenceFacts
<1>2. a \in 0 .. b /\ a \in Nat /\ b \in Nat /\ c \in Nat /\ b <= c
  BY <1>1
<1>3. IsSequence(left) /\ Len(left) = b - a /\ \A i \in 1 .. (b - a) : left[i] = s[a + i]
  <2>1. b \in a .. Len(s)
    BY <1>1
  <2> QED
    BY <2>1, SubSeqFacts
<1>4. IsSequence(right) /\ Len(right) = c - b
      /\ \A i \in 1 .. (c - b) : right[i] = t[b + i]
  <2> HIDE DEF b
  <2>1. b \in 0 .. Len(t) /\ c \in b .. Len(t)
    BY <1>1, <1>2
  <2> QED
    BY <2>1, SubSeqFacts
<1>5. IsSequence(whole) /\ Len(whole) = c - a
      /\ \A i \in 1 .. (c - a) : whole[i] = t[a + i]
  <2>1. a \in 0 .. Len(t) /\ c \in a .. Len(t)
    BY <1>1, <1>2
  <2> QED
    BY <2>1, SubSeqFacts
<1>6. IsSequence(left) /\ IsSequence(right)
  BY <1>3, <1>4
<1> HIDE DEF left, right, whole, b, c
<1>7. IsSequence(both) /\ Len(both) = Len(left) + Len(right)
      /\ \A i \in DOMAIN left : both[i] = left[i]
  BY <1>6, ConcatFacts
<1>8. \A i \in 1 .. Len(right) : \A k \in Nat : k = Len(left) + i => both[k] = right[i]
  BY <1>6, ConcatFacts
<1> HIDE DEF both
<1>9. Len(both) = c - a /\ DOMAIN left = 1 .. (b - a)
  <2>1. DOMAIN left = 1 .. (b - a)
    BY <1>3, SequenceFacts
  <2> QED
    BY <1>2, <1>3, <1>4, <1>7, <2>1
<1>10. ASSUME NEW i \in 1 .. (c - a) PROVE both[i] = whole[i]
  <2>0. i \in Nat
    OBVIOUS
  <2>1. CASE i <= b - a
    <3>1. i \in 1 .. (b - a) /\ a + i \in 1 .. b
      BY <1>2, <2>1
    <3> QED
      BY <1>1, <1>3, <1>5, <1>7, <1>9, <3>1
  <2>2. CASE i > b - a
    <3>1. PICK j \in 1 .. (c - b) : i = (b - a) + j /\ b + j = a + i
      <4>1. i - (b - a) \in 1 .. (c - b) /\ i = (b - a) + (i - (b - a))
            /\ b + (i - (b - a)) = a + i
        BY <1>2, <2>2
      <4> QED
        BY <4>1
    <3>2. both[i] = right[j]
      BY <1>3, <1>4, <1>8, <2>0, <3>1
    <3> QED
      BY <1>4, <1>5, <3>1, <3>2
  <2> QED
    BY <1>2, <2>0, <2>1, <2>2
<1>11. both = whole
  BY <1>5, <1>7, <1>9, <1>10, SameSequence
<1> QED
  BY <1>11 DEF left, right, whole, both, b, c

LEMMA EventsAddUp ==
    ASSUME NEW x, Document(x), NEW y, Document(y), NEW z, Document(z),
           Grown(x, y), Grown(y, z)
    PROVE  NewEvents(x, z) = NewEvents(x, y) \o NewEvents(y, z)
<1>1. /\ IsSequence(y.events) /\ IsSequence(z.events)
      /\ Len(x.events) \in 0 .. Len(y.events) /\ Len(y.events) <= Len(z.events)
      /\ \A i \in 1 .. Len(y.events) : z.events[i] = y.events[i]
  BY EventsOf DEF Grown
<1> QED
  BY <1>1, SubSeqsAddUp DEF NewEvents

Tells(x, y, z) ==
    LET diff == DiffStates(x, z)
        early == DiffStates(x, y)
        late == DiffStates(y, z)
    IN /\ diff.events = early.events \o late.events
       /\ diff.context = early.context + late.context
       /\ diff.scalars \subseteq early.scalars \cup late.scalars
       /\ diff.memory.added \subseteq early.memory.added \cup late.memory.added
       /\ \A delta \in {"memory", "artifacts"} :
             diff[delta].modified \subseteq early[delta].modified \cup late[delta].modified

LEMMA DiffsAddUp ==
    ASSUME NEW x, Document(x), NEW y, Document(y), NEW z, Document(z),
           Grown(x, y), Grown(y, z)
    PROVE  Tells(x, y, z)
<1> DEFINE diff == DiffStates(x, z)
           early == DiffStates(x, y)
           late == DiffStates(y, z)
<1>1. diff.events = early.events \o late.events
  BY EventsAddUp DEF DiffStates
<1>2. diff.context = early.context + late.context
  <2> DEFINE p == Len(x.context)
             q == Len(y.context)
             r == Len(z.context)
  <2>1. p \in Nat /\ q \in Nat /\ r \in Nat
    BY EventsOf
  <2>2. diff.context = r - p /\ early.context = q - p /\ late.context = r - q
    BY DEF DiffStates
  <2> HIDE DEF p, q, r, diff, early, late
  <2> QED
    BY <2>1, <2>2
<1>3. diff.scalars \subseteq early.scalars \cup late.scalars
  BY DEF DiffStates, ScalarChanges
<1>4. /\ diff.memory.added \subseteq early.memory.added \cup late.memory.added
      /\ diff.memory.modified \subseteq early.memory.modified \cup late.memory.modified
  <2>1. DOMAIN MemoryIdentity(x) \subseteq DOMAIN MemoryIdentity(y)
    BY DEF MemoryIdentity, Grown
  <2> QED
    BY <2>1, DeltasAddUp DEF DiffStates
<1>5. diff.artifacts.modified \subseteq early.artifacts.modified \cup late.artifacts.modified
  <2>1. DOMAIN ArtifactIdentity(x) \subseteq DOMAIN ArtifactIdentity(y)
    BY DEF ArtifactIdentity, Grown
  <2> QED
    BY <2>1, DeltasAddUp DEF DiffStates
<1>6. ASSUME NEW delta \in {"memory", "artifacts"}
      PROVE  diff[delta].modified \subseteq early[delta].modified \cup late[delta].modified
  <2> HIDE DEF diff, early, late
  <2> QED
    BY <1>4, <1>5
<1> QED
  BY <1>1, <1>2, <1>3, <1>4, <1>6 DEF Tells

\* A longer history is a difference.
LEMMA LongerDiffers ==
    ASSUME NEW x, Document(x), NEW y, Document(y), Len(x.events) < Len(y.events)
    PROVE  ~Empty(DiffStates(x, y))
<1>1. IsSequence(y.events) /\ Len(x.events) \in Nat /\ Len(y.events) \in Nat
  BY EventsOf
<1> DEFINE a == Len(x.events)
           b == Len(y.events)
           t == SubSeq(y.events, a + 1, b)
<1>2. IsSequence(t) /\ Len(t) = b - a
  <2> HIDE DEF a
  <2>1. a \in 0 .. Len(y.events) /\ b \in a .. Len(y.events)
    BY <1>1 DEF a
  <2> QED
    BY <1>1, <2>1, SubSeqFacts
<1>3. t # <<>>
  <2>1. a \in Nat /\ b \in Nat /\ a < b
    BY <1>1
  <2> HIDE DEF a, b, t
  <2>2. Len(t) # 0
    BY <1>2, <2>1
  <2> QED
    BY <2>2, EmptyIs
<1> QED
  BY <1>3 DEF Empty, DiffStates, NewEvents

-----------------------------------------------------------------------------
(* The checkpoints at home *)

\* A document is its ten sections.
Sections(x) ==
    [memory |-> x.memory, context |-> x.context, params |-> x.params,
     cursor |-> x.cursor, runtime_opaque |-> x.runtime_opaque,
     opaque |-> x.opaque, artifacts |-> x.artifacts, requires |-> x.requires,
     optional |-> x.optional, events |-> x.events]

IsEntry(entry) ==
    /\ entry = [id |-> entry.id, kind |-> entry.kind, content |-> entry.content,
                attributes |-> entry.attributes]
    /\ IsSequence(entry.content)

LEMMA DocumentIs ==
    ASSUME NEW x
    PROVE  Document(x) <=>
              /\ x = Sections(x)
              /\ IsSequence(x.memory) /\ IsSequence(x.context) /\ IsSequence(x.params)
              /\ IsSequence(x.cursor) /\ IsSequence(x.runtime_opaque)
              /\ IsSequence(x.artifacts) /\ IsSequence(x.events)
              /\ \A i \in DOMAIN x.memory : IsEntry(x.memory[i])
              /\ \A i \in DOMAIN x.context : IsSequence(x.context[i])
<1>1. (\A field \in {"memory", "context", "params", "cursor", "runtime_opaque",
                     "artifacts", "events"} : IsSequence(x[field]))
      <=> /\ IsSequence(x.memory) /\ IsSequence(x.context) /\ IsSequence(x.params)
          /\ IsSequence(x.cursor) /\ IsSequence(x.runtime_opaque)
          /\ IsSequence(x.artifacts) /\ IsSequence(x.events)
  OBVIOUS
<1> QED
  BY <1>1 DEF Document, Sections, IsEntry

\* What is valid depends on four sections.
LEMMA ValidSame ==
    ASSUME NEW x, NEW y, Valid(x), y.memory = x.memory, y.artifacts = x.artifacts,
           y.requires = x.requires, y.optional = x.optional
    PROVE  Valid(y)
<1>1. ArtifactIds(y) = ArtifactIds(x) /\ \A id : Parents(y, id) = Parents(x, id)
  BY DEF ArtifactIds, Parents
<1>2. ProvenanceOK(y) <=> ProvenanceOK(x)
  BY <1>1 DEF ProvenanceOK
<1> QED
  BY <1>2 DEF Valid

HistoryOK ==
    /\ IsSequence(states) /\ IsSequence(parent) /\ Len(parent) = Len(states)
    /\ \A k \in DOMAIN states :
          /\ Document(states[k]) /\ Valid(states[k])
          /\ states[k].events # <<>> /\ Last(states[k].events) # "state.sanitized"
          /\ parent[k] \in 0 .. k - 1
          /\ parent[k] # 0 =>
                /\ Grown(states[parent[k]], states[k])
                /\ Len(states[parent[k]].events) < Len(states[k].events)

LEMMA HistoryInit == Init => HistoryOK
<1> SUFFICES ASSUME Init PROVE HistoryOK
  OBVIOUS
<1>1. PICK x \in First : states = <<x>>
  BY DEF Init
<1>2. IsSequence(states) /\ Len(states) = 1 /\ DOMAIN states = {1} /\ states[1] = x
  <2>1. states \in Seq(First) /\ Len(states) = 1 /\ states[1] = x
    BY <1>1
  <2>2. IsSequence(states)
    BY <2>1, InSeq
  <2> QED
    BY <2>1, <2>2, SequenceFacts
<1>3. IsSequence(parent) /\ Len(parent) = 1 /\ parent[1] = 0
  <2>1. parent = <<0>> /\ parent \in Seq({0})
    BY DEF Init
  <2> QED
    BY <2>1, InSeq
<1>4. Document(x) /\ Valid(x) /\ x.events # <<>> /\ Last(x.events) # "state.sanitized"
  BY DocumentsAssumption
<1> QED
  BY <1>2, <1>3, <1>4 DEF HistoryOK

\* A checkpoint made from another one goes on where that was.
LEMMA CheckpointKeeps ==
    ASSUME HistoryOK, NEW i \in DOMAIN states, NEW x, Checkpoint(i, x),
           Document(x), x.events = states[i].events,
           Ids(states[i].memory) \subseteq Ids(x.memory),
           Ids(states[i].artifacts) \subseteq Ids(x.artifacts)
    PROVE  HistoryOK'
<1> DEFINE n == Len(states)
           y == [x EXCEPT !.events = Append(@, "worked")]
           s == states[i]
           e == Len(s.events)
<1>1. /\ n \in Nat /\ DOMAIN states = 1 .. n /\ IsSequence(states)
      /\ DOMAIN parent = 1 .. n /\ Len(parent) = n /\ IsSequence(parent)
      /\ i \in 1 .. n
  BY SequenceFacts DEF HistoryOK
<1>2. states' = Append(states, y) /\ parent' = Append(parent, i) /\ Valid(x)
  BY DEF Checkpoint
<1>3. /\ IsSequence(x.events) /\ e \in Nat
      /\ \A j \in DOMAIN s.events : j \in 1 .. e
      /\ DOMAIN s.events = 1 .. e
  BY DocumentIs, SequenceFacts
<1>4. /\ IsSequence(y.events) /\ Len(y.events) = e + 1
      /\ y.events[e + 1] = "worked" /\ \A j \in 1 .. e : y.events[j] = s.events[j]
      /\ y.events = Append(x.events, "worked")
  <2>1. y.events = Append(x.events, "worked")
    BY DocumentIs DEF Sections
  <2> QED
    BY <1>3, <2>1, AppendFacts
<1>5. Document(y) /\ Valid(y)
  <2>1. /\ y = Sections(y) /\ y.memory = x.memory /\ y.context = x.context
        /\ y.params = x.params /\ y.cursor = x.cursor /\ y.artifacts = x.artifacts
        /\ y.runtime_opaque = x.runtime_opaque /\ y.requires = x.requires
        /\ y.optional = x.optional
    BY DocumentIs DEF Sections
  <2> HIDE DEF y
  <2>2. Document(y)
    BY <1>4, <2>1, DocumentIs
  <2>3. Valid(y)
    BY <1>2, <2>1, ValidSame
  <2> QED
    BY <2>2, <2>3
<1>6. Grown(s, y) /\ Len(s.events) < Len(y.events)
  <2>1. y.memory = x.memory /\ y.artifacts = x.artifacts
    BY DocumentIs DEF Sections
  <2> HIDE DEF y
  <2> QED
    BY <1>3, <1>4, <2>1 DEF Grown
<1>7. y.events # <<>> /\ Last(y.events) # "state.sanitized"
  <2>1. Len(y.events) # 0 /\ Last(y.events) = "worked"
    BY <1>3, <1>4 DEF Last
  <2> QED
    BY <2>1, EmptyIs
<1> HIDE DEF y, s, e
<1>8. /\ IsSequence(states') /\ Len(states') = n + 1 /\ DOMAIN states' = 1 .. (n + 1)
      /\ states'[n + 1] = y /\ \A k \in 1 .. n : states'[k] = states[k]
  BY <1>1, <1>2, AppendFacts
<1>9. /\ IsSequence(parent') /\ Len(parent') = n + 1
      /\ parent'[n + 1] = i /\ \A k \in 1 .. n : parent'[k] = parent[k]
  BY <1>1, <1>2, AppendFacts
<1> HIDE DEF n
<1>10. ASSUME NEW k \in 1 .. (n + 1)
       PROVE  /\ Document(states'[k]) /\ Valid(states'[k])
              /\ states'[k].events # <<>> /\ Last(states'[k].events) # "state.sanitized"
              /\ parent'[k] \in 0 .. k - 1
              /\ parent'[k] # 0 =>
                    /\ Grown(states'[parent'[k]], states'[k])
                    /\ Len(states'[parent'[k]].events) < Len(states'[k].events)
  <2>1. CASE k \in 1 .. n
    <3>1. /\ Document(states[k]) /\ Valid(states[k])
          /\ states[k].events # <<>> /\ Last(states[k].events) # "state.sanitized"
          /\ parent[k] \in 0 .. k - 1
          /\ parent[k] # 0 =>
                /\ Grown(states[parent[k]], states[k])
                /\ Len(states[parent[k]].events) < Len(states[k].events)
      BY <1>1, <2>1 DEF HistoryOK
    <3>2. parent[k] # 0 => parent[k] \in 1 .. n
      BY <1>1, <2>1, <3>1
    <3> QED
      BY <1>8, <1>9, <2>1, <3>1, <3>2
  <2>2. CASE k = n + 1
    <3>1. i \in 0 .. k - 1
      BY <1>1, <2>2
    <3> QED
      BY <1>1, <1>5, <1>6, <1>7, <1>8, <1>9, <2>2, <3>1 DEF s
  <2> QED
    BY <1>1, <2>1, <2>2
<1> QED
  BY <1>8, <1>9, <1>10 DEF HistoryOK

LEMMA StateIs ==
    ASSUME HistoryOK, NEW i \in DOMAIN states
    PROVE  /\ Document(states[i])
           /\ IsSequence(states[i].memory) /\ IsSequence(states[i].artifacts)
           /\ IsSequence(states[i].context)
           /\ states[i] = Sections(states[i])
BY DocumentIs DEF HistoryOK

LEMMA RememberKeeps ==
    ASSUME HistoryOK, NEW i \in DOMAIN states, NEW kind, NEW text \in Texts,
           Remember(i, kind, text)
    PROVE  HistoryOK'
<1> DEFINE s == states[i]
           entry == [id |-> Len(s.memory) + 1, kind |-> kind, content |-> text,
                     attributes |-> text]
           memory == Append(s.memory, entry)
           x == [s EXCEPT !.memory = memory]
<1>1. Document(s) /\ IsSequence(s.memory) /\ s = Sections(s)
  BY StateIs
<1>2. Checkpoint(i, x)
  BY DEF Remember
<1>3. /\ x = Sections(x) /\ x.memory = memory /\ x.context = s.context
      /\ x.params = s.params /\ x.cursor = s.cursor /\ x.artifacts = s.artifacts
      /\ x.runtime_opaque = s.runtime_opaque /\ x.events = s.events
  BY <1>1 DEF Sections
<1>4. IsEntry(entry)
  BY DocumentsAssumption DEF IsEntry
<1> HIDE DEF x, s, entry
<1>5. /\ IsSequence(memory) /\ DOMAIN memory = 1 .. (Len(s.memory) + 1)
      /\ memory[Len(s.memory) + 1] = entry /\ \A j \in DOMAIN s.memory : memory[j] = s.memory[j]
      /\ Len(s.memory) \in Nat /\ DOMAIN s.memory = 1 .. Len(s.memory)
  BY <1>1, AppendFacts, SequenceFacts
<1> HIDE DEF memory
<1>6. ASSUME NEW j \in DOMAIN memory PROVE IsEntry(memory[j])
  <2>1. j \in DOMAIN s.memory \/ j = Len(s.memory) + 1
    BY <1>5
  <2>2. \A k \in DOMAIN s.memory : IsEntry(s.memory[k])
    BY <1>1, DocumentIs
  <2> QED
    BY <1>4, <1>5, <2>1, <2>2
<1>7. Document(x)
  BY <1>1, <1>3, <1>5, <1>6, DocumentIs
<1>8. Ids(s.memory) \subseteq Ids(x.memory) /\ Ids(s.artifacts) \subseteq Ids(x.artifacts)
  BY <1>3, <1>5 DEF Ids
<1> QED
  BY <1>2, <1>3, <1>7, <1>8, CheckpointKeeps DEF s

LEMMA ReviseKeeps ==
    ASSUME HistoryOK, NEW i \in DOMAIN states, NEW text \in Texts, Revise(i, text)
    PROVE  HistoryOK'
<1> DEFINE s == states[i]
           x == [s EXCEPT !.memory[1].content = text]
<1>1. Document(s) /\ IsSequence(s.memory) /\ s = Sections(s)
  BY StateIs
<1>2. Checkpoint(i, x) /\ s.memory # <<>>
  BY DEF Revise
<1>3. 1 \in DOMAIN s.memory /\ Len(s.memory) \in Nat
      /\ s.memory = [j \in 1 .. Len(s.memory) |-> s.memory[j]]
  <2>1. Len(s.memory) # 0
    BY <1>1, <1>2, EmptyWhen
  <2> QED
    BY <1>1, <2>1, SequenceFacts
<1>4. /\ x = Sections(x) /\ x.context = s.context
      /\ x.params = s.params /\ x.cursor = s.cursor /\ x.artifacts = s.artifacts
      /\ x.runtime_opaque = s.runtime_opaque /\ x.events = s.events
  BY <1>1 DEF Sections
<1>5. x.memory = [s.memory EXCEPT ![1].content = text]
  BY <1>1 DEF Sections
<1> HIDE DEF x, s
<1>6. /\ DOMAIN x.memory = DOMAIN s.memory
      /\ x.memory[1] = [s.memory[1] EXCEPT !.content = text]
      /\ \A j \in DOMAIN s.memory : j # 1 => x.memory[j] = s.memory[j]
      /\ x.memory = [j \in DOMAIN s.memory |-> x.memory[j]]
  BY <1>3, <1>5
<1>7. IsSequence(x.memory)
  <2>1. DOMAIN s.memory = 1 .. Len(s.memory)
    BY <1>3
  <2> QED
    BY <1>3, <1>6, <2>1, IsASequence
<1>8. \A j \in DOMAIN s.memory : IsEntry(s.memory[j])
  BY <1>1, DocumentIs
<1>9. IsEntry(x.memory[1]) /\ x.memory[1].id = s.memory[1].id
  <2>1. IsEntry(s.memory[1]) /\ IsSequence(text)
    BY <1>3, <1>8, DocumentsAssumption
  <2> QED
    BY <1>6, <2>1 DEF IsEntry
<1>10. \A j \in DOMAIN x.memory : IsEntry(x.memory[j])
  BY <1>6, <1>8, <1>9
<1>11. Document(x)
  BY <1>1, <1>4, <1>7, <1>10, DocumentIs
<1>12. Ids(s.memory) \subseteq Ids(x.memory) /\ Ids(s.artifacts) \subseteq Ids(x.artifacts)
  <2>1. \A j \in DOMAIN s.memory : j \in DOMAIN x.memory /\ x.memory[j].id = s.memory[j].id
    BY <1>6, <1>9
  <2> QED
    BY <1>4, <2>1 DEF Ids
<1> QED
  BY <1>2, <1>4, <1>11, <1>12, CheckpointKeeps DEF s

LEMMA SayKeeps ==
    ASSUME HistoryOK, NEW i \in DOMAIN states, NEW text \in Texts, Say(i, text)
    PROVE  HistoryOK'
<1> DEFINE s == states[i]
           context == Append(s.context, text)
           x == [s EXCEPT !.context = context]
<1>1. Document(s) /\ IsSequence(s.context) /\ s = Sections(s)
  BY StateIs
<1>2. Checkpoint(i, x)
  BY DEF Say
<1>3. /\ x = Sections(x) /\ x.memory = s.memory /\ x.context = context
      /\ x.params = s.params /\ x.cursor = s.cursor /\ x.artifacts = s.artifacts
      /\ x.runtime_opaque = s.runtime_opaque /\ x.events = s.events
  BY <1>1 DEF Sections
<1> HIDE DEF x, s
<1>4. /\ IsSequence(context) /\ DOMAIN context = 1 .. (Len(s.context) + 1)
      /\ context[Len(s.context) + 1] = text
      /\ \A j \in DOMAIN s.context : context[j] = s.context[j]
      /\ Len(s.context) \in Nat /\ DOMAIN s.context = 1 .. Len(s.context)
  BY <1>1, AppendFacts, SequenceFacts
<1> HIDE DEF context
<1>5. ASSUME NEW j \in DOMAIN context PROVE IsSequence(context[j])
  <2>1. j \in DOMAIN s.context \/ j = Len(s.context) + 1
    BY <1>4
  <2>2. \A k \in DOMAIN s.context : IsSequence(s.context[k])
    BY <1>1, DocumentIs
  <2> QED
    BY <1>4, <2>1, <2>2, DocumentsAssumption
<1>6. Document(x)
  BY <1>1, <1>3, <1>4, <1>5, DocumentIs
<1> QED
  BY <1>2, <1>3, <1>6, CheckpointKeeps DEF s

LEMMA KeepKeeps ==
    ASSUME HistoryOK, NEW i \in DOMAIN states,
           NEW field \in {"params", "cursor", "runtime_opaque", "opaque"},
           NEW text \in Settings, Keep(i, field, text)
    PROVE  HistoryOK'
<1> DEFINE s == states[i]
           x == [s EXCEPT ![field] = text]
<1>1. Document(s) /\ s = Sections(s)
  BY StateIs
<1>2. Checkpoint(i, x)
  BY DEF Keep
<1>3. /\ x = Sections(x) /\ x.memory = s.memory /\ x.context = s.context
      /\ x.artifacts = s.artifacts /\ x.events = s.events
      /\ x.params \in {s.params, text} /\ x.cursor \in {s.cursor, text}
      /\ x.runtime_opaque \in {s.runtime_opaque, text}
  <2>1. CASE field = "params"
    <3>1. x = [s EXCEPT !.params = text]
      BY <2>1
    <3> HIDE DEF x, s
    <3> QED
      BY <1>1, <3>1 DEF Sections
  <2>2. CASE field = "cursor"
    <3>1. x = [s EXCEPT !.cursor = text]
      BY <2>2
    <3> HIDE DEF x, s
    <3> QED
      BY <1>1, <3>1 DEF Sections
  <2>3. CASE field = "runtime_opaque"
    <3>1. x = [s EXCEPT !.runtime_opaque = text]
      BY <2>3
    <3> HIDE DEF x, s
    <3> QED
      BY <1>1, <3>1 DEF Sections
  <2>4. CASE field = "opaque"
    <3>1. x = [s EXCEPT !.opaque = text]
      BY <2>4
    <3> HIDE DEF x, s
    <3> QED
      BY <1>1, <3>1 DEF Sections
  <2> QED
    BY <2>1, <2>2, <2>3, <2>4
<1> HIDE DEF x, s
<1>4. Document(x)
  BY <1>1, <1>3, DocumentIs, DocumentsAssumption
<1> QED
  BY <1>2, <1>3, <1>4, CheckpointKeeps DEF s

LEMMA RequireKeeps ==
    ASSUME HistoryOK, NEW i \in DOMAIN states, NEW name, Require(i, name)
    PROVE  HistoryOK'
<1> DEFINE s == states[i]
           x == [s EXCEPT !.requires = @ \cup {name}]
<1>1. Document(s) /\ s = Sections(s)
  BY StateIs
<1>2. Checkpoint(i, x)
  BY DEF Require
<1>3. /\ x = Sections(x) /\ x.memory = s.memory /\ x.context = s.context
      /\ x.params = s.params /\ x.cursor = s.cursor /\ x.artifacts = s.artifacts
      /\ x.runtime_opaque = s.runtime_opaque /\ x.events = s.events
  BY <1>1 DEF Sections
<1> HIDE DEF x, s
<1>4. Document(x)
  BY <1>1, <1>3, DocumentIs
<1> QED
  BY <1>2, <1>3, <1>4, CheckpointKeeps DEF s

\* An artifact that replaces one of its id loses none.
LEMMA ProduceKeeps ==
    ASSUME HistoryOK, NEW i \in DOMAIN states, NEW id, NEW content, NEW digest,
           NEW from, Produce(i, id, content, digest, from)
    PROVE  HistoryOK'
<1> DEFINE s == states[i]
           others == {k \in DOMAIN s.artifacts : s.artifacts[k].id # id}
           kept == Selected(s.artifacts, others)
           new == [id |-> id, digest |-> digest, derived_from |-> from]
           artifacts == Append(kept, new)
           x == [s EXCEPT !.artifacts = artifacts]
<1>1. Document(s) /\ s = Sections(s) /\ IsSequence(s.artifacts)
  BY StateIs
<1>2. Checkpoint(i, x)
  BY DEF Produce
<1> HIDE DEF artifacts, s
<1>3. /\ x = Sections(x) /\ x.memory = s.memory /\ x.context = s.context
      /\ x.params = s.params /\ x.cursor = s.cursor /\ x.artifacts = artifacts
      /\ x.runtime_opaque = s.runtime_opaque /\ x.events = s.events
  BY <1>1 DEF Sections
<1> HIDE DEF x
<1>4. IsSequence(kept) /\ Ordered(kept, s.artifacts, others)
  <2>1. others \cap DOMAIN s.artifacts = others
    OBVIOUS
  <2> HIDE DEF others
  <2> QED
    BY <1>1, <2>1, SelectedFacts
<1> HIDE DEF kept
<1>5. /\ IsSequence(artifacts) /\ DOMAIN artifacts = 1 .. (Len(kept) + 1)
      /\ artifacts[Len(kept) + 1] = new /\ \A j \in DOMAIN kept : artifacts[j] = kept[j]
      /\ Len(kept) \in Nat /\ DOMAIN kept = 1 .. Len(kept)
  BY <1>4, AppendFacts, SequenceFacts DEF artifacts
<1>6. Document(x)
  BY <1>1, <1>3, <1>5, DocumentIs
<1>7. ASSUME NEW k \in DOMAIN s.artifacts
      PROVE  \E j \in DOMAIN artifacts : artifacts[j].id = s.artifacts[k].id
  <2>1. CASE s.artifacts[k].id = id
    BY <1>5, <2>1
  <2>2. CASE s.artifacts[k].id # id
    <3>1. k \in others
      BY <2>2
    <3>2. PICK j \in DOMAIN kept : kept[j] = s.artifacts[k]
      BY <1>4, <3>1 DEF Ordered
    <3> QED
      BY <1>5, <3>2
  <2> QED
    BY <2>1, <2>2
<1>8. Ids(s.memory) \subseteq Ids(x.memory) /\ Ids(s.artifacts) \subseteq Ids(x.artifacts)
  BY <1>3, <1>7 DEF Ids
<1> QED
  BY <1>2, <1>3, <1>6, <1>8, CheckpointKeeps DEF s

LEMMA WorkKeeps ==
    ASSUME HistoryOK, NEW i \in DOMAIN states, Work(i)
    PROVE  HistoryOK'
BY RememberKeeps, ReviseKeeps, SayKeeps, KeepKeeps, RequireKeeps, ProduceKeeps DEF Work

-----------------------------------------------------------------------------
(* Lines of descent *)

LEMMA LineSteps ==
    ASSUME HistoryOK
    PROVE  Line(0) = {} /\ \A k \in DOMAIN states : Line(k) = {k} \cup Line(parent[k])
<1> DEFINE n == Len(states)
           D == 0 .. n
           V == SUBSET D
           Body(f, i) == IF i = 0 THEN {} ELSE {i} \cup f[parent[i]]
           m == [i \in D |-> i]
           op == [r \in D \X V |-> {r[1]} \cup r[2]]
           up == CHOOSE f : f = [i \in D |-> Body(f, i)]
<1>1. /\ n \in Nat /\ DOMAIN states = 1 .. n /\ 0 \in D
      /\ \A i \in D \ {0} : i \in 1 .. n
      /\ \A i \in 1 .. n : i \in D /\ i # 0 /\ parent[i] \in D /\ parent[i] < i
  <2>1. n \in Nat /\ DOMAIN states = 1 .. n
    BY SequenceFacts DEF HistoryOK
  <2>2. ASSUME NEW i \in 1 .. n PROVE parent[i] \in D /\ parent[i] < i
    <3>1. parent[i] \in 0 .. i - 1
      BY <2>1 DEF HistoryOK
    <3> QED
      BY <2>1, <3>1
  <2> HIDE DEF n
  <2> QED
    BY <2>1, <2>2
<1>2. \A k : Line(k) = up[k]
  BY DEF Line
<1>3. \E f : f = [i \in D |-> Body(f, i)]
  <2>1. m \in [D -> 0 .. n] /\ \A i \in D \ {0} : parent[i] \in D /\ m[parent[i]] < m[i]
    BY <1>1
  <2>2. op \in [D \X V -> V]
    OBVIOUS
  <2>3. {} \in V
    OBVIOUS
  <2> HIDE DEF V, D, m, op, n
  <2>4. PICK f \in [D -> V] : Asks(f, D, {0}, {}, parent, op)
    BY <1>1, <2>1, <2>2, <2>3, Unfolds
  <2>5. ASSUME NEW i \in D PROVE f[i] = Body(f, i)
    <3>1. CASE i = 0
      BY <2>4, <3>1 DEF Asks
    <3>2. CASE i # 0
      <4>1. f[parent[i]] \in V
        BY <1>1, <3>2
      <4>2. f[i] = op[<<i, f[parent[i]]>>]
        BY <2>4, <3>2 DEF Asks
      <4> QED
        BY <3>2, <4>1, <4>2 DEF op
    <3> QED
      BY <3>1, <3>2
  <2>6. f = [i \in D |-> Body(f, i)]
    <3> HIDE DEF Body
    <3> QED
      BY <2>5
  <2> QED
    BY <2>6
<1>4. up = [i \in D |-> Body(up, i)]
  <2> HIDE DEF Body
  <2> QED
    BY <1>3
<1> HIDE DEF up
<1>5. \A i \in D : up[i] = Body(up, i)
  <2> HIDE DEF Body
  <2> QED
    BY <1>4
<1> QED
  BY <1>1, <1>2, <1>5

LEMMA LineFacts ==
    ASSUME HistoryOK, NEW k \in DOMAIN states, NEW j \in Line(k)
    PROVE  /\ j \in DOMAIN states
           /\ Grown(states[j], states[k])
           /\ j # k => Len(states[j].events) < Len(states[k].events)
<1> DEFINE n == Len(states)
           Goes(a, b) == /\ a \in DOMAIN states
                         /\ Grown(states[a], states[b])
                         /\ a # b => Len(states[a].events) < Len(states[b].events)
           T == {b \in DOMAIN states : \A a \in Line(b) : Goes(a, b)}
           m == [b \in DOMAIN states |-> b]
<1>1. n \in Nat /\ DOMAIN states = 1 .. n
  BY SequenceFacts DEF HistoryOK
<1>2. \A b \in DOMAIN states : Document(states[b]) /\ Len(states[b].events) \in Nat
  BY EventsOf DEF HistoryOK
<1>3. m \in [DOMAIN states -> Nat]
  BY <1>1
<1>4. ASSUME NEW b \in DOMAIN states, \A c \in DOMAIN states : m[c] < m[b] => c \in T
      PROVE  b \in T
  <2> SUFFICES ASSUME NEW a \in Line(b) PROVE Goes(a, b)
    OBVIOUS
  <2> DEFINE p == parent[b]
  <2>1. a = b \/ a \in Line(p)
    BY LineSteps
  <2>2. CASE a = b
    BY <2>2, <1>2 DEF Grown
  <2>3. CASE a \in Line(p)
    <3>1. p \in 0 .. b - 1 /\ p # 0
      BY <2>3, LineSteps DEF HistoryOK
    <3>2. p \in DOMAIN states /\ m[p] < m[b]
      BY <1>1, <3>1
    <3>3. Goes(a, p)
      BY <1>4, <2>3, <3>2
    <3>4. Grown(states[p], states[b]) /\ Len(states[p].events) < Len(states[b].events)
      BY <3>1 DEF HistoryOK
    <3>5. Grown(states[a], states[b])
      BY <1>2, <3>2, <3>3, <3>4, GrownTwice
    <3>6. Len(states[a].events) < Len(states[b].events)
      BY <1>2, <3>2, <3>3, <3>4
    <3> QED
      BY <3>3, <3>5, <3>6
  <2> QED
    BY <2>1, <2>2, <2>3
<1>5. k \in T
  <2> HIDE DEF T, m
  <2>1. \A b \in DOMAIN states : (\A c \in DOMAIN states : m[c] < m[b] => c \in T) => b \in T
    BY <1>4
  <2> QED
    BY <1>3, <2>1, Descends
<1> QED
  BY <1>5

LEMMA HistoryTold == HistoryOK => DiffTellsHistory
<1> SUFFICES ASSUME HistoryOK,
                    NEW k \in DOMAIN states, NEW j \in Line(k), NEW i \in Line(j)
             PROVE  /\ Tells(states[i], states[j], states[k])
                    /\ Empty(DiffStates(states[i], states[k])) => i = k
  BY DEF DiffTellsHistory, Tells
<1>1. /\ i \in DOMAIN states /\ j \in DOMAIN states
      /\ Grown(states[i], states[j]) /\ Grown(states[j], states[k])
      /\ j # k => Len(states[j].events) < Len(states[k].events)
      /\ i # j => Len(states[i].events) < Len(states[j].events)
  BY LineFacts
<1>2. \A l \in DOMAIN states : Document(states[l]) /\ Len(states[l].events) \in Nat
  BY EventsOf DEF HistoryOK
<1>3. Tells(states[i], states[j], states[k])
  BY <1>1, <1>2, DiffsAddUp
<1>4. i # k => Len(states[i].events) < Len(states[k].events)
  BY <1>1, <1>2
<1> QED
  BY <1>1, <1>2, <1>3, <1>4, LongerDiffers

-----------------------------------------------------------------------------
(* The spans that the rules propose *)

LEMMA RunEndFacts ==
    ASSUME NEW text, IsSequence(text), NEW i \in 1 .. (Len(text) + 1), NEW kinds
    PROVE  LET j == RunEnd(text, i, kinds)
           IN /\ j \in i .. (Len(text) + 1)
              /\ j = Len(text) + 1 \/ text[j].kind \notin kinds
              /\ \A k \in i .. (j - 1) : text[k].kind \in kinds
<1> DEFINE n == Len(text)
           T == {j \in i .. (n + 1) : j = n + 1 \/ text[j].kind \notin kinds}
<1>1. n \in Nat
  BY SequenceFacts
<1>2. T \in SUBSET Nat /\ T # {}
  <2>1. n + 1 \in T
    BY <1>1
  <2> QED
    BY <1>1, <2>1
<1>3. PICK j \in T : \A k \in T : j <= k
  <2> HIDE DEF T
  <2> QED
    BY <1>2, Least
<1>4. \A k \in i .. (j - 1) : text[k].kind \in kinds
  <2> SUFFICES ASSUME NEW k \in i .. (j - 1), k \notin T PROVE text[k].kind \in kinds
    BY <1>1, <1>3
  <2> QED
    BY <1>1, <1>3
<1>5. \E l \in i .. (n + 1) : /\ l = n + 1 \/ text[l].kind \notin kinds
                              /\ \A k \in i .. (l - 1) : text[k].kind \in kinds
  BY <1>3, <1>4
<1> QED
  BY <1>5 DEF RunEnd

Rules(text) ==
    {text[k].tag : k \in DOMAIN text}
        \cup {"private-key-block", "credentialed-url", "assigned-secret", "high-entropy"}

\* Spans that begin and end within the text, at word boundaries, and are not empty.
Spans(text) ==
    {s \in [first : 1 .. Len(text), next : 1 .. (Len(text) + 1), rule : Rules(text)] :
        s.first < s.next /\ Boundary(text, s.first) /\ Boundary(text, s.next)}

LEMMA SpanIn ==
    ASSUME NEW text, IsSequence(text), NEW i \in 1 .. Len(text), Boundary(text, i),
           NEW j \in (i + 1) .. (Len(text) + 1), Boundary(text, j),
           NEW rule \in Rules(text)
    PROVE  Span(i, j, rule) \in Spans(text)
<1>1. Len(text) \in Nat
  BY SequenceFacts
<1>2. j \in 1 .. (Len(text) + 1) /\ i < j
  BY <1>1
<1> HIDE DEF Rules, Boundary
<1> QED
  BY <1>1, <1>2 DEF Spans, Span

\* No word runs on into a place behind or before a piece without word characters.
LEMMA BoundaryBehind ==
    ASSUME NEW text, IsSequence(text), NEW i \in 1 .. Len(text),
           text[i].kind \notin EndsWord
    PROVE  Boundary(text, i + 1)
<1>1. Len(text) \in Nat /\ (i + 1) - 1 = i
  BY SequenceFacts
<1> QED
  BY <1>1 DEF Boundary

LEMMA BoundaryBefore ==
    ASSUME NEW text, IsSequence(text), NEW i \in 1 .. (Len(text) + 1),
           i = Len(text) + 1 \/ text[i].kind \notin StartsWord
    PROVE  Boundary(text, i)
<1>1. Len(text) \in Nat
  BY SequenceFacts
<1> QED
  BY <1>1 DEF Boundary

\* Where the rule for assigned secrets matches, and where it goes on.
Assigns(text, i) ==
    Names(text, i) /\ \E k \in (i + 1) .. (RunEnd(text, i + 1, Tight) - 1) : text[k].kind \in Long

GoesOn(text, i) == IF Assigns(text, i) THEN RunEnd(text, i + 1, Tight) ELSE i + 1

LEMMA AssignedIn ==
    ASSUME NEW text, IsSequence(text)
    PROVE  AssignedSpans(text) \subseteq Spans(text)
<1> DEFINE n == Len(text)
           D == 1 .. (n + 1)
           V == SUBSET Spans(text)
           Body(f, i) ==
              IF i > n THEN {}
              ELSE IF Names(text, i)
                      /\ \E k \in (i + 1) .. (RunEnd(text, i + 1, Tight) - 1) :
                            text[k].kind \in Long
              THEN {Span(i + 1, RunEnd(text, i + 1, Tight), "assigned-secret")}
                      \cup f[RunEnd(text, i + 1, Tight)]
              ELSE f[i + 1]
           m == [i \in D |-> n + 1 - i]
           next == [i \in D |-> GoesOn(text, i)]
           op == [r \in D \X V |->
                     IF r[1] # n + 1 /\ Assigns(text, r[1])
                     THEN {Span(r[1] + 1, RunEnd(text, r[1] + 1, Tight), "assigned-secret")}
                             \cup r[2]
                     ELSE r[2]]
           iter == CHOOSE f : f = [i \in D |-> Body(f, i)]
<1>1. n \in Nat /\ 1 \in D
  BY SequenceFacts
<1>2. ASSUME NEW i \in D, i # n + 1
      PROVE  /\ i \in 1 .. n /\ ~(i > n)
             /\ GoesOn(text, i) \in D /\ n + 1 - GoesOn(text, i) < n + 1 - i
             /\ Assigns(text, i) =>
                   Span(i + 1, RunEnd(text, i + 1, Tight), "assigned-secret") \in Spans(text)
  <2>1. i \in 1 .. n /\ i + 1 \in 1 .. (n + 1)
    BY <1>1, <1>2
  <2> DEFINE j == RunEnd(text, i + 1, Tight)
  <2>2. j \in (i + 1) .. (n + 1)
    BY <2>1, RunEndFacts
  <2> HIDE DEF j
  <2>3. GoesOn(text, i) \in (i + 1) .. (n + 1)
    BY <1>1, <2>1, <2>2 DEF GoesOn, j
  <2>4. ASSUME Assigns(text, i) PROVE Span(i + 1, j, "assigned-secret") \in Spans(text)
    <3>1. PICK k \in (i + 1) .. (j - 1) : TRUE
      BY <2>4 DEF Assigns, j
    <3>2. i + 1 \in 1 .. n /\ j \in (i + 1) + 1 .. (n + 1)
      BY <1>1, <2>1, <2>2, <3>1
    <3>3. "assigned-secret" \in Rules(text)
      BY DEF Rules
    <3>4. Boundary(text, i + 1)
      <4>1. text[i].kind \notin EndsWord
        BY <2>4 DEF Assigns, Names, EndsWord
      <4> QED
        BY <2>1, <4>1, BoundaryBehind
    <3>5. Boundary(text, j)
      <4>1. j = n + 1 \/ text[j].kind \notin Tight
        BY <2>1, RunEndFacts DEF j
      <4>2. j \in 1 .. (n + 1) /\ (j = n + 1 \/ text[j].kind \notin StartsWord)
        BY <1>1, <2>1, <2>2, <4>1 DEF Tight, StartsWord
      <4> QED
        BY <4>2, BoundaryBefore
    <3> QED
      BY <3>2, <3>3, <3>4, <3>5, SpanIn
  <2> QED
    BY <1>1, <2>1, <2>3, <2>4 DEF j
<1>3. AssignedSpans(text) = iter[1]
  BY DEF AssignedSpans
<1>4. m \in [D -> 0 .. n] /\ \A i \in D \ {n + 1} : next[i] \in D /\ m[next[i]] < m[i]
  BY <1>1, <1>2
<1>5. n + 1 \in D /\ n + 1 > n /\ {} \in V
  BY <1>1
<1>6. ASSUME NEW f, NEW i \in D
      PROVE  Body(f, i) = IF i = n + 1 THEN {}
                          ELSE IF Assigns(text, i)
                          THEN {Span(i + 1, RunEnd(text, i + 1, Tight), "assigned-secret")}
                                  \cup f[GoesOn(text, i)]
                          ELSE f[GoesOn(text, i)]
  BY <1>2, <1>5 DEF Assigns, GoesOn
<1>7. op \in [D \X V -> V]
  <2> SUFFICES ASSUME NEW i \in D, NEW v \in V PROVE op[<<i, v>>] \in V
    OBVIOUS
  <2> HIDE DEF D
  <2> QED
    BY <1>2
<1> HIDE DEF Body
<1>8. \E f : f = [i \in D |-> Body(f, i)]
  <2> HIDE DEF D, V, m, next, op, n
  <2>1. PICK f \in [D -> V] : Asks(f, D, {n + 1}, {}, next, op)
    <3>1. n \in Nat
      BY <1>1
    <3> QED
      BY <1>4, <1>5, <1>7, <3>1, Unfolds
  <2>2. ASSUME NEW i \in D PROVE f[i] = Body(f, i)
    <3>1. CASE i = n + 1
      BY <1>6, <2>1, <3>1 DEF Asks
    <3>2. CASE i # n + 1
      <4>1. next[i] = GoesOn(text, i) /\ f[next[i]] \in V
        BY <1>4, <2>1, <3>2 DEF next
      <4>2. f[i] = op[<<i, f[next[i]]>>]
        BY <2>1, <3>2 DEF Asks
      <4> QED
        BY <1>6, <3>2, <4>1, <4>2 DEF op
    <3> QED
      BY <3>1, <3>2
  <2>3. f = [i \in D |-> Body(f, i)]
    BY <2>2
  <2> QED
    BY <2>3
<1>9. iter = [i \in D |-> Body(iter, i)]
  BY <1>8
<1> HIDE DEF iter
<1>10. \A i \in D : iter[i] = Body(iter, i)
  BY <1>9
<1>11. \A i \in D : iter[i] \in V
  <2> DEFINE T == {i \in D : iter[i] \in V}
  <2>1. ASSUME NEW i \in D, \A j \in D : m[j] < m[i] => j \in T PROVE i \in T
    <3>1. CASE i = n + 1
      BY <1>5, <1>6, <1>10, <3>1
    <3>2. CASE i # n + 1
      <4>1. GoesOn(text, i) \in D /\ m[GoesOn(text, i)] < m[i]
        BY <1>4, <3>2
      <4>2. iter[GoesOn(text, i)] \in V
        BY <2>1, <4>1
      <4> HIDE DEF m, D
      <4> QED
        BY <1>2, <1>6, <1>10, <3>2, <4>2
    <3> QED
      BY <3>1, <3>2
  <2>2. m \in [D -> Nat]
    BY <1>4
  <2> HIDE DEF T, m, D
  <2>3. \A i \in D : (\A j \in D : m[j] < m[i] => j \in T) => i \in T
    BY <2>1
  <2>4. \A i \in D : i \in T
    BY <2>2, <2>3, Descends
  <2> QED
    BY <2>4 DEF T
<1> QED
  BY <1>1, <1>3, <1>11

LEMMA ProposedIn ==
    ASSUME NEW text, IsSequence(text), NEW aggressive
    PROVE  Proposed(text, aggressive) \subseteq Spans(text)
<1>1. Len(text) \in Nat /\ DOMAIN text = 1 .. Len(text)
  BY SequenceFacts
<1>2. ShapeSpans(text) \subseteq Spans(text)
  <2> SUFFICES ASSUME NEW i \in DOMAIN text, Boundary(text, i), Boundary(text, i + 1)
               PROVE  Span(i, i + 1, text[i].tag) \in Spans(text)
    BY DEF ShapeSpans
  <2>1. text[i].tag \in Rules(text) /\ i + 1 \in (i + 1) .. (Len(text) + 1)
    BY <1>1 DEF Rules
  <2> QED
    BY <1>1, <2>1, SpanIn
<1>3. BlockSpans(text) \subseteq Spans(text)
  <2> SUFFICES ASSUME NEW i \in 1 .. (Len(text) - 1),
                      text[i].kind = "dashes", text[i + 1].kind = "body"
               PROVE  Span(i, i + 2, "private-key-block") \in Spans(text)
    BY DEF BlockSpans
  <2>1. /\ i \in 1 .. Len(text) /\ i + 2 \in (i + 1) .. (Len(text) + 1)
        /\ i + 1 \in 1 .. Len(text) /\ (i + 1) + 1 = i + 2
    BY <1>1
  <2>2. "private-key-block" \in Rules(text)
    BY DEF Rules
  <2>3. Boundary(text, i)
    <3>1. i \in 1 .. (Len(text) + 1) /\ text[i].kind \notin StartsWord
      BY <1>1 DEF StartsWord
    <3> QED
      BY <3>1, BoundaryBefore
  <2>4. Boundary(text, i + 2)
    <3>1. text[i + 1].kind \notin EndsWord
      BY DEF EndsWord
    <3>2. Boundary(text, (i + 1) + 1)
      BY <2>1, <3>1, BoundaryBehind
    <3> QED
      BY <2>1, <3>2
  <2> QED
    BY <2>1, <2>2, <2>3, <2>4, SpanIn
<1>4. UrlSpans(text) \subseteq Spans(text)
  <2> SUFFICES ASSUME NEW i \in DOMAIN text, text[i].kind = "login",
                      RunEnd(text, i + 1, Userinfo) <= Len(text),
                      text[RunEnd(text, i + 1, Userinfo)].kind = "at",
                      NEW l \in (i + 1) .. (RunEnd(text, i + 1, Userinfo) - 1)
               PROVE  Span(i + 1, RunEnd(text, i + 1, Userinfo), "credentialed-url")
                         \in Spans(text)
    BY DEF UrlSpans
  <2> DEFINE j == RunEnd(text, i + 1, Userinfo)
  <2>1. i + 1 \in 1 .. (Len(text) + 1)
    BY <1>1
  <2>2. j \in (i + 1) .. (Len(text) + 1)
    BY <2>1, RunEndFacts
  <2>3. Boundary(text, i + 1)
    BY <1>1, BoundaryBehind DEF EndsWord
  <2>4. Boundary(text, j)
    <3>1. text[j].kind \notin StartsWord
      BY DEF StartsWord
    <3>2. j \in 1 .. (Len(text) + 1)
      BY <1>1, <2>1, <2>2
    <3> HIDE DEF j
    <3> QED
      BY <3>1, <3>2, BoundaryBefore
  <2>5. l \in (i + 1) .. (j - 1) /\ j <= Len(text)
    OBVIOUS
  <2> HIDE DEF j
  <2>6. i + 1 \in 1 .. Len(text) /\ j \in ((i + 1) + 1) .. (Len(text) + 1)
    BY <1>1, <2>2, <2>5
  <2>7. "credentialed-url" \in Rules(text)
    BY DEF Rules
  <2> QED
    BY <2>3, <2>4, <2>6, <2>7, SpanIn DEF j
<1>5. ASSUME NEW i \in DOMAIN text, text[i].kind \in Wordlike,
             i > 1 => text[i - 1].kind \notin Wordlike,
             NEW l \in i .. (RunEnd(text, i, Wordlike) - 1)
      PROVE  Span(i, RunEnd(text, i, Wordlike), "high-entropy") \in Spans(text)
  <2> DEFINE j == RunEnd(text, i, Wordlike)
  <2>1. i \in 1 .. (Len(text) + 1) /\ i \in 1 .. Len(text)
    BY <1>1
  <2>2. /\ j \in i .. (Len(text) + 1)
        /\ j = Len(text) + 1 \/ text[j].kind \notin Wordlike
    BY <2>1, RunEndFacts
  <2> HIDE DEF j
  <2>3. j \in (i + 1) .. (Len(text) + 1)
    BY <1>1, <2>1, <2>2 DEF j
  <2>4. "high-entropy" \in Rules(text)
    BY DEF Rules
  <2>5. Boundary(text, i)
    BY <1>1, <1>5 DEF Boundary, Wordlike, EndsWord
  <2>6. Boundary(text, j)
    <3>1. j \in 1 .. (Len(text) + 1) /\ (j = Len(text) + 1 \/ text[j].kind \notin StartsWord)
      BY <1>1, <2>1, <2>2 DEF Wordlike, StartsWord
    <3> QED
      BY <3>1, BoundaryBefore
  <2> QED
    BY <2>1, <2>3, <2>4, <2>5, <2>6, SpanIn DEF j
<1>6. ASSUME NEW i \in DOMAIN text, text[i].kind = "body"
      PROVE  Span(i, i + 1, "high-entropy") \in Spans(text)
  <2>1. i \in 1 .. Len(text) /\ i \in 1 .. (Len(text) + 1)
        /\ i + 1 \in (i + 1) .. (Len(text) + 1)
    BY <1>1
  <2>2. text[i].kind \notin StartsWord /\ text[i].kind \notin EndsWord
    BY <1>6 DEF StartsWord, EndsWord
  <2>3. Boundary(text, i) /\ Boundary(text, i + 1)
    BY <2>1, <2>2, BoundaryBefore, BoundaryBehind
  <2>4. "high-entropy" \in Rules(text)
    BY DEF Rules
  <2> QED
    BY <2>1, <2>3, <2>4, SpanIn
<1>7. HighEntropySpans(text) \subseteq Spans(text)
  BY <1>5, <1>6 DEF HighEntropySpans
<1> QED
  BY <1>2, <1>3, <1>4, <1>7, AssignedIn DEF Proposed

LEMMA PreferredIn ==
    ASSUME NEW text, IsSequence(text), NEW here \in SUBSET Spans(text), here # {}
    PROVE  Preferred(here) \in here
<1> DEFINE n == Len(text)
           cost(s) == 5 * (n + 1 - s.next) + Rank(s)
           T == {cost(s) : s \in here}
<1>1. n \in Nat
  BY SequenceFacts
<1>2. ASSUME NEW s \in here
      PROVE  s.next \in Nat /\ s.next <= n + 1 /\ Rank(s) \in 1 .. 4 /\ cost(s) \in Nat
  <2>1. s.next \in 1 .. (n + 1)
    BY DEF Spans
  <2>2. Rank(s) \in {1, 2, 3, 4}
    BY DEF Rank
  <2> QED
    BY <1>1, <2>1, <2>2
<1>3. T \in SUBSET Nat /\ T # {}
  BY <1>2
<1>4. PICK c \in T : \A d \in T : c <= d
  <2> HIDE DEF T
  <2> QED
    BY <1>3, Least
<1>5. PICK s \in here : c = cost(s)
  BY <1>4
<1>6. ASSUME NEW t \in here
      PROVE  s.next > t.next \/ (s.next = t.next /\ Rank(s) <= Rank(t))
  <2>1. cost(s) <= cost(t)
    BY <1>4, <1>5
  <2>2. /\ s.next \in Nat /\ s.next <= n + 1 /\ Rank(s) \in 1 .. 4
        /\ t.next \in Nat /\ t.next <= n + 1 /\ Rank(t) \in 1 .. 4
    BY <1>2
  <2> HIDE DEF n
  <2> QED
    BY <1>1, <2>1, <2>2
<1>7. \E r \in here : \A t \in here :
         r.next > t.next \/ (r.next = t.next /\ Rank(r) <= Rank(t))
  BY <1>6
<1> QED
  BY <1>7 DEF Preferred

-----------------------------------------------------------------------------
(* scan_text *)

Starting(text, aggressive, i) == {s \in Proposed(text, aggressive) : s.first = i}

\* One place of a text: the piece that stands there, or the placeholder of a span.
ScanStep(from, text, aggressive, i) ==
    LET here == Starting(text, aggressive, i)
        chosen == Preferred(here)
    IN from[i] =
         IF here = {} THEN [text |-> <<text[i]>> \o from[i + 1].text,
                            found |-> from[i + 1].found]
         ELSE [text |-> Placeholder(SubSeq(text, i, chosen.next - 1), chosen.rule)
                          \o from[chosen.next].text,
               found |-> <<chosen.rule>> \o from[chosen.next].found]

\* Pieces that a cleaned text is made of.
Opens(text) == {Piece("open", rule, 0, <<>>) : rule \in Rules(text)}
Excerpts(text) == {SubSeq(text, i, j - 1) : i \in 1 .. Len(text), j \in 1 .. (Len(text) + 1)}
Prints(text) == {Piece("print", "", 0, secret) : secret \in Excerpts(text)}
Clear(text) == ToSet(text) \cup Opens(text) \cup Prints(text)

Scanned(text) == [text : Seq(Clear(text)), found : Seq(Rules(text))]

LEMMA HereFacts ==
    ASSUME NEW text, IsSequence(text), NEW aggressive, NEW i \in DOMAIN text
    PROVE  LET here == Starting(text, aggressive, i)
               chosen == Preferred(here)
           IN IF here = {} THEN text[i] \in Clear(text)
              ELSE /\ chosen.next \in (i + 1) .. (Len(text) + 1)
                   /\ chosen.rule \in Rules(text)
                   /\ Boundary(text, i) /\ Boundary(text, chosen.next)
<1>1. CASE Starting(text, aggressive, i) = {}
  <2>1. text[i] \in ToSet(text)
    BY SequenceFacts
  <2>2. text[i] \in Clear(text)
    BY <2>1 DEF Clear
  <2> QED
    BY <1>1, <2>2
<1>2. CASE Starting(text, aggressive, i) # {}
  <2> DEFINE here == Starting(text, aggressive, i)
             chosen == Preferred(here)
  <2>1. here \in SUBSET Spans(text) /\ \A s \in here : s.first = i
    BY ProposedIn DEF Starting
  <2> HIDE DEF here
  <2>2. chosen \in here
    BY <1>2, <2>1, PreferredIn DEF here
  <2>3. chosen \in Spans(text) /\ chosen.first = i
    BY <2>1, <2>2
  <2> HIDE DEF chosen
  <2>4. /\ chosen.next \in 1 .. (Len(text) + 1) /\ chosen.rule \in Rules(text)
        /\ Boundary(text, i) /\ Boundary(text, chosen.next)
        /\ i < chosen.next /\ i \in 1 .. Len(text) /\ Len(text) \in Nat
    BY <2>3, SequenceFacts DEF Spans
  <2>5. chosen.next \in (i + 1) .. (Len(text) + 1)
    BY <2>4
  <2> QED
    BY <1>2, <2>4, <2>5 DEF here, chosen
<1> QED
  BY <1>1, <1>2

LEMMA PlaceholderFacts ==
    ASSUME NEW text, IsSequence(text), NEW i \in 1 .. Len(text),
           NEW j \in (i + 1) .. (Len(text) + 1), NEW rule \in Rules(text)
    PROVE  Placeholder(SubSeq(text, i, j - 1), rule) \in Seq(Clear(text))
<1>1. Piece("open", rule, 0, <<>>) \in Clear(text)
  <2>1. Piece("open", rule, 0, <<>>) \in Opens(text)
    BY DEF Opens
  <2> QED
    BY <2>1 DEF Clear
<1>2. Piece("print", "", 0, SubSeq(text, i, j - 1)) \in Clear(text)
  <2>1. j \in 1 .. (Len(text) + 1)
    BY SequenceFacts
  <2>2. SubSeq(text, i, j - 1) \in Excerpts(text)
    BY <2>1 DEF Excerpts
  <2>3. Piece("print", "", 0, SubSeq(text, i, j - 1)) \in Prints(text)
    BY <2>2 DEF Prints
  <2> QED
    BY <2>3 DEF Clear
<1>3. ASSUME NEW E, NEW a \in E, NEW b \in E PROVE <<a, b>> \in Seq(E)
  OBVIOUS
<1> DEFINE open == Piece("open", rule, 0, <<>>)
           print == Piece("print", "", 0, SubSeq(text, i, j - 1))
<1>4. Placeholder(SubSeq(text, i, j - 1), rule) = <<open, print>>
  BY DEF Placeholder
<1> HIDE DEF open, print
<1>5. open \in Clear(text) /\ print \in Clear(text)
  BY <1>1, <1>2 DEF open, print
<1> QED
  BY <1>3, <1>4, <1>5

LEMMA ScanSteps ==
    ASSUME NEW text, IsSequence(text), NEW aggressive
    PROVE  \E from :
              /\ ScanText(text, aggressive) = from[1]
              /\ from[Len(text) + 1] = [text |-> <<>>, found |-> <<>>]
              /\ \A i \in DOMAIN text : ScanStep(from, text, aggressive, i)
              /\ \A i \in 1 .. (Len(text) + 1) : from[i] \in Scanned(text)
<1> DEFINE n == Len(text)
           D == 1 .. (n + 1)
           V == Scanned(text)
           Here(i) == Starting(text, aggressive, i)
           Chosen(i) == Preferred(Here(i))
           base == [text |-> <<>>, found |-> <<>>]
           Body(f, i) ==
              IF i > n THEN base
              ELSE IF {s \in Proposed(text, aggressive) : s.first = i} = {}
              THEN [f[i + 1] EXCEPT !.text = <<text[i]>> \o @]
              ELSE [text |-> Placeholder(SubSeq(text, i, Preferred(
                                 {s \in Proposed(text, aggressive) : s.first = i}).next - 1),
                                 Preferred({s \in Proposed(text, aggressive) : s.first = i}).rule)
                               \o f[Preferred({s \in Proposed(text, aggressive) : s.first = i}).next].text,
                    found |-> <<Preferred({s \in Proposed(text, aggressive) : s.first = i}).rule>>
                               \o f[Preferred({s \in Proposed(text, aggressive) : s.first = i}).next].found]
           Step(v, i) ==
              IF Here(i) = {} THEN [text |-> <<text[i]>> \o v.text, found |-> v.found]
              ELSE [text |-> Placeholder(SubSeq(text, i, Chosen(i).next - 1), Chosen(i).rule)
                               \o v.text,
                    found |-> <<Chosen(i).rule>> \o v.found]
           m == [i \in D |-> n + 1 - i]
           next == [i \in D |-> IF Here(i) = {} THEN i + 1 ELSE Chosen(i).next]
           op == [r \in D \X V |-> IF r[1] = n + 1 THEN r[2] ELSE Step(r[2], r[1])]
           iter == CHOOSE f : f = [i \in D |-> Body(f, i)]
<1>1. n \in Nat /\ 1 \in D /\ n + 1 \in D /\ n + 1 > n /\ DOMAIN text = 1 .. n
      /\ \A i \in D : i # n + 1 => i \in 1 .. n /\ ~(i > n)
  BY SequenceFacts
<1>2. base \in V
  BY DEF Scanned
<1>3. ASSUME NEW i \in 1 .. n
      PROVE  /\ Here(i) = {} => text[i] \in Clear(text)
             /\ Here(i) # {} => /\ Chosen(i).next \in (i + 1) .. (n + 1)
                                /\ Chosen(i).rule \in Rules(text)
  BY <1>1, HereFacts
<1> HIDE DEF Here, Chosen
<1>4. ASSUME NEW i \in D, i # n + 1
      PROVE  next[i] \in D /\ m[next[i]] < m[i]
  <2>1. i \in 1 .. n
    BY <1>1, <1>4
  <2> QED
    BY <1>1, <1>3, <2>1
<1>5. ASSUME NEW i \in 1 .. n, NEW v \in V PROVE Step(v, i) \in V
  <2>1. v.text \in Seq(Clear(text)) /\ v.found \in Seq(Rules(text))
    BY DEF Scanned
  <2>2. CASE Here(i) = {}
    <3>1. text[i] \in Clear(text)
      BY <1>3, <2>2
    <3> HIDE DEF Clear
    <3>2. <<text[i]>> \o v.text \in Seq(Clear(text))
      BY <2>1, <3>1
    <3> QED
      BY <2>1, <2>2, <3>2 DEF Scanned
  <2>3. CASE Here(i) # {}
    <3>1. Placeholder(SubSeq(text, i, Chosen(i).next - 1), Chosen(i).rule) \in Seq(Clear(text))
      BY <1>3, <2>3, PlaceholderFacts
    <3>2. Chosen(i).rule \in Rules(text)
      BY <1>3, <2>3
    <3> HIDE DEF Clear, Placeholder, Rules
    <3>3. Placeholder(SubSeq(text, i, Chosen(i).next - 1), Chosen(i).rule) \o v.text
             \in Seq(Clear(text))
      BY <2>1, <3>1
    <3>4. <<Chosen(i).rule>> \o v.found \in Seq(Rules(text))
      BY <2>1, <3>2
    <3> QED
      BY <2>3, <3>3, <3>4 DEF Scanned
  <2> QED
    BY <2>2, <2>3
<1>6. ASSUME NEW f, NEW i \in D, i # n + 1, f[next[i]] \in V
      PROVE  Body(f, i) = Step(f[next[i]], i)
  <2>1. ~(i > n)
    BY <1>1, <1>6
  <2>2. f[next[i]] = [text |-> f[next[i]].text, found |-> f[next[i]].found]
    BY <1>6 DEF Scanned
  <2>3. CASE Here(i) = {}
    <3>1. next[i] = i + 1
      BY <2>3
    <3>2. Body(f, i) = [f[i + 1] EXCEPT !.text = <<text[i]>> \o @]
      BY <2>1, <2>3 DEF Here, Starting
    <3>3. Step(f[next[i]], i) = [text |-> <<text[i]>> \o f[i + 1].text, found |-> f[i + 1].found]
      BY <2>3, <3>1
    <3>4. f[i + 1] = [text |-> f[i + 1].text, found |-> f[i + 1].found]
      BY <2>2, <3>1
    <3> DEFINE v == f[i + 1]
               e == <<text[i]>> \o v.text
    <3>5. v = [text |-> v.text, found |-> v.found] /\ Body(f, i) = [v EXCEPT !.text = e]
      <4> HIDE DEF Body, next
      <4> QED
        BY <3>2, <3>4
    <3>6. Step(f[next[i]], i) = [text |-> e, found |-> v.found]
      BY <3>3
    <3> HIDE DEF Body, next, Step, v, e
    <3>7. [v EXCEPT !.text = e] = [text |-> e, found |-> v.found]
      BY <3>5
    <3> QED
      BY <3>5, <3>6, <3>7
  <2>4. CASE Here(i) # {}
    <3>1. next[i] = Chosen(i).next
      BY <2>4
    <3> QED
      BY <2>1, <2>4, <3>1 DEF Here, Chosen, Starting
  <2> QED
    BY <2>3, <2>4
<1>7. ASSUME NEW f PROVE Body(f, n + 1) = base
  BY <1>1
<1>8. ScanText(text, aggressive) = iter[1]
  BY DEF ScanText
<1>9. op \in [D \X V -> V]
  <2> SUFFICES ASSUME NEW i \in D, NEW v \in V PROVE op[<<i, v>>] \in V
    OBVIOUS
  <2> HIDE DEF D, V, Step
  <2> QED
    BY <1>1, <1>5
<1>10. m \in [D -> 0 .. n] /\ m \in [D -> Nat]
  BY <1>1
<1> HIDE DEF Body, Step, V, next
<1>11. \E f : f = [i \in D |-> Body(f, i)]
  <2> HIDE DEF D, m, op, n, base
  <2>1. PICK f \in [D -> V] : Asks(f, D, {n + 1}, base, next, op)
    <3>1. n \in Nat
      BY <1>1
    <3>2. \A i \in D \ {n + 1} : next[i] \in D /\ m[next[i]] < m[i]
      BY <1>4
    <3> QED
      BY <1>2, <1>9, <1>10, <3>1, <3>2, Unfolds
  <2>2. ASSUME NEW i \in D PROVE f[i] = Body(f, i)
    <3>1. CASE i = n + 1
      BY <1>7, <2>1, <3>1 DEF Asks
    <3>2. CASE i # n + 1
      <4>1. f[next[i]] \in V
        BY <1>4, <2>1, <3>2
      <4>2. f[i] = op[<<i, f[next[i]]>>]
        BY <2>1, <3>2 DEF Asks
      <4> QED
        BY <1>6, <3>2, <4>1, <4>2 DEF op
    <3> QED
      BY <3>1, <3>2
  <2>3. f = [i \in D |-> Body(f, i)]
    BY <2>2
  <2> QED
    BY <2>3
<1>12. iter = [i \in D |-> Body(iter, i)]
  BY <1>11
<1> HIDE DEF iter
<1>13. \A i \in D : iter[i] = Body(iter, i)
  BY <1>12
<1>14. \A i \in D : iter[i] \in V
  <2> DEFINE T == {i \in D : iter[i] \in V}
  <2>1. ASSUME NEW i \in D, \A j \in D : m[j] < m[i] => j \in T PROVE i \in T
    <3>1. CASE i = n + 1
      BY <1>2, <1>7, <1>13, <3>1
    <3>2. CASE i # n + 1
      <4>1. next[i] \in D /\ iter[next[i]] \in V
        BY <1>4, <2>1, <3>2
      <4> HIDE DEF m, D
      <4>2. iter[i] = Step(iter[next[i]], i)
        BY <1>6, <1>13, <3>2, <4>1
      <4>3. i \in 1 .. n
        BY <1>1, <3>2
      <4> QED
        BY <1>5, <4>1, <4>2, <4>3
    <3> QED
      BY <3>1, <3>2
  <2> HIDE DEF T, m, D
  <2>3. \A i \in D : (\A j \in D : m[j] < m[i] => j \in T) => i \in T
    BY <2>1
  <2>4. \A i \in D : i \in T
    BY <1>10, <2>3, Descends
  <2> QED
    BY <2>4 DEF T
<1>15. ASSUME NEW i \in 1 .. n PROVE ScanStep(iter, text, aggressive, i)
  <2>1. i \in D /\ i # n + 1
    BY <1>1
  <2>2. iter[i] = Step(iter[next[i]], i)
    BY <1>4, <1>6, <1>13, <1>14, <2>1
  <2>3. next[i] = IF Here(i) = {} THEN i + 1 ELSE Chosen(i).next
    BY <2>1 DEF next
  <2> QED
    BY <2>2, <2>3 DEF ScanStep, Step, Here, Chosen
<1> QED
  BY <1>1, <1>7, <1>8, <1>13, <1>14, <1>15 DEF V

-----------------------------------------------------------------------------
(* What scan_text leaves *)

\* The rules for known shapes match nothing from this place on.
Unmatched(text, i) ==
    \A s \in ShapeSpans(text) \cup BlockSpans(text) \cup UrlSpans(text) : s.first # i

\* s goes on as t behind its first d pieces.
GoesAs(s, d, t) ==
    /\ Len(s) \in Nat /\ Len(t) \in Nat /\ Len(s) = d + Len(t)
    /\ \A p \in 1 .. Len(t) : \A q \in Nat : q = d + p => s[q] = t[p]

\* At a place of the text its piece stands, where no rule matched, or else a
\* placeholder, of a span that began and ended at word boundaries.
Copied(from, text, i) ==
    /\ GoesAs(from[i].text, 1, from[i + 1].text)
    /\ from[i].text[1] = text[i]
    /\ Unmatched(text, i)

Replaced(from, text, i, next) ==
    /\ GoesAs(from[i].text, 2, from[next].text)
    /\ from[i].text[1].kind = "open" /\ from[i].text[2].kind = "print"
    /\ Boundary(text, i) /\ Boundary(text, next)

Stands(from, text, i) ==
    \/ Copied(from, text, i)
    \/ \E next \in (i + 1) .. (Len(text) + 1) : Replaced(from, text, i, next)

LEMMA GoesAsIs ==
    ASSUME NEW h, IsSequence(h), NEW t, IsSequence(t)
    PROVE  GoesAs(h \o t, Len(h), t) /\ \A i \in DOMAIN h : (h \o t)[i] = h[i]
<1>1. Len(h) \in Nat /\ Len(t) \in Nat
  BY SequenceFacts
<1> DEFINE u == h \o t
<1>2. /\ Len(u) = Len(h) + Len(t)
      /\ \A i \in DOMAIN h : u[i] = h[i]
      /\ \A i \in 1 .. Len(t) : \A k \in Nat : k = Len(h) + i => u[k] = t[i]
  BY ConcatFacts
<1> HIDE DEF u
<1>3. GoesAs(u, Len(h), t)
  BY <1>1, <1>2 DEF GoesAs
<1> QED
  BY <1>2, <1>3 DEF u

LEMMA StandsIs ==
    ASSUME NEW text, IsSequence(text), NEW aggressive, NEW from, NEW i \in DOMAIN text,
           ScanStep(from, text, aggressive, i),
           \A k \in 1 .. (Len(text) + 1) : from[k] \in Scanned(text)
    PROVE  Stands(from, text, i)
<1> DEFINE here == Starting(text, aggressive, i)
           chosen == Preferred(here)
<1>1. Len(text) \in Nat /\ DOMAIN text = 1 .. Len(text)
  BY SequenceFacts
<1>2. ASSUME NEW k \in 1 .. (Len(text) + 1) PROVE IsSequence(from[k].text)
  <2>1. from[k].text \in Seq(Clear(text))
    BY DEF Scanned
  <2> QED
    BY <2>1, InSeq
<1>3. CASE here = {}
  <2> DEFINE h == <<text[i]>>
             t == from[i + 1].text
             u == h \o t
  <2>1. from[i].text = u
    BY <1>3 DEF ScanStep
  <2>2. IsSequence(h) /\ Len(h) = 1 /\ 1 \in DOMAIN h /\ h[1] = text[i]
    BY OneIs
  <2>3. IsSequence(t)
    <3>1. i + 1 \in 1 .. (Len(text) + 1)
      BY <1>1
    <3> QED
      BY <1>2, <3>1
  <2>4. Unmatched(text, i)
    BY <1>3 DEF Unmatched, Starting, Proposed
  <2> HIDE DEF h, t, u
  <2>5. GoesAs(u, 1, t) /\ u[1] = text[i]
    BY <2>2, <2>3, GoesAsIs DEF u
  <2> QED
    BY <2>1, <2>4, <2>5 DEF Stands, Copied, t
<1>4. CASE here # {}
  <2>1. /\ chosen.next \in (i + 1) .. (Len(text) + 1)
        /\ Boundary(text, i) /\ Boundary(text, chosen.next)
    BY <1>4, HereFacts
  <2> DEFINE secret == SubSeq(text, i, chosen.next - 1)
             open == Piece("open", chosen.rule, 0, <<>>)
             print == Piece("print", "", 0, secret)
             h == <<open, print>>
             t == from[chosen.next].text
             u == h \o t
  <2>2. from[i].text = u
    <3> DEFINE e == Placeholder(secret, chosen.rule) \o t
               o == <<chosen.rule>> \o from[chosen.next].found
    <3>1. from[i] = [text |-> e, found |-> o]
      BY <1>4 DEF ScanStep
    <3>2. e = u
      BY DEF Placeholder
    <3> HIDE DEF e, o, u
    <3>3. from[i].text = e
      BY <3>1
    <3> QED
      BY <3>2, <3>3
  <2>3. open.kind = "open" /\ print.kind = "print"
    BY DEF Piece
  <2> HIDE DEF open, print
  <2>4. IsSequence(h) /\ Len(h) = 2 /\ DOMAIN h = {1, 2} /\ h[1] = open /\ h[2] = print
    BY TwoIs
  <2>5. IsSequence(t)
    <3>1. chosen.next \in 1 .. (Len(text) + 1)
      BY <1>1, <2>1
    <3> QED
      BY <1>2, <3>1
  <2> HIDE DEF h, t, u
  <2>6. GoesAs(u, 2, t) /\ u[1] = open /\ u[2] = print
    <3>1. GoesAs(h \o t, Len(h), t) /\ \A k \in DOMAIN h : (h \o t)[k] = h[k]
      BY <2>4, <2>5, GoesAsIs
    <3>2. 1 \in DOMAIN h /\ 2 \in DOMAIN h
      BY <2>4
    <3> QED
      BY <2>4, <3>1, <3>2 DEF u
  <2> HIDE DEF chosen
  <2> QED
    BY <2>1, <2>2, <2>3, <2>6 DEF Stands, Replaced, t
<1> QED
  BY <1>3, <1>4

\* r, what was made of the text from i on, up to its first placeholder.
Verbatim(r, text, i) ==
    \A m \in 1 .. Len(r) :
        (\A p \in 1 .. m : r[p].kind # "open") =>
            /\ i + m <= Len(text) + 1
            /\ \A p \in 1 .. m : \A k \in Nat : k + 1 = i + p => r[p] = text[k]

\* Each key in r has word characters against it.
Adjoined(r, text, i) ==
    \A p \in 1 .. Len(r) : r[p].kind = "key" =>
        \/ ~Boundary(r, p + 1)
        \/ p > 1 /\ ~Boundary(r, p)
        \/ p = 1 /\ ~Boundary(text, i)

NoHeader(r) ==
    \A p, q \in 1 .. Len(r) : q = p + 1 => ~(r[p].kind = "dashes" /\ r[q].kind = "body")

LoginAt(r, p, q) ==
    /\ r[p].kind = "login" /\ r[q].kind = "at"
    /\ \A l \in (p + 1) .. (q - 1) : r[l].kind \in Userinfo \ {"open"}
    /\ \E l \in (p + 1) .. (q - 1) : r[l].kind # "glue"

NoLogin(r) == \A p, q \in 1 .. Len(r) : ~LoginAt(r, p, q)

Left(r, text, i) ==
    Verbatim(r, text, i) /\ Adjoined(r, text, i) /\ NoHeader(r) /\ NoLogin(r)

\* Places further on.
LEMMA BoundaryOn ==
    ASSUME NEW s, NEW d \in Nat, NEW t, GoesAs(s, d, t),
           NEW p \in 2 .. (Len(t) + 1), NEW q \in Nat, q = d + p
    PROVE  Boundary(s, q) <=> Boundary(t, p)
<1>1. /\ Len(s) \in Nat /\ Len(t) \in Nat /\ Len(s) = d + Len(t)
      /\ \A k \in 1 .. Len(t) : \A l \in Nat : l = d + k => s[l] = t[k]
  BY DEF GoesAs
<1>2. CASE p = Len(t) + 1
  <2>1. q = Len(s) + 1 /\ ~(p \in 2 .. Len(t)) /\ ~(q \in 2 .. Len(s))
    BY <1>1, <1>2
  <2> QED
    BY <2>1 DEF Boundary
<1>3. CASE p # Len(t) + 1
  <2>1. /\ p \in 2 .. Len(t) /\ q \in 2 .. Len(s) /\ p \in 1 .. Len(t)
        /\ p - 1 \in 1 .. Len(t) /\ q - 1 \in Nat /\ q - 1 = d + (p - 1)
    BY <1>1, <1>3
  <2>2. s[q] = t[p] /\ s[q - 1] = t[p - 1]
    BY <1>1, <2>1
  <2> QED
    BY <2>1, <2>2 DEF Boundary
<1> QED
  BY <1>2, <1>3

\* Behind the first pieces nothing is new.
LEMMA LeftOn ==
    ASSUME NEW s, NEW d \in 1 .. 2, NEW t, GoesAs(s, d, t), NEW text, NEW i, NEW next,
           Left(t, text, next)
    PROVE  /\ \A p, q \in (d + 1) .. Len(s) :
                 q = p + 1 => ~(s[p].kind = "dashes" /\ s[q].kind = "body")
           /\ \A p, q \in 1 .. Len(s) : p > d => ~LoginAt(s, p, q)
           /\ \A p \in (d + 1) .. Len(s) : s[p].kind = "key" =>
                 \/ ~Boundary(s, p + 1)
                 \/ p > d + 1 /\ ~Boundary(s, p)
                 \/ p = d + 1 /\ ~Boundary(text, next)
<1>1. /\ Len(s) \in Nat /\ Len(t) \in Nat /\ Len(s) = d + Len(t)
      /\ \A k \in 1 .. Len(t) : \A l \in Nat : l = d + k => s[l] = t[k]
  BY DEF GoesAs
<1>2. ASSUME NEW p \in (d + 1) .. Len(s)
      PROVE  p - d \in 1 .. Len(t) /\ p \in Nat /\ p = d + (p - d) /\ s[p] = t[p - d]
  <2>1. p - d \in 1 .. Len(t) /\ p \in Nat /\ p = d + (p - d)
    BY <1>1
  <2> QED
    BY <1>1, <2>1
<1>3. ASSUME NEW p \in (d + 1) .. Len(s), NEW q \in (d + 1) .. Len(s), q = p + 1
      PROVE  ~(s[p].kind = "dashes" /\ s[q].kind = "body")
  <2>1. q - d = (p - d) + 1
    BY <1>1, <1>3
  <2> QED
    BY <1>2, <2>1 DEF Left, NoHeader
<1>4. ASSUME NEW p \in 1 .. Len(s), NEW q \in 1 .. Len(s), p > d, LoginAt(s, p, q)
      PROVE  FALSE
  <2>1. PICK k \in (p + 1) .. (q - 1) : s[k].kind # "glue"
    BY <1>4 DEF LoginAt
  <2>2. p \in (d + 1) .. Len(s) /\ q \in (d + 1) .. Len(s)
        /\ k \in (d + 1) .. Len(s) /\ k - d \in ((p - d) + 1) .. ((q - d) - 1)
    BY <1>1, <1>4, <2>1
  <2>3. ASSUME NEW l \in ((p - d) + 1) .. ((q - d) - 1)
        PROVE  t[l].kind \in Userinfo \ {"open"}
    <3>1. l + d \in (p + 1) .. (q - 1) /\ l \in 1 .. Len(t) /\ l + d \in Nat /\ l + d = d + l
      BY <1>1, <1>2, <2>2
    <3>2. s[l + d] = t[l]
      BY <1>1, <3>1
    <3> QED
      BY <1>4, <3>1, <3>2 DEF LoginAt
  <2>4. t[k - d].kind # "glue" /\ t[p - d].kind = "login" /\ t[q - d].kind = "at"
    BY <1>2, <1>4, <2>1, <2>2 DEF LoginAt
  <2>5. LoginAt(t, p - d, q - d)
    BY <2>2, <2>3, <2>4 DEF LoginAt
  <2> QED
    BY <1>2, <2>2, <2>5 DEF Left, NoLogin
<1>5. ASSUME NEW p \in (d + 1) .. Len(s), s[p].kind = "key"
      PROVE  \/ ~Boundary(s, p + 1)
             \/ p > d + 1 /\ ~Boundary(s, p)
             \/ p = d + 1 /\ ~Boundary(text, next)
  <2> DEFINE k == p - d
  <2>1. k \in 1 .. Len(t) /\ t[k].kind = "key" /\ p \in Nat /\ p = d + k
    BY <1>2, <1>5
  <2> HIDE DEF k
  <2>2. \/ ~Boundary(t, k + 1)
        \/ k > 1 /\ ~Boundary(t, k)
        \/ k = 1 /\ ~Boundary(text, next)
    BY <2>1 DEF Left, Adjoined
  <2>3. CASE ~Boundary(t, k + 1)
    <3>1. k + 1 \in 2 .. (Len(t) + 1) /\ p + 1 \in Nat /\ p + 1 = d + (k + 1) /\ d \in Nat
      BY <1>1, <2>1
    <3>2. Boundary(s, p + 1) <=> Boundary(t, k + 1)
      BY <3>1, BoundaryOn
    <3> QED
      BY <2>3, <3>2
  <2>4. CASE k > 1 /\ ~Boundary(t, k)
    <3>1. k \in 2 .. (Len(t) + 1) /\ p > d + 1 /\ d \in Nat
      BY <1>1, <2>1, <2>4
    <3>2. Boundary(s, p) <=> Boundary(t, k)
      BY <2>1, <3>1, BoundaryOn
    <3> QED
      BY <2>4, <3>1, <3>2
  <2>5. CASE k = 1 /\ ~Boundary(text, next)
    BY <2>1, <2>5
  <2> QED
    BY <2>2, <2>3, <2>4, <2>5
<1> QED
  BY <1>3, <1>4, <1>5

LEMMA LeftReplaced ==
    ASSUME NEW text, IsSequence(text), NEW from, NEW i \in 1 .. Len(text),
           NEW next \in (i + 1) .. (Len(text) + 1), Replaced(from, text, i, next),
           Left(from[next].text, text, next)
    PROVE  Left(from[i].text, text, i)
<1> DEFINE r == from[i].text
           t == from[next].text
<1>1. /\ GoesAs(r, 2, t) /\ r[1].kind = "open" /\ r[2].kind = "print"
      /\ Boundary(text, next) /\ Left(t, text, next)
  BY DEF Replaced
<1> HIDE DEF r, t
<1>2. Len(r) \in Nat /\ 2 \in 1 .. 2
  BY <1>1 DEF GoesAs
<1>3. /\ \A p, q \in (2 + 1) .. Len(r) :
            q = p + 1 => ~(r[p].kind = "dashes" /\ r[q].kind = "body")
      /\ \A p, q \in 1 .. Len(r) : p > 2 => ~LoginAt(r, p, q)
      /\ \A p \in (2 + 1) .. Len(r) : r[p].kind = "key" =>
            \/ ~Boundary(r, p + 1)
            \/ p > 2 + 1 /\ ~Boundary(r, p)
            \/ p = 2 + 1 /\ ~Boundary(text, next)
  BY <1>1, <1>2, LeftOn
<1>4. ASSUME NEW p \in 1 .. Len(r)
      PROVE  p = 1 \/ p = 2 \/ (p > 2 /\ p \in (2 + 1) .. Len(r))
  BY <1>2
<1>5. Verbatim(r, text, i)
  <2>1. ASSUME NEW m \in 1 .. Len(r) PROVE ~ \A p \in 1 .. m : r[p].kind # "open"
    <3>1. 1 \in 1 .. m
      BY <1>2
    <3> QED
      BY <1>1, <3>1
  <2> QED
    BY <2>1 DEF Verbatim
<1>6. Adjoined(r, text, i)
  <2>1. ASSUME NEW p \in 1 .. Len(r), r[p].kind = "key"
        PROVE  ~Boundary(r, p + 1) \/ (p > 1 /\ ~Boundary(r, p))
    <3>1. p > 2 /\ p \in (2 + 1) .. Len(r)
      BY <1>1, <1>4, <2>1
    <3> QED
      BY <1>1, <1>2, <1>3, <2>1, <3>1
  <2> QED
    BY <2>1 DEF Adjoined
<1>7. NoHeader(r)
  <2>1. ASSUME NEW p \in 1 .. Len(r), NEW q \in 1 .. Len(r), q = p + 1,
               r[p].kind = "dashes", r[q].kind = "body"
        PROVE  FALSE
    <3>1. p > 2 /\ p \in (2 + 1) .. Len(r)
      BY <1>1, <1>4, <2>1
    <3>2. q \in (2 + 1) .. Len(r)
      BY <1>2, <2>1, <3>1
    <3> QED
      BY <1>3, <2>1, <3>1, <3>2
  <2> QED
    BY <2>1 DEF NoHeader
<1>8. NoLogin(r)
  <2>1. ASSUME NEW p \in 1 .. Len(r), NEW q \in 1 .. Len(r), LoginAt(r, p, q) PROVE FALSE
    <3>1. p > 2
      BY <1>1, <1>4, <2>1 DEF LoginAt
    <3> QED
      BY <1>3, <2>1, <3>1
  <2> QED
    BY <2>1 DEF NoLogin
<1> QED
  BY <1>5, <1>6, <1>7, <1>8 DEF Left, r

LEMMA VerbatimCopied ==
    ASSUME NEW text, IsSequence(text), NEW i \in 1 .. Len(text),
           NEW r, NEW t, GoesAs(r, 1, t), r[1] = text[i], Verbatim(t, text, i + 1)
    PROVE  Verbatim(r, text, i)
<1>1. /\ Len(r) \in Nat /\ Len(t) \in Nat /\ Len(r) = 1 + Len(t) /\ Len(text) \in Nat
      /\ \A k \in 1 .. Len(t) : \A l \in Nat : l = 1 + k => r[l] = t[k]
  BY SequenceFacts DEF GoesAs
<1>2. SUFFICES ASSUME NEW m \in 1 .. Len(r), \A p \in 1 .. m : r[p].kind # "open"
               PROVE  /\ i + m <= Len(text) + 1
                      /\ \A p \in 1 .. m : \A k \in Nat : k + 1 = i + p => r[p] = text[k]
  BY DEF Verbatim
<1>3. CASE m = 1
  <2>1. ASSUME NEW p \in 1 .. m, NEW k \in Nat, k + 1 = i + p PROVE r[p] = text[k]
    <3>1. p = 1 /\ k = i
      BY <1>3, <2>1
    <3> QED
      BY <3>1
  <2> QED
    BY <1>1, <1>3, <2>1
<1>4. CASE m # 1
  <2>1. m - 1 \in 1 .. Len(t)
    BY <1>1, <1>4
  <2>2. ASSUME NEW p \in 1 .. (m - 1)
        PROVE  p + 1 \in 1 .. m /\ p + 1 \in Nat /\ p \in 1 .. Len(t) /\ r[p + 1] = t[p]
    <3>1. p + 1 \in 1 .. m /\ p + 1 \in Nat /\ p \in 1 .. Len(t) /\ p + 1 = 1 + p
      BY <1>1
    <3> QED
      BY <1>1, <3>1
  <2>3. \A p \in 1 .. (m - 1) : t[p].kind # "open"
    BY <1>2, <2>2
  <2>4. /\ (i + 1) + (m - 1) <= Len(text) + 1
        /\ \A p \in 1 .. (m - 1) : \A k \in Nat : k + 1 = (i + 1) + p => t[p] = text[k]
    BY <2>1, <2>3 DEF Verbatim
  <2>5. ASSUME NEW p \in 1 .. m, NEW k \in Nat, k + 1 = i + p PROVE r[p] = text[k]
    <3>1. CASE p = 1
      <4>1. k = i
        BY <2>5, <3>1
      <4> QED
        BY <3>1, <4>1
    <3>2. CASE p # 1
      <4>1. p - 1 \in 1 .. (m - 1) /\ k + 1 = (i + 1) + (p - 1) /\ (p - 1) + 1 = p
        BY <2>5, <3>2
      <4>2. t[p - 1] = text[k]
        BY <2>4, <4>1
      <4>3. r[(p - 1) + 1] = t[p - 1]
        BY <2>2, <4>1
      <4> QED
        BY <4>1, <4>2, <4>3
    <3> QED
      BY <3>1, <3>2
  <2>6. i + m <= Len(text) + 1
    BY <1>1, <2>4
  <2> QED
    BY <2>5, <2>6
<1> QED
  BY <1>3, <1>4

\* A piece was copied, and what stands next is known.
LEMMA LeftCopied ==
    ASSUME NEW text, IsSequence(text), NEW from, NEW i \in 1 .. Len(text),
           Copied(from, text, i),
           i + 1 \in 1 .. Len(text) => Stands(from, text, i + 1),
           Left(from[i + 1].text, text, i + 1)
    PROVE  Left(from[i].text, text, i)
<1> DEFINE r == from[i].text
           t == from[i + 1].text
<1>1. /\ GoesAs(r, 1, t) /\ r[1] = text[i] /\ Unmatched(text, i)
      /\ Left(t, text, i + 1)
  BY DEF Copied
<1>2. /\ Len(text) \in Nat /\ DOMAIN text = 1 .. Len(text)
  BY SequenceFacts
\* What stands next.
<1>3. i + 1 \in 1 .. Len(text) =>
         /\ 2 \in 1 .. Len(r)
         /\ \/ r[2] = text[i + 1] /\ Unmatched(text, i + 1)
            \/ r[2].kind = "open" /\ Boundary(text, i + 1)
  <2> SUFFICES ASSUME i + 1 \in 1 .. Len(text)
               PROVE  /\ 2 \in 1 .. Len(r)
                      /\ \/ r[2] = text[i + 1] /\ Unmatched(text, i + 1)
                         \/ r[2].kind = "open" /\ Boundary(text, i + 1)
    OBVIOUS
  <2>1. \/ Copied(from, text, i + 1)
        \/ \E next \in ((i + 1) + 1) .. (Len(text) + 1) : Replaced(from, text, i + 1, next)
    BY DEF Stands
  <2>2. /\ Len(t) \in Nat /\ Len(t) > 0
        /\ \/ t[1] = text[i + 1] /\ Unmatched(text, i + 1)
           \/ t[1].kind = "open" /\ Boundary(text, i + 1)
    <3>1. CASE Copied(from, text, i + 1)
      <4>1. GoesAs(t, 1, from[(i + 1) + 1].text) /\ t[1] = text[i + 1]
            /\ Unmatched(text, i + 1)
        BY <3>1 DEF Copied
      <4> HIDE DEF t
      <4>2. Len(t) \in Nat /\ Len(t) > 0
        BY <4>1 DEF GoesAs
      <4> QED
        BY <4>1, <4>2
    <3>2. ASSUME NEW next, Replaced(from, text, i + 1, next)
          PROVE  Len(t) \in Nat /\ Len(t) > 0 /\ t[1].kind = "open" /\ Boundary(text, i + 1)
      <4>1. GoesAs(t, 2, from[next].text) /\ t[1].kind = "open" /\ Boundary(text, i + 1)
        BY <3>2 DEF Replaced
      <4> HIDE DEF t
      <4>2. Len(t) \in Nat /\ Len(t) > 0
        BY <4>1 DEF GoesAs
      <4> QED
        BY <4>1, <4>2
    <3> QED
      BY <2>1, <3>1, <3>2
  <2> HIDE DEF r, t
  <2>3. 2 \in 1 .. Len(r) /\ r[2] = t[1]
    BY <1>1, <2>2 DEF GoesAs
  <2> QED
    BY <2>2, <2>3
<1> HIDE DEF r, t
<1>4. /\ Len(r) \in Nat /\ 1 \in 1 .. 2 /\ 1 \in 1 .. Len(r)
  BY <1>1 DEF GoesAs
<1>5. /\ \A p, q \in (1 + 1) .. Len(r) :
            q = p + 1 => ~(r[p].kind = "dashes" /\ r[q].kind = "body")
      /\ \A p, q \in 1 .. Len(r) : p > 1 => ~LoginAt(r, p, q)
      /\ \A p \in (1 + 1) .. Len(r) : r[p].kind = "key" =>
            \/ ~Boundary(r, p + 1)
            \/ p > 1 + 1 /\ ~Boundary(r, p)
            \/ p = 1 + 1 /\ ~Boundary(text, i + 1)
  BY <1>1, <1>4, LeftOn
<1>6. Verbatim(r, text, i)
  BY <1>1, VerbatimCopied DEF Left
<1>7. Adjoined(r, text, i)
  <2> SUFFICES ASSUME NEW p \in 1 .. Len(r), r[p].kind = "key"
               PROVE  \/ ~Boundary(r, p + 1)
                      \/ p > 1 /\ ~Boundary(r, p)
                      \/ p = 1 /\ ~Boundary(text, i)
    BY DEF Adjoined
  <2>1. ASSUME ~Boundary(text, i + 1)
        PROVE  /\ i + 1 \in 1 .. Len(text) /\ text[i].kind \in EndsWord
               /\ text[i + 1].kind \in StartsWord
    <3>1. (i + 1) - 1 = i /\ (i + 1 \in 2 .. Len(text) => i + 1 \in 1 .. Len(text))
      BY <1>2
    <3> QED
      BY <2>1, <3>1 DEF Boundary
  <2>2. ASSUME 2 \in 1 .. Len(r), r[1].kind \in EndsWord, r[2].kind \in StartsWord
        PROVE  ~Boundary(r, 2)
    <3>1. 2 \in 2 .. Len(r) /\ 2 - 1 = 1
      BY <1>4, <2>2
    <3> QED
      BY <2>2, <3>1 DEF Boundary
  <2>3. CASE p = 1
    <3>1. ~(Boundary(text, i) /\ Boundary(text, i + 1))
      <4> SUFFICES ASSUME Boundary(text, i), Boundary(text, i + 1) PROVE FALSE
        OBVIOUS
      <4>1. text[i].kind = "key"
        BY <1>1, <2>3
      <4>2. Span(i, i + 1, text[i].tag) \in ShapeSpans(text)
        BY <1>2, <4>1 DEF ShapeSpans
      <4>3. Span(i, i + 1, text[i].tag).first = i
        BY DEF Span
      <4> QED
        BY <1>1, <4>2, <4>3 DEF Unmatched
    <3>2. CASE ~Boundary(text, i + 1)
      <4>1. r[2] = text[i + 1] /\ 2 \in 1 .. Len(r)
        BY <1>3, <2>1, <3>2
      <4>2. ~Boundary(r, 2)
        BY <1>1, <2>1, <2>2, <3>2, <4>1
      <4> QED
        BY <2>3, <4>2
    <3> QED
      BY <2>3, <3>1, <3>2
  <2>4. CASE p = 2
    <3>1. CASE ~Boundary(text, i + 1)
      <4>1. r[1].kind \in EndsWord /\ r[2].kind \in StartsWord /\ 2 \in 1 .. Len(r)
        BY <1>1, <2>1, <2>4, <3>1 DEF StartsWord
      <4> QED
        BY <2>2, <2>4, <4>1
    <3>2. CASE Boundary(text, i + 1)
      BY <1>4, <1>5, <2>4, <3>2
    <3> QED
      BY <3>1, <3>2
  <2>5. CASE p # 1 /\ p # 2
    <3>1. p \in (1 + 1) .. Len(r) /\ p > 1 /\ p # 1 + 1
      BY <1>4, <2>5
    <3> QED
      BY <1>5, <3>1
  <2> QED
    BY <2>3, <2>4, <2>5
<1>8. NoHeader(r)
  <2> SUFFICES ASSUME NEW p \in 1 .. Len(r), NEW q \in 1 .. Len(r), q = p + 1,
                      r[p].kind = "dashes", r[q].kind = "body"
               PROVE  FALSE
    BY DEF NoHeader
  <2>1. CASE p = 1
    <3>1. q = 2 /\ \A l \in 1 .. 2 : r[l].kind # "open"
      <4>1. q = 2 /\ \A l \in 1 .. 2 : l = 1 \/ l = 2
        BY <2>1
      <4> QED
        BY <2>1, <4>1
    <3>2. i + 2 <= Len(text) + 1 /\ r[2] = text[i + 1]
      <4>1. 2 \in 1 .. 2 /\ i + 1 \in Nat /\ (i + 1) + 1 = i + 2
        OBVIOUS
      <4> QED
        BY <1>6, <3>1, <4>1 DEF Verbatim
    <3>3. i \in 1 .. (Len(text) - 1) /\ text[i].kind = "dashes" /\ text[i + 1].kind = "body"
      BY <1>1, <1>2, <2>1, <3>1, <3>2
    <3>4. Span(i, i + 2, "private-key-block") \in BlockSpans(text)
      BY <3>3 DEF BlockSpans
    <3>5. Span(i, i + 2, "private-key-block").first = i
      BY DEF Span
    <3> QED
      BY <1>1, <3>4, <3>5 DEF Unmatched
  <2>2. CASE p # 1
    <3>1. p \in (1 + 1) .. Len(r) /\ q \in (1 + 1) .. Len(r)
      BY <1>4, <2>2
    <3> QED
      BY <1>5, <3>1
  <2> QED
    BY <2>1, <2>2
<1>9. NoLogin(r)
  <2> SUFFICES ASSUME NEW p \in 1 .. Len(r), NEW q \in 1 .. Len(r), LoginAt(r, p, q)
               PROVE  FALSE
    BY DEF NoLogin
  <2>1. /\ p = 1
    <3>1. p = 1 \/ p > 1
      BY <1>4
    <3> QED
      BY <1>5, <3>1
  <2>2. PICK k \in (1 + 1) .. (q - 1) : r[k].kind # "glue"
    BY <2>1 DEF LoginAt
  <2>3. /\ r[1].kind = "login" /\ r[q].kind = "at"
        /\ \A l \in (1 + 1) .. (q - 1) : r[l].kind \in Userinfo \ {"open"}
    BY <2>1 DEF LoginAt
  <2>4. \A l \in 1 .. q : r[l].kind # "open"
    <3>1. \A l \in 1 .. q : l = 1 \/ l = q \/ l \in (1 + 1) .. (q - 1)
      BY <1>4
    <3> QED
      BY <2>3, <3>1
  <2>5. /\ i + q <= Len(text) + 1
        /\ \A l \in 1 .. q : \A c \in Nat : c + 1 = i + l => r[l] = text[c]
    BY <1>6, <2>4 DEF Verbatim
  <2> DEFINE e == i + q - 1
             j == RunEnd(text, i + 1, Userinfo)
  <2>6. q \in Nat /\ q > 2 /\ e \in Nat /\ e + 1 = i + q /\ e <= Len(text)
        /\ i + 1 \in 1 .. (Len(text) + 1) /\ i + 1 \in 1 .. Len(text) /\ e > i + 1
    BY <1>2, <1>4, <2>2, <2>5
  <2>7. text[e].kind = "at"
    <3>1. q \in 1 .. q
      BY <2>6
    <3> QED
      BY <2>3, <2>5, <2>6, <3>1
  <2> HIDE DEF e, j
  <2>8. ASSUME NEW c \in (i + 1) .. (e - 1)
        PROVE  text[c].kind \in Userinfo
    <3>1. c + 1 - i \in (1 + 1) .. (q - 1) /\ c + 1 - i \in 1 .. q /\ c \in Nat
          /\ c + 1 = i + (c + 1 - i)
      BY <2>6
    <3>2. r[c + 1 - i] = text[c]
      BY <2>5, <3>1
    <3> QED
      BY <2>3, <3>1, <3>2
  <2>9. /\ j \in (i + 1) .. (Len(text) + 1)
        /\ j = Len(text) + 1 \/ text[j].kind \notin Userinfo
        /\ \A c \in (i + 1) .. (j - 1) : text[c].kind \in Userinfo
    BY <2>6, RunEndFacts DEF j
  <2>10. j = e
    <3>1. ~(j < e)
      <4> SUFFICES ASSUME j < e PROVE FALSE
        OBVIOUS
      <4>1. j \in (i + 1) .. (e - 1) /\ j # Len(text) + 1
        BY <1>2, <2>6, <2>9
      <4> QED
        BY <2>8, <2>9, <4>1
    <3>2. ~(e < j)
      <4> SUFFICES ASSUME e < j PROVE FALSE
        OBVIOUS
      <4>1. e \in (i + 1) .. (j - 1)
        BY <1>2, <2>6, <2>9
      <4> QED
        BY <2>7, <2>9, <4>1 DEF Userinfo
    <3> QED
      BY <1>2, <2>6, <2>9, <3>1, <3>2
  <2>11. \E c \in (i + 1) .. (j - 1) : text[c].kind # "glue"
    <3>1. i + k - 1 \in (i + 1) .. (e - 1) /\ k \in 1 .. q
          /\ i + k - 1 \in Nat /\ (i + k - 1) + 1 = i + k
      <4>1. i \in Nat /\ k \in Nat /\ 2 <= k /\ k <= q - 1
        BY <1>2, <2>2, <2>6
      <4> HIDE DEF LoginAt
      <4> QED
        BY <2>6, <4>1
    <3>2. r[k] = text[i + k - 1]
      BY <2>5, <3>1
    <3> QED
      BY <2>2, <2>10, <3>1, <3>2
  <2>12. Span(i + 1, j, "credentialed-url") \in UrlSpans(text)
    <3>1. text[i].kind = "login" /\ i \in DOMAIN text /\ j <= Len(text) /\ text[j].kind = "at"
      BY <1>1, <1>2, <2>3, <2>6, <2>7, <2>10
    <3> QED
      BY <2>11, <3>1 DEF UrlSpans, j
  <2>13. ~Unmatched(text, i + 1)
    <3>1. Span(i + 1, j, "credentialed-url").first = i + 1
      BY DEF Span
    <3> QED
      BY <2>12, <3>1 DEF Unmatched
  <2>14. r[2].kind = "open"
    BY <1>3, <2>6, <2>13
  <2>15. 2 \in 1 .. q
    BY <2>6
  <2> QED
    BY <2>4, <2>14, <2>15
<1> QED
  BY <1>6, <1>7, <1>8, <1>9 DEF Left, r

\* From each place on, and so from the first.
LEMMA LeftEverywhere ==
    ASSUME NEW text, IsSequence(text), NEW from,
           from[Len(text) + 1].text = <<>>,
           \A i \in DOMAIN text : Stands(from, text, i)
    PROVE  Left(from[1].text, text, 1)
<1> DEFINE n == Len(text)
           D == 1 .. (n + 1)
           m == [i \in D |-> n + 1 - i]
           T == {i \in D : Left(from[i].text, text, i)}
<1>1. n \in Nat /\ DOMAIN text = 1 .. n
  BY SequenceFacts
<1>2. Left(from[n + 1].text, text, n + 1)
  <2> DEFINE r == from[n + 1].text
  <2>1. Len(r) = 0
    BY EmptyIs
  <2> HIDE DEF r
  <2>2. \A p \in 1 .. Len(r) : FALSE
    BY <2>1
  <2>3. Left(r, text, n + 1)
    BY <2>2 DEF Left, Verbatim, Adjoined, NoHeader, NoLogin
  <2> QED
    BY <2>3 DEF r
<1>3. ASSUME NEW i \in D, \A j \in D : m[j] < m[i] => j \in T PROVE i \in T
  <2>1. CASE i = n + 1
    BY <1>2, <2>1
  <2>2. CASE i # n + 1
    <3>1. i \in 1 .. n
      BY <1>1, <2>2
    <3>2. ASSUME NEW next \in (i + 1) .. (n + 1) PROVE Left(from[next].text, text, next)
      <4>1. next \in D /\ m[next] < m[i]
        BY <1>1, <3>1
      <4> QED
        BY <1>3, <4>1
    <3>3. i + 1 \in (i + 1) .. (n + 1)
      BY <1>1, <3>1
    <3>4. i + 1 \in 1 .. n => Stands(from, text, i + 1)
      BY <1>1
    <3>5. CASE Copied(from, text, i)
      BY <3>1, <3>2, <3>3, <3>4, <3>5, LeftCopied
    <3>6. ASSUME NEW next \in (i + 1) .. (n + 1), Replaced(from, text, i, next)
          PROVE  Left(from[i].text, text, i)
      BY <3>1, <3>2, <3>6, LeftReplaced
    <3> QED
      BY <1>1, <3>1, <3>5, <3>6 DEF Stands
  <2> QED
    BY <2>1, <2>2
<1>4. m \in [D -> Nat] /\ 1 \in D
  BY <1>1
<1> HIDE DEF T, m, D
<1>5. \A i \in D : (\A j \in D : m[j] < m[i] => j \in T) => i \in T
  BY <1>3
<1>6. \A i \in D : i \in T
  BY <1>4, <1>5, Descends
<1> QED
  BY <1>4, <1>6 DEF T

\* What is left as it was written is no match of a rule for a known shape.
LEMMA NoneExposed ==
    ASSUME NEW text, NEW r, IsSequence(r), Left(r, text, 1)
    PROVE  Exposed(r) = {}
<1>1. Len(r) \in Nat /\ DOMAIN r = 1 .. Len(r)
  BY SequenceFacts
<1>2. ShapeSpans(r) = {}
  <2> SUFFICES ASSUME NEW i \in DOMAIN r, r[i].kind = "key",
                      Boundary(r, i), Boundary(r, i + 1)
               PROVE  FALSE
    BY DEF ShapeSpans
  <2>1. Boundary(text, 1)
    BY DEF Boundary
  <2> QED
    BY <1>1, <2>1 DEF Left, Adjoined
<1>3. BlockSpans(r) = {}
  <2> SUFFICES ASSUME NEW i \in 1 .. (Len(r) - 1), r[i].kind = "dashes",
                      r[i + 1].kind = "body"
               PROVE  FALSE
    BY DEF BlockSpans
  <2>1. i \in 1 .. Len(r) /\ i + 1 \in 1 .. Len(r)
    BY <1>1
  <2> QED
    BY <2>1 DEF Left, NoHeader
<1>4. ASSUME NEW s \in UrlSpans(r), \A l \in s.first .. (s.next - 1) : r[l].kind # "open"
      PROVE  FALSE
  <2>1. PICK i \in DOMAIN r :
           /\ s = Span(i + 1, RunEnd(r, i + 1, Userinfo), "credentialed-url")
           /\ r[i].kind = "login"
           /\ \E l \in (i + 1) .. (RunEnd(r, i + 1, Userinfo) - 1) : r[l].kind # "glue"
           /\ RunEnd(r, i + 1, Userinfo) <= Len(r)
           /\ r[RunEnd(r, i + 1, Userinfo)].kind = "at"
    BY DEF UrlSpans
  <2> DEFINE j == RunEnd(r, i + 1, Userinfo)
  <2>2. i + 1 \in 1 .. (Len(r) + 1)
    BY <1>1
  <2>3. /\ j \in (i + 1) .. (Len(r) + 1)
        /\ \A l \in (i + 1) .. (j - 1) : r[l].kind \in Userinfo
    BY <2>2, RunEndFacts
  <2>4. s.first = i + 1 /\ s.next = j
    BY <2>1 DEF Span
  <2>5. /\ r[i].kind = "login" /\ r[j].kind = "at" /\ j <= Len(r)
        /\ \E l \in (i + 1) .. (j - 1) : r[l].kind # "glue"
    BY <2>1
  <2> HIDE DEF j
  <2>6. \A l \in (i + 1) .. (j - 1) : r[l].kind # "open"
    BY <1>4, <2>4
  <2>7. LoginAt(r, i, j)
    BY <2>3, <2>5, <2>6 DEF LoginAt
  <2>8. i \in 1 .. Len(r) /\ j \in 1 .. Len(r)
    BY <1>1, <2>3, <2>5
  <2> QED
    BY <2>7, <2>8 DEF Left, NoLogin
<1> QED
  BY <1>2, <1>3, <1>4 DEF Exposed

LEMMA LeavesNone ==
    ASSUME NEW text, IsSequence(text), NEW aggressive, NEW from,
           from[Len(text) + 1] = [text |-> <<>>, found |-> <<>>],
           \A i \in DOMAIN text : ScanStep(from, text, aggressive, i),
           \A i \in 1 .. (Len(text) + 1) : from[i] \in Scanned(text)
    PROVE  Exposed(from[1].text) = {}
<1>1. Len(text) \in Nat /\ 1 \in 1 .. (Len(text) + 1)
  BY SequenceFacts
<1>2. \A i \in DOMAIN text : Stands(from, text, i)
  BY StandsIs
<1>3. from[Len(text) + 1].text = <<>>
  OBVIOUS
<1>4. Left(from[1].text, text, 1)
  BY <1>2, <1>3, LeftEverywhere
<1>5. IsSequence(from[1].text)
  <2>1. from[1].text \in Seq(Clear(text))
    BY <1>1 DEF Scanned
  <2> QED
    BY <2>1, InSeq
<1> QED
  BY <1>4, <1>5, NoneExposed

-----------------------------------------------------------------------------

\* In what scan_text returns no rule for a known shape matches; a text in which it
\* finds nothing is the text it was.
LEMMA ScanFacts ==
    ASSUME NEW text, IsSequence(text), NEW aggressive
    PROVE  LET result == ScanText(text, aggressive)
           IN /\ IsSequence(result.text) /\ IsSequence(result.found)
              /\ Exposed(result.text) = {}
              /\ result.found = <<>> => result.text = text
<1> DEFINE n == Len(text)
           D == 1 .. (n + 1)
           m == [i \in D |-> n + 1 - i]
<1>1. PICK from :
         /\ ScanText(text, aggressive) = from[1]
         /\ from[n + 1] = [text |-> <<>>, found |-> <<>>]
         /\ \A i \in DOMAIN text : ScanStep(from, text, aggressive, i)
         /\ \A i \in D : from[i] \in Scanned(text)
  BY ScanSteps
<1>2. n \in Nat /\ 1 \in D /\ DOMAIN text = 1 .. n
  BY SequenceFacts
<1>3. /\ from[1].text \in Seq(Clear(text))
      /\ IsSequence(from[1].text) /\ IsSequence(from[1].found)
  <2>1. from[1].text \in Seq(Clear(text)) /\ from[1].found \in Seq(Rules(text))
    BY <1>1, <1>2 DEF Scanned
  <2> QED
    BY <2>1, InSeq
\* From each place on.
<1> DEFINE Same(i) == from[i].found = <<>> =>
                         /\ IsSequence(from[i].text) /\ Len(from[i].text) = n + 1 - i
                         /\ \A k \in 1 .. (n + 1 - i) : \A l \in Nat :
                               l = k + i - 1 => from[i].text[k] = text[l]
           T == {i \in D : Same(i)}
<1>4. Same(n + 1)
  <2>1. from[n + 1].text = <<>>
    BY <1>1
  <2> QED
    BY <1>2, <2>1, EmptyIs
<1>5. ASSUME NEW i \in 1 .. n, Same(i + 1) PROVE Same(i)
  <2> SUFFICES ASSUME from[i].found = <<>>
               PROVE  /\ IsSequence(from[i].text) /\ Len(from[i].text) = n + 1 - i
                      /\ \A k \in 1 .. (n + 1 - i) : \A l \in Nat :
                            l = k + i - 1 => from[i].text[k] = text[l]
    OBVIOUS
  <2> DEFINE here == Starting(text, aggressive, i)
             chosen == Preferred(here)
             rest == from[i + 1]
             first == <<text[i]>>
  <2>1. ScanStep(from, text, aggressive, i) /\ i + 1 \in D /\ n \in Nat /\ i \in Nat
    BY <1>1, <1>2
  <2>2. here = {}
    <3> SUFFICES ASSUME here # {} PROVE FALSE
      OBVIOUS
    <3>1. chosen.next \in (i + 1) .. (n + 1)
      BY <1>2, HereFacts
    <3>2. chosen.next \in D
      BY <1>2, <3>1
    <3> HIDE DEF here, chosen
    <3>3. from[i].found = <<chosen.rule>> \o from[chosen.next].found
      BY <2>1 DEF ScanStep, here, chosen
    <3>4. from[chosen.next].found \in Seq(Rules(text))
      BY <1>1, <3>2 DEF Scanned
    <3>5. IsSequence(from[chosen.next].found) /\ IsSequence(<<chosen.rule>>)
          /\ Len(<<chosen.rule>>) = 1
      <4>1. <<chosen.rule>> \in Seq({chosen.rule}) /\ Len(<<chosen.rule>>) = 1
        OBVIOUS
      <4> QED
        BY <3>4, <4>1, InSeq
    <3> DEFINE one == <<chosen.rule>>
               more == from[chosen.next].found
    <3>6. IsSequence(one) /\ IsSequence(more) /\ Len(one) = 1 /\ Len(more) \in Nat
      BY <3>5, SequenceFacts
    <3>7. from[i].found = one \o more
      BY <3>3
    <3> HIDE DEF one, more
    <3>8. Len(one \o more) = Len(one) + Len(more)
      BY <3>6, ConcatFacts
    <3>9. Len(from[i].found) = 0
      BY EmptyIs
    <3> QED
      BY <3>6, <3>7, <3>8, <3>9
  <2>3. from[i].text = first \o rest.text /\ from[i].found = rest.found
    BY <2>1, <2>2 DEF ScanStep
  <2>4. IsSequence(first) /\ Len(first) = 1 /\ first[1] = text[i] /\ 1 \in DOMAIN first
    <3>1. first \in Seq({text[i]}) /\ Len(first) = 1 /\ first[1] = text[i] /\ 1 \in DOMAIN first
      OBVIOUS
    <3> QED
      BY <3>1, InSeq
  <2>5. /\ IsSequence(rest.text) /\ Len(rest.text) = n - i
        /\ \A k \in 1 .. (n - i) : \A l \in Nat : l = k + i => rest.text[k] = text[l]
    <3>1. n + 1 - (i + 1) = n - i /\ \A k \in 1 .. (n - i) : k + (i + 1) - 1 = k + i
      BY <2>1
    <3> HIDE DEF n
    <3> QED
      BY <1>5, <2>3, <3>1
  <2> DEFINE tail == rest.text
             both == first \o tail
  <2>a. IsSequence(tail) /\ IsSequence(first)
    BY <2>4, <2>5
  <2> HIDE DEF first, rest, here, tail
  <2>b. /\ IsSequence(both) /\ Len(both) = Len(first) + Len(tail)
        /\ \A k \in DOMAIN first : both[k] = first[k]
    BY <2>a, ConcatFacts
  <2>c. \A k \in 1 .. Len(tail) : \A l \in Nat : l = Len(first) + k => both[l] = tail[k]
    BY <2>a, ConcatFacts
  <2> HIDE DEF both
  <2>6. /\ IsSequence(both) /\ Len(both) = 1 + Len(rest.text) /\ both[1] = text[i]
    BY <2>4, <2>b DEF tail
  <2>7. \A k \in 1 .. Len(rest.text) : \A l \in Nat : l = 1 + k => both[l] = rest.text[k]
    BY <2>4, <2>c DEF tail
  <2>8. from[i].text = both
    BY <2>3 DEF tail, both
  <2> HIDE DEF n
  <2>9. ASSUME NEW k \in 1 .. (n + 1 - i), NEW l \in Nat, l = k + i - 1
        PROVE  both[k] = text[l]
    <3>0. k \in Nat
      OBVIOUS
    <3>1. CASE k = 1
      <4>1. l = i
        BY <2>1, <2>9, <3>1
      <4> QED
        BY <2>6, <3>1, <4>1
    <3>2. CASE k # 1
      <4>1. k - 1 \in 1 .. (n - i) /\ k = 1 + (k - 1) /\ l = (k - 1) + i
        BY <2>1, <2>9, <3>0, <3>2
      <4>2. both[k] = rest.text[k - 1]
        BY <2>5, <2>7, <3>0, <4>1
      <4>3. rest.text[k - 1] = text[l]
        BY <2>5, <4>1
      <4> QED
        BY <4>2, <4>3
    <3> QED
      BY <3>1, <3>2
  <2>10. 1 + Len(rest.text) = n + 1 - i
    BY <2>1, <2>5
  <2> QED
    BY <2>6, <2>8, <2>9, <2>10
<1>6. \A i \in D : i \in T
  <2>1. ASSUME NEW i \in D, \A j \in D : m[j] < m[i] => j \in T PROVE i \in T
    <3>1. CASE i = n + 1
      BY <1>4, <3>1
    <3>2. CASE i # n + 1
      <4>1. i \in 1 .. n /\ i + 1 \in D /\ m[i + 1] < m[i]
        BY <1>2, <3>2
      <4> HIDE DEF Same, m, D
      <4>2. Same(i + 1)
        BY <2>1, <4>1
      <4> QED
        BY <1>5, <4>1, <4>2
    <3> QED
      BY <3>1, <3>2
  <2>2. m \in [D -> Nat]
    BY <1>2
  <2> HIDE DEF T, m, D
  <2>3. \A i \in D : (\A j \in D : m[j] < m[i] => j \in T) => i \in T
    BY <2>1
  <2> QED
    BY <2>2, <2>3, Descends
<1>7. from[1].found = <<>> => from[1].text = text
  <2> SUFFICES ASSUME from[1].found = <<>> PROVE from[1].text = text
    OBVIOUS
  <2>1. /\ IsSequence(from[1].text) /\ Len(from[1].text) = n + 1 - 1
        /\ \A k \in 1 .. (n + 1 - 1) : \A l \in Nat : l = k + 1 - 1 => from[1].text[k] = text[l]
    BY <1>2, <1>6
  <2>2. n + 1 - 1 = n /\ \A k \in 1 .. n : k \in Nat /\ k = k + 1 - 1
    BY <1>2
  <2> HIDE DEF n
  <2>3. Len(from[1].text) = n /\ \A k \in 1 .. n : from[1].text[k] = text[k]
    BY <2>1, <2>2
  <2> QED
    BY <2>1, <2>3, SameSequence DEF n
<1>8. Exposed(from[1].text) = {}
  BY <1>1, LeavesNone
<1> QED
  BY <1>1, <1>3, <1>7, <1>8

-----------------------------------------------------------------------------
(* FlattenSeq *)

LEMMA FlattenSteps ==
    ASSUME NEW ss, IsSequence(ss), Len(ss) # 0,
           \A i \in DOMAIN ss : IsSequence(ss[i])
    PROVE  \E g : /\ FlattenSeq(ss) = g[Len(ss)] /\ g[1] = ss[1]
                  /\ \A i \in 2 .. Len(ss) : g[i] = g[i - 1] \o ss[i]
<1> DEFINE n == Len(ss)
           D == 1 .. n
           E == UNION {ToSet(ss[i]) : i \in D}
           V == Seq(E)
           Body(f, i) == IF i = 1 THEN ss[i] ELSE f[i - 1] \o ss[i]
           m == [i \in D |-> i - 1]
           next == [i \in D |-> i - 1]
           op == [r \in D \X V |-> r[2] \o ss[r[1]]]
           iter == CHOOSE f : f = [i \in D |-> Body(f, i)]
<1>1. n \in Nat /\ n # 0 /\ 1 \in D /\ n \in D /\ D = DOMAIN ss
      /\ \A i \in D \ {1} : i - 1 \in D /\ i - 1 < i
  BY SequenceFacts
<1>2. FlattenSeq(ss) = iter[n]
  BY <1>1 DEF FlattenSeq
<1>3. ASSUME NEW i \in D PROVE ss[i] \in V
  <2> DEFINE s == ss[i]
             F == ToSet(s)
  <2>1. s \in Seq(F) /\ F \in {ToSet(ss[k]) : k \in D}
    <3>1. IsSequence(s)
      BY <1>1
    <3> QED
      BY <3>1 DEF IsSequence
  <2>2. F \in SUBSET E
    BY <2>1
  <2> HIDE DEF E, F, s
  <2>3. \A k \in 1 .. Len(s) : s[k] \in E
    BY <2>1, <2>2
  <2>4. s = [k \in 1 .. Len(s) |-> s[k]] /\ Len(s) \in Nat
    BY <2>1
  <2>5. s \in V
    BY <2>3, <2>4
  <2> QED
    BY <2>5 DEF s
<1> HIDE DEF E
<1>4. op \in [D \X V -> V]
  <2> SUFFICES ASSUME NEW i \in D, NEW v \in V PROVE v \o ss[i] \in V
    OBVIOUS
  <2>1. ss[i] \in V
    BY <1>3
  <2> HIDE DEF D
  <2> QED
    BY <2>1
<1>5. \E f : f = [i \in D |-> Body(f, i)]
  <2>1. m \in [D -> 0 .. n] /\ \A i \in D \ {1} : next[i] \in D /\ m[next[i]] < m[i]
    BY <1>1
  <2>2. ss[1] \in V
    BY <1>1, <1>3
  <2> HIDE DEF V, D, m, next, op, n
  <2>3. PICK f \in [D -> V] : Asks(f, D, {1}, ss[1], next, op)
    BY <1>1, <1>4, <2>1, <2>2, Unfolds
  <2>4. ASSUME NEW i \in D PROVE f[i] = Body(f, i)
    <3>1. CASE i = 1
      BY <2>3, <3>1 DEF Asks
    <3>2. CASE i # 1
      <4>1. next[i] = i - 1 /\ f[i - 1] \in V
        BY <1>1, <3>2 DEF next
      <4>2. f[i] = op[<<i, f[i - 1]>>]
        BY <2>3, <3>2, <4>1 DEF Asks
      <4> QED
        BY <3>2, <4>1, <4>2 DEF op
    <3> QED
      BY <3>1, <3>2
  <2>5. f = [i \in D |-> Body(f, i)]
    <3> HIDE DEF Body
    <3> QED
      BY <2>4
  <2> QED
    BY <2>5
<1>6. iter = [i \in D |-> Body(iter, i)]
  <2> HIDE DEF Body
  <2> QED
    BY <1>5
<1> HIDE DEF iter
<1>7. ASSUME NEW i \in D PROVE iter[i] = Body(iter, i)
  <2> HIDE DEF Body
  <2> QED
    BY <1>6
<1>8. iter[1] = ss[1]
  BY <1>1, <1>7
<1>9. ASSUME NEW i \in 2 .. n PROVE iter[i] = iter[i - 1] \o ss[i]
  <2>1. i \in D /\ i # 1
    BY <1>1
  <2> QED
    BY <1>7, <2>1
<1> QED
  BY <1>2, <1>8, <1>9

LEMMA FlattenFacts ==
    ASSUME NEW ss, IsSequence(ss), \A i \in DOMAIN ss : IsSequence(ss[i])
    PROVE  /\ IsSequence(FlattenSeq(ss))
           /\ FlattenSeq(ss) = <<>> => \A i \in DOMAIN ss : ss[i] = <<>>
<1> DEFINE n == Len(ss)
<1>0. n \in Nat /\ DOMAIN ss = 1 .. n
  BY SequenceFacts
<1>1. CASE n = 0
  <2>1. FlattenSeq(ss) = ss
    BY <1>1 DEF FlattenSeq
  <2> QED
    BY <1>0, <1>1, <2>1
<1>2. CASE n # 0
  <2>1. PICK g : /\ FlattenSeq(ss) = g[n] /\ g[1] = ss[1]
                 /\ \A i \in 2 .. n : g[i] = g[i - 1] \o ss[i]
    BY <1>2, FlattenSteps
  <2> DEFINE OK(i) == /\ IsSequence(g[i])
                      /\ Len(g[i]) = 0 => \A k \in 1 .. i : Len(ss[k]) = 0
             T == {i \in 0 .. (n - 1) : OK(i + 1)}
  <2>2. n \in Nat /\ n - 1 \in Nat /\ 1 \in DOMAIN ss
    BY <1>0, <1>2
  <2> HIDE DEF n
  <2>3. 0 \in T
    <3>1. IsSequence(ss[1]) /\ 0 + 1 = 1 /\ \A k \in 1 .. 1 : k = 1
      BY <2>2
    <3> QED
      BY <2>1, <2>2, <3>1
  <2>4. ASSUME NEW i \in 0 .. (n - 2), i \in T PROVE i + 1 \in T
    <3> DEFINE j == i + 1
               k == i + 2
    <3>1. /\ k \in 2 .. n /\ k - 1 = j /\ k \in DOMAIN ss /\ j \in 0 .. (n - 1) /\ j + 1 = k
          /\ \A l \in 1 .. k : l \in 1 .. j \/ l = k
      BY <1>0, <2>2
    <3>2. OK(j)
      BY <2>4
    <3> HIDE DEF j, k
    <3>3. g[k] = g[j] \o ss[k] /\ IsSequence(g[j]) /\ IsSequence(ss[k])
      BY <2>1, <3>1, <3>2
    <3> DEFINE a == g[j]
               b == ss[k]
    <3>a. IsSequence(a) /\ IsSequence(b) /\ g[k] = a \o b
      BY <3>3
    <3> HIDE DEF a, b
    <3>b. IsSequence(a \o b) /\ Len(a \o b) = Len(a) + Len(b)
      BY <3>a, ConcatFacts
    <3>c. Len(a) \in Nat /\ Len(b) \in Nat
      BY <3>a, SequenceFacts
    <3>4. IsSequence(g[k]) /\ Len(g[k]) = Len(g[j]) + Len(ss[k])
          /\ Len(g[j]) \in Nat /\ Len(ss[k]) \in Nat
      BY <3>a, <3>b, <3>c DEF a, b
    <3>5. OK(k)
      BY <3>1, <3>2, <3>4
    <3> HIDE DEF OK
    <3>6. j \in T
      BY <3>1, <3>5
    <3> QED
      BY <3>6 DEF j
  <2>5. OK(n)
    <3>1. n - 1 \in T
      <4> DEFINE N == n - 1
      <4>1. N \in Nat /\ N - 1 = n - 2 /\ N \in 0 .. N
        BY <2>2
      <4> HIDE DEF T, N
      <4>2. \A i \in 0 .. (N - 1) : i \in T => i + 1 \in T
        BY <2>4, <4>1
      <4>3. N \in T
        BY <2>3, <4>1, <4>2, Ascends
      <4> QED
        BY <4>3 DEF N
    <3>2. (n - 1) + 1 = n
      BY <2>2
    <3> HIDE DEF OK
    <3> QED
      BY <3>1, <3>2
  <2>6. ASSUME FlattenSeq(ss) = <<>>, NEW i \in DOMAIN ss PROVE ss[i] = <<>>
    <3>1. Len(g[n]) = 0
      BY <2>1, <2>6, EmptyIs
    <3>2. IsSequence(ss[i]) /\ Len(ss[i]) = 0
      BY <1>0, <2>5, <3>1 DEF n
    <3> QED
      BY <3>2, EmptyWhen
  <2> QED
    BY <2>1, <2>5, <2>6
<1> QED
  BY <1>1, <1>2

-----------------------------------------------------------------------------
(* sanitize_state *)

LEMMA BothEmpty ==
    ASSUME NEW s, IsSequence(s), NEW t, IsSequence(t)
    PROVE  /\ IsSequence(s \o t)
           /\ s \o t = <<>> => s = <<>> /\ t = <<>>
<1> DEFINE u == s \o t
<1>1. IsSequence(u) /\ Len(u) = Len(s) + Len(t)
  BY ConcatFacts
<1> HIDE DEF u
<1>2. Len(s) \in Nat /\ Len(t) \in Nat
  BY SequenceFacts
<1>3. ASSUME u = <<>> PROVE s = <<>> /\ t = <<>>
  <2>1. Len(s) = 0 /\ Len(t) = 0
    BY <1>1, <1>2, <1>3, EmptyIs
  <2> QED
    BY <2>1, EmptyWhen
<1> QED
  BY <1>1, <1>3 DEF u

\* The memory that is kept is part of the memory, in its order.
LEMMA KeptFacts ==
    ASSUME NEW x, Document(x), NEW options
    PROVE  LET kept == Kept(x, options)
           IN /\ IsSequence(kept) /\ Len(kept) <= Len(x.memory)
              /\ Len(kept) = Len(x.memory) => kept = x.memory
              /\ \A i \in DOMAIN kept : IsEntry(kept[i])
              /\ Distinct(x.memory) => Distinct(kept)
<1> DEFINE C == {i \in DOMAIN x.memory : x.memory[i].kind \notin options.drop}
           kept == Kept(x, options)
<1>1. kept = Selected(x.memory, C) /\ C \cap DOMAIN x.memory = C
  BY DEF Kept
<1>2. IsSequence(x.memory) /\ \A i \in DOMAIN x.memory : IsEntry(x.memory[i])
  BY DocumentIs
<1> HIDE DEF C, kept
<1>3. /\ IsSequence(kept) /\ Len(kept) <= Len(x.memory)
      /\ Len(kept) = Len(x.memory) => kept = x.memory
      /\ Ordered(kept, x.memory, C)
  BY <1>1, <1>2, SelectedFacts
<1>4. C \in SUBSET DOMAIN x.memory
  BY DEF C
<1>5. PICK index \in [DOMAIN kept -> C] :
         /\ \A i, j \in DOMAIN kept : i < j => index[i] < index[j]
         /\ \A i \in DOMAIN kept : kept[i] = x.memory[index[i]]
  BY <1>3 DEF Ordered
<1>6. \A i \in DOMAIN kept : IsEntry(kept[i])
  BY <1>2, <1>4, <1>5
<1>7. ASSUME Distinct(x.memory) PROVE Distinct(kept)
  <2> SUFFICES ASSUME NEW i \in DOMAIN kept, NEW j \in DOMAIN kept, kept[i].id = kept[j].id
               PROVE  i = j
    BY DEF Distinct
  <2>1. index[i] \in DOMAIN x.memory /\ index[j] \in DOMAIN x.memory
    BY <1>4, <1>5
  <2>2. index[i] = index[j]
    BY <1>5, <1>7, <2>1 DEF Distinct
  <2>3. i \in Nat /\ j \in Nat
    BY <1>3, SequenceFacts
  <2>4. index[i] \in Nat /\ index[j] \in Nat
    BY <1>2, <2>1, SequenceFacts
  <2> QED
    BY <1>5, <2>2, <2>3, <2>4
<1> QED
  BY <1>3, <1>6, <1>7 DEF kept

\* What becomes of each section.
LEMMA CleanedIs ==
    ASSUME NEW x, x = Sections(x), NEW options
    PROVE  LET y == Cleaned(x, options)
               kept == Kept(x, options)
               clean(text) == ScanText(text, options.aggressive).text
           IN /\ y = Sections(y)
              /\ y.memory = [i \in DOMAIN kept |-> [kept[i] EXCEPT !.content = clean(@)]]
              /\ y.context = [i \in DOMAIN x.context |-> clean(x.context[i])]
              /\ y.params = clean(x.params) /\ y.cursor = clean(x.cursor)
              /\ y.runtime_opaque = IF Stripped(x, options) THEN <<>> ELSE clean(x.runtime_opaque)
              /\ y.opaque = x.opaque /\ y.artifacts = x.artifacts /\ y.requires = x.requires
              /\ y.optional = x.optional /\ y.events = x.events
<1> DEFINE y == Cleaned(x, options)
           kept == Kept(x, options)
           clean(text) == ScanText(text, options.aggressive).text
           M == [i \in DOMAIN kept |-> [kept[i] EXCEPT !.content = clean(@)]]
           C == [i \in DOMAIN x.context |-> clean(x.context[i])]
           P == clean(x.params)
           Q == clean(x.cursor)
           R == IF Stripped(x, options) THEN <<>> ELSE clean(x.runtime_opaque)
<1>1. y = [x EXCEPT !.memory = M, !.context = C, !.params = P, !.cursor = Q,
                    !.runtime_opaque = R]
  BY DEF Cleaned
<1> HIDE DEF M, C, P, Q, R, y
<1>2. /\ y = Sections(y) /\ y.memory = M /\ y.context = C /\ y.params = P /\ y.cursor = Q
      /\ y.runtime_opaque = R
      /\ y.opaque = x.opaque /\ y.artifacts = x.artifacts /\ y.requires = x.requires
      /\ y.optional = x.optional /\ y.events = x.events
  BY <1>1 DEF Sections
<1> QED
  BY <1>2 DEF M, C, P, Q, R, y

\* Cleaning keeps the shape of a document, and leaves no match of a known shape.
LEMMA CleanedFacts ==
    ASSUME NEW x, Document(x), Valid(x), NEW options
    PROVE  LET y == Cleaned(x, options)
           IN Document(y) /\ Valid(y) /\ Scrubbed(y) /\ y.events = x.events
<1> DEFINE y == Cleaned(x, options)
           kept == Kept(x, options)
           clean(text) == ScanText(text, options.aggressive).text
<1>1. /\ x = Sections(x)
      /\ IsSequence(x.memory) /\ IsSequence(x.context) /\ IsSequence(x.params)
      /\ IsSequence(x.cursor) /\ IsSequence(x.runtime_opaque)
      /\ IsSequence(x.artifacts) /\ IsSequence(x.events)
      /\ \A i \in DOMAIN x.context : IsSequence(x.context[i])
  BY DocumentIs
<1>2. /\ y = Sections(y)
      /\ y.memory = [i \in DOMAIN kept |-> [kept[i] EXCEPT !.content = clean(@)]]
      /\ y.context = [i \in DOMAIN x.context |-> clean(x.context[i])]
      /\ y.params = clean(x.params) /\ y.cursor = clean(x.cursor)
      /\ y.runtime_opaque = IF Stripped(x, options) THEN <<>> ELSE clean(x.runtime_opaque)
      /\ y.opaque = x.opaque /\ y.artifacts = x.artifacts /\ y.requires = x.requires
      /\ y.optional = x.optional /\ y.events = x.events
  BY <1>1, CleanedIs
<1>3. ASSUME NEW text, IsSequence(text)
      PROVE  IsSequence(clean(text)) /\ Exposed(clean(text)) = {}
  BY <1>3, ScanFacts
<1>4. /\ IsSequence(kept) /\ Len(kept) <= Len(x.memory)
      /\ \A i \in DOMAIN kept : IsEntry(kept[i])
      /\ Distinct(kept)
  BY KeptFacts DEF Valid
<1> HIDE DEF y, kept
<1>5. ASSUME NEW i \in DOMAIN kept
      PROVE  /\ i \in DOMAIN y.memory /\ IsEntry(y.memory[i])
             /\ y.memory[i].id = kept[i].id
             /\ Exposed(y.memory[i].content) = {}
  <2> DEFINE text == clean(kept[i].content)
  <2>1. y.memory[i] = [kept[i] EXCEPT !.content = text] /\ i \in DOMAIN y.memory
    BY <1>2
  <2>2. IsEntry(kept[i])
    BY <1>4
  <2>3. IsSequence(text) /\ Exposed(text) = {}
    BY <1>3, <2>2 DEF IsEntry
  <2> HIDE DEF text
  <2> QED
    BY <2>1, <2>2, <2>3 DEF IsEntry
<1>6. DOMAIN y.memory = DOMAIN kept /\ IsSequence(y.memory)
  <2>1. DOMAIN y.memory = DOMAIN kept
    BY <1>2
  <2>2. Len(kept) \in Nat /\ DOMAIN kept = 1 .. Len(kept)
    BY <1>4, SequenceFacts
  <2>3. y.memory = [i \in 1 .. Len(kept) |-> y.memory[i]]
    BY <1>2, <2>2
  <2> QED
    BY <2>1, <2>2, <2>3, IsASequence
<1>7. /\ IsSequence(y.context) /\ DOMAIN y.context = DOMAIN x.context
      /\ \A i \in DOMAIN y.context :
            IsSequence(y.context[i]) /\ Exposed(y.context[i]) = {}
  <2>1. DOMAIN y.context = DOMAIN x.context
    BY <1>2
  <2>2. Len(x.context) \in Nat /\ DOMAIN x.context = 1 .. Len(x.context)
    BY <1>1, SequenceFacts
  <2>3. y.context = [i \in 1 .. Len(x.context) |-> y.context[i]]
    BY <1>2, <2>2
  <2>4. IsSequence(y.context)
    BY <2>2, <2>3, IsASequence
  <2>5. ASSUME NEW i \in DOMAIN y.context
        PROVE  IsSequence(y.context[i]) /\ Exposed(y.context[i]) = {}
    <3>1. y.context[i] = clean(x.context[i]) /\ IsSequence(x.context[i])
      BY <1>1, <1>2, <2>1
    <3> QED
      BY <1>3, <3>1
  <2> QED
    BY <2>1, <2>4, <2>5
<1>8. /\ IsSequence(y.params) /\ Exposed(y.params) = {}
      /\ IsSequence(y.cursor) /\ Exposed(y.cursor) = {}
  BY <1>1, <1>2, <1>3
<1>9. IsSequence(y.runtime_opaque) /\ Exposed(y.runtime_opaque) = {}
  <2>1. IsSequence(<<>>) /\ Exposed(<<>>) = {}
    BY EmptyIs DEF Exposed, ShapeSpans, BlockSpans, UrlSpans
  <2>2. CASE Stripped(x, options)
    BY <1>2, <2>1, <2>2
  <2>3. CASE ~Stripped(x, options)
    BY <1>1, <1>2, <1>3, <2>3
  <2> QED
    BY <2>2, <2>3
<1>10. Document(y)
  BY <1>1, <1>2, <1>5, <1>6, <1>7, <1>8, <1>9, DocumentIs
<1>11. Valid(y)
  <2>1. Distinct(y.memory)
    BY <1>4, <1>5, <1>6 DEF Distinct
  <2>2. ArtifactIds(y) = ArtifactIds(x) /\ \A id : Parents(y, id) = Parents(x, id)
    BY <1>2 DEF ArtifactIds, Parents
  <2>3. ProvenanceOK(y) <=> ProvenanceOK(x)
    BY <2>2 DEF ProvenanceOK
  <2> QED
    BY <1>2, <2>1, <2>3 DEF Valid
<1>12. Scrubbed(y)
  <2>1. \A field \in {"params", "cursor", "runtime_opaque"} : Exposed(y[field]) = {}
    BY <1>8, <1>9
  <2> QED
    BY <1>5, <1>6, <1>7, <2>1 DEF Scrubbed
<1> QED
  BY <1>2, <1>10, <1>11, <1>12 DEF y

\* Nothing is reported only where nothing is changed.
LEMMA FindingsFacts ==
    ASSUME NEW x, Document(x), NEW options
    PROVE  /\ IsSequence(Findings(x, options))
           /\ Findings(x, options) = <<>> => Cleaned(x, options) = x
<1> DEFINE kept == Kept(x, options)
           found(text) == ScanText(text, options.aggressive).found
           clean(text) == ScanText(text, options.aggressive).text
           dropped == [i \in 1 .. Len(x.memory) - Len(kept) |-> "dropped-memory-kind"]
           memory == [i \in DOMAIN kept |-> found(kept[i].content)]
           context == [i \in DOMAIN x.context |-> found(x.context[i])]
           opaque == IF Stripped(x, options) THEN <<>> ELSE found(x.runtime_opaque)
           stripped == IF Stripped(x, options) THEN <<"stripped-runtime-opaque">> ELSE <<>>
<1>1. /\ x = Sections(x)
      /\ IsSequence(x.memory) /\ IsSequence(x.context) /\ IsSequence(x.params)
      /\ IsSequence(x.cursor) /\ IsSequence(x.runtime_opaque)
      /\ \A i \in DOMAIN x.context : IsSequence(x.context[i])
  BY DocumentIs
<1>2. ASSUME NEW text, IsSequence(text)
      PROVE  IsSequence(found(text)) /\ (found(text) = <<>> => clean(text) = text)
  BY <1>2, ScanFacts
<1>3. /\ IsSequence(kept) /\ Len(kept) <= Len(x.memory)
      /\ Len(kept) = Len(x.memory) => kept = x.memory
      /\ \A i \in DOMAIN kept : IsEntry(kept[i])
  BY KeptFacts
<1>4. Len(kept) \in Nat /\ DOMAIN kept = 1 .. Len(kept) /\ Len(x.memory) \in Nat
      /\ Len(x.context) \in Nat /\ DOMAIN x.context = 1 .. Len(x.context)
  BY <1>1, <1>3, SequenceFacts
<1>5. Findings(x, options) =
         dropped \o (FlattenSeq(memory) \o FlattenSeq(context)
                        \o found(x.params) \o found(x.cursor) \o opaque) \o stripped
  BY DEF Findings, TextFindings
<1> HIDE DEF kept, found, clean
<1>6. IsSequence(dropped) /\ (dropped = <<>> => kept = x.memory)
  <2> DEFINE d == Len(x.memory) - Len(kept)
  <2>1. d \in Nat /\ (d = 0 => Len(kept) = Len(x.memory))
    BY <1>3, <1>4
  <2>2. dropped = [i \in 1 .. d |-> dropped[i]]
    OBVIOUS
  <2> HIDE DEF d, dropped
  <2>3. IsSequence(dropped) /\ Len(dropped) = d
    BY <2>1, <2>2, IsASequence
  <2> QED
    BY <1>3, <2>1, <2>3, EmptyIs
<1>7. /\ IsSequence(FlattenSeq(memory))
      /\ FlattenSeq(memory) = <<>> => \A i \in DOMAIN kept : found(kept[i].content) = <<>>
  <2>1. \A i \in DOMAIN kept : memory[i] = found(kept[i].content) /\ IsSequence(memory[i])
    BY <1>2, <1>3 DEF IsEntry
  <2>2. memory = [i \in 1 .. Len(kept) |-> memory[i]] /\ DOMAIN memory = DOMAIN kept
    BY <1>4
  <2> HIDE DEF memory
  <2>3. IsSequence(memory)
    BY <1>4, <2>2, IsASequence
  <2> QED
    BY <2>1, <2>2, <2>3, FlattenFacts
<1>8. /\ IsSequence(FlattenSeq(context))
      /\ FlattenSeq(context) = <<>> => \A i \in DOMAIN x.context : found(x.context[i]) = <<>>
  <2>1. \A i \in DOMAIN x.context :
           context[i] = found(x.context[i]) /\ IsSequence(context[i])
    BY <1>1, <1>2
  <2>2. context = [i \in 1 .. Len(x.context) |-> context[i]] /\ DOMAIN context = DOMAIN x.context
    BY <1>4
  <2> HIDE DEF context
  <2>3. IsSequence(context)
    BY <1>4, <2>2, IsASequence
  <2> QED
    BY <2>1, <2>2, <2>3, FlattenFacts
<1>9. /\ IsSequence(found(x.params)) /\ IsSequence(found(x.cursor))
      /\ IsSequence(opaque) /\ IsSequence(stripped)
      /\ stripped = <<>> => ~Stripped(x, options)
  <2>1. IsSequence(<<>>)
    BY EmptyIs
  <2>2. IsSequence(<<"stripped-runtime-opaque">>) /\ <<"stripped-runtime-opaque">> # <<>>
    <3>1. <<"stripped-runtime-opaque">> \in Seq({"stripped-runtime-opaque"})
      OBVIOUS
    <3> QED
      BY <3>1, InSeq
  <2>3. IsSequence(found(x.runtime_opaque)) /\ IsSequence(found(x.params))
        /\ IsSequence(found(x.cursor))
    BY <1>1, <1>2
  <2> QED
    BY <2>1, <2>2, <2>3
<1> DEFINE a == FlattenSeq(memory)
           b == FlattenSeq(context)
           c == found(x.params)
           d == found(x.cursor)
           text == a \o b \o c \o d \o opaque
<1>10. /\ IsSequence(dropped) /\ IsSequence(a) /\ IsSequence(b) /\ IsSequence(c)
       /\ IsSequence(d) /\ IsSequence(opaque) /\ IsSequence(stripped)
       /\ Findings(x, options) = dropped \o text \o stripped
  BY <1>5, <1>6, <1>7, <1>8, <1>9
<1>11. /\ IsSequence(Findings(x, options))
       /\ Findings(x, options) = <<>> =>
             /\ dropped = <<>> /\ a = <<>> /\ b = <<>> /\ c = <<>> /\ d = <<>>
             /\ opaque = <<>> /\ stripped = <<>>
  <2> HIDE DEF dropped, a, b, c, d, opaque, stripped
  <2>1. IsSequence(a \o b) /\ (a \o b = <<>> => a = <<>> /\ b = <<>>)
    BY <1>10, BothEmpty
  <2> DEFINE ab == a \o b
  <2> HIDE DEF ab
  <2>2. IsSequence(ab \o c) /\ (ab \o c = <<>> => ab = <<>> /\ c = <<>>)
    BY <1>10, <2>1, BothEmpty DEF ab
  <2> DEFINE abc == ab \o c
  <2> HIDE DEF abc
  <2>3. IsSequence(abc \o d) /\ (abc \o d = <<>> => abc = <<>> /\ d = <<>>)
    BY <1>10, <2>2, BothEmpty DEF abc
  <2> DEFINE abcd == abc \o d
  <2> HIDE DEF abcd
  <2>4. IsSequence(abcd \o opaque)
        /\ (abcd \o opaque = <<>> => abcd = <<>> /\ opaque = <<>>)
    BY <1>10, <2>3, BothEmpty DEF abcd
  <2>5. text = abcd \o opaque
    BY DEF ab, abc, abcd
  <2> HIDE DEF text
  <2>6. IsSequence(dropped \o text) /\ (dropped \o text = <<>> => dropped = <<>> /\ text = <<>>)
    BY <1>10, <2>4, <2>5, BothEmpty
  <2> DEFINE all == dropped \o text
  <2> HIDE DEF all
  <2>7. IsSequence(all \o stripped) /\ (all \o stripped = <<>> => all = <<>> /\ stripped = <<>>)
    BY <1>10, <2>6, BothEmpty DEF all
  <2>8. Findings(x, options) = all \o stripped
    BY <1>10 DEF all
  <2>9. Findings(x, options) = <<>> => /\ dropped = <<>> /\ stripped = <<>> /\ text = <<>>
    BY <2>6, <2>7, <2>8 DEF all
  <2>10. text = <<>> => /\ a = <<>> /\ b = <<>> /\ c = <<>> /\ d = <<>> /\ opaque = <<>>
    BY <2>1, <2>2, <2>3, <2>4, <2>5 DEF ab, abc, abcd
  <2> QED
    BY <2>7, <2>8, <2>9, <2>10
<1>12. ASSUME Findings(x, options) = <<>> PROVE Cleaned(x, options) = x
  <2> DEFINE y == Cleaned(x, options)
  <2>1. /\ kept = x.memory /\ ~Stripped(x, options)
        /\ \A i \in DOMAIN kept : found(kept[i].content) = <<>>
        /\ \A i \in DOMAIN x.context : found(x.context[i]) = <<>>
        /\ found(x.params) = <<>> /\ found(x.cursor) = <<>>
    BY <1>6, <1>7, <1>8, <1>9, <1>11, <1>12
  <2>2. found(x.runtime_opaque) = <<>>
    BY <1>11, <1>12, <2>1
  <2>3. /\ clean(x.params) = x.params /\ clean(x.cursor) = x.cursor
        /\ clean(x.runtime_opaque) = x.runtime_opaque
    BY <1>1, <1>2, <2>1, <2>2
  <2>4. [i \in DOMAIN x.context |-> clean(x.context[i])] = x.context
    <3>1. \A i \in DOMAIN x.context : clean(x.context[i]) = x.context[i]
      BY <1>1, <1>2, <2>1
    <3>2. x.context = [i \in DOMAIN x.context |-> x.context[i]]
      BY <1>1, SequenceFacts
    <3> QED
      BY <3>1, <3>2
  <2>5. [i \in DOMAIN kept |-> [kept[i] EXCEPT !.content = clean(kept[i].content)]] = x.memory
    <3>1. ASSUME NEW i \in DOMAIN kept
          PROVE  [kept[i] EXCEPT !.content = clean(kept[i].content)] = kept[i]
      <4>1. clean(kept[i].content) = kept[i].content /\ IsEntry(kept[i])
        BY <1>2, <1>3, <2>1 DEF IsEntry
      <4> QED
        BY <4>1 DEF IsEntry
    <3>2. x.memory = [i \in DOMAIN kept |-> kept[i]]
      BY <1>3, <2>1, SequenceFacts
    <3> QED
      BY <3>1, <3>2
  <2>6. /\ y = Sections(y)
        /\ y.memory = [i \in DOMAIN kept |-> [kept[i] EXCEPT !.content = clean(@)]]
        /\ y.context = [i \in DOMAIN x.context |-> clean(x.context[i])]
        /\ y.params = clean(x.params) /\ y.cursor = clean(x.cursor)
        /\ y.runtime_opaque = IF Stripped(x, options) THEN <<>> ELSE clean(x.runtime_opaque)
        /\ y.opaque = x.opaque /\ y.artifacts = x.artifacts /\ y.requires = x.requires
        /\ y.optional = x.optional /\ y.events = x.events
    BY <1>1, CleanedIs DEF kept, clean
  <2> HIDE DEF y
  <2>7. y = Sections(x)
    BY <2>1, <2>3, <2>4, <2>5, <2>6 DEF Sections
  <2> QED
    BY <1>1, <2>7 DEF y
<1> QED
  BY <1>11, <1>12

\* The sanitized form of a document is one, with no match left; it is the document
\* itself if nothing was found, and says that it was sanitized otherwise.
LEMMA SanitizeFacts ==
    ASSUME NEW x, Document(x), Valid(x), NEW options
    PROVE  LET result == SanitizeState(x, options)
           IN /\ Document(result.state) /\ Valid(result.state) /\ Scrubbed(result.state)
              /\ result.found = <<>> => result.state = x
              /\ result.found # <<>> =>
                    result.state.events = Append(x.events, "state.sanitized")
<1> DEFINE found == Findings(x, options)
           y == Cleaned(x, options)
           z == [y EXCEPT !.events = Append(@, "state.sanitized")]
<1>1. SanitizeState(x, options).found = found
      /\ SanitizeState(x, options).state = IF found = <<>> THEN y ELSE z
  BY DEF SanitizeState
<1>2. Document(y) /\ Valid(y) /\ Scrubbed(y) /\ y.events = x.events
  BY CleanedFacts
<1>3. found = <<>> => y = x
  BY FindingsFacts
<1> HIDE DEF y, found
<1>4. /\ z = Sections(z) /\ z.memory = y.memory /\ z.context = y.context
      /\ z.params = y.params /\ z.cursor = y.cursor /\ z.artifacts = y.artifacts
      /\ z.runtime_opaque = y.runtime_opaque /\ z.requires = y.requires
      /\ z.optional = y.optional /\ z.events = Append(y.events, "state.sanitized")
  <2>1. y = Sections(y)
    BY <1>2, DocumentIs
  <2> QED
    BY <2>1 DEF Sections
<1> HIDE DEF z
<1>5. Document(z)
  <2>1. IsSequence(y.events)
    BY <1>2, DocumentIs
  <2>2. IsSequence(z.events)
    BY <1>4, <2>1, AppendFacts
  <2> QED
    BY <1>2, <1>4, <2>2, DocumentIs
<1>6. Valid(z)
  BY <1>2, <1>4, ValidSame
<1>7. Scrubbed(z)
  <2>1. z["params"] = y["params"] /\ z["cursor"] = y["cursor"]
        /\ z["runtime_opaque"] = y["runtime_opaque"]
    BY <1>4
  <2> QED
    BY <1>2, <1>4, <2>1 DEF Scrubbed
<1> QED
  BY <1>1, <1>2, <1>3, <1>4, <1>5, <1>6, <1>7

LEMMA SameIsEmpty ==
    ASSUME NEW x, Document(x)
    PROVE  Empty(DiffStates(x, x))
<1> DEFINE n == Len(x.events)
<1>1. IsSequence(x.events) /\ n \in Nat /\ Len(x.context) \in Nat
  BY EventsOf
<1>2. NewEvents(x, x) = <<>>
  <2> DEFINE t == SubSeq(x.events, n + 1, n)
  <2>1. n \in 0 .. Len(x.events) /\ n \in n .. Len(x.events) /\ n - n = 0
    BY <1>1
  <2> HIDE DEF n
  <2>2. IsSequence(t) /\ Len(t) = n - n
    BY <1>1, <2>1, SubSeqFacts
  <2>3. t = <<>>
    <3> HIDE DEF t
    <3> QED
      BY <2>1, <2>2, EmptyWhen
  <2> QED
    BY <2>3 DEF NewEvents, n
<1>3. Len(x.context) - Len(x.context) = 0
  BY <1>1
<1>4. /\ Untouched(CollectionDelta(MemoryIdentity(x), MemoryIdentity(x)))
      /\ Untouched(CollectionDelta(ArtifactIdentity(x), ArtifactIdentity(x)))
  BY DEF Untouched, CollectionDelta
<1> QED
  BY <1>2, <1>3, <1>4 DEF Empty, DiffStates, ScalarChanges

\* What sanitize reports accounts for what it changes.
LEMMA ReportFacts ==
    ASSUME NEW x, Document(x), Valid(x)
    PROVE  ReportAccountsFor(x)
<1> SUFFICES ASSUME NEW options \in Options
             PROVE  LET result == SanitizeState(x, options)
                        clean == result.found = <<>>
                    IN /\ clean <=> result.state = x
                       /\ clean <=> Empty(DiffStates(x, result.state))
                       /\ Valid(result.state)
  BY DEF ReportAccountsFor
<1> DEFINE z == SanitizeState(x, options).state
           found == SanitizeState(x, options).found
<1>1. /\ Document(z) /\ Valid(z)
      /\ found = <<>> => z = x
      /\ found # <<>> => z.events = Append(x.events, "state.sanitized")
  BY SanitizeFacts
<1> HIDE DEF z, found
<1>2. ASSUME found # <<>> PROVE z # x /\ ~Empty(DiffStates(x, z))
  <2> DEFINE n == Len(x.events)
             t == SubSeq(z.events, n + 1, n + 1)
  <2>1. IsSequence(x.events) /\ n \in Nat /\ IsSequence(z.events)
    BY <1>1, EventsOf
  <2>2. Len(z.events) = n + 1
    BY <1>1, <1>2, <2>1, AppendFacts
  <2>3. z # x
    BY <2>1, <2>2
  <2>4. n \in 0 .. Len(z.events) /\ n + 1 \in n .. Len(z.events) /\ (n + 1) - n = 1
    BY <2>1, <2>2
  <2> HIDE DEF n
  <2>5. Len(t) = (n + 1) - n
    BY <2>1, <2>4, SubSeqFacts
  <2>6. NewEvents(x, z) = t
    BY <2>2 DEF NewEvents, n
  <2>7. t # <<>>
    <3> HIDE DEF t
    <3> QED
      BY <2>4, <2>5, EmptyIs
  <2> QED
    BY <2>3, <2>6, <2>7 DEF Empty, DiffStates
<1>3. ASSUME found = <<>> PROVE z = x /\ Empty(DiffStates(x, z))
  BY <1>1, <1>3, SameIsEmpty
<1> QED
  BY <1>1, <1>2, <1>3 DEF z, found

-----------------------------------------------------------------------------
(* What travels *)

\* A file whose state says that it was sanitized was.
Carries(f) ==
    /\ Document(f.state) /\ f.state.events # <<>>
    /\ Last(f.state.events) = "state.sanitized" => Scrubbed(f.state) /\ f.blobs = <<>>

TravelOK ==
    /\ export.at = "idle" => export.file = NoFile
    /\ export.at # "idle" => Carries(export.file)
    /\ image # NoFile => Carries(image)

\* With what is known of the files and of the states at home, this is inductive.
TInv == IInv /\ HistoryOK /\ TravelOK

LEMMA StatesAre ==
    ASSUME HistoryOK, NEW x \in ToSet(states)
    PROVE  /\ Document(x) /\ Valid(x) /\ x.events # <<>>
           /\ Last(x.events) # "state.sanitized"
BY DEF ToSet, HistoryOK

LEMMA SourcesAre ==
    ASSUME TInv, NEW x \in Sources
    PROVE  Document(x) /\ Valid(x) /\ x.events # <<>>
<1>1. CASE x \in ToSet(states)
  BY <1>1, StatesAre DEF TInv
<1>2. CASE Readable(image) /\ x = image.state
  BY <1>2 DEF TInv, TravelOK, Carries, Readable
<1> QED
  BY <1>1, <1>2 DEF Sources

LEMMA WriteImageCarries ==
    ASSUME TInv, NEW x, NEW blobs, WriteImage(x, blobs), Carries(Archive(x, blobs))
    PROVE  TravelOK'
<1>1. image' = image
  BY DEF WriteImage
<1>2. CASE Accepts(x, blobs)
  <2>1. export' = [at |-> "fill", file |-> Archive(x, blobs)]
    BY <1>2 DEF WriteImage
  <2> QED
    BY <1>1, <2>1 DEF TInv, TravelOK
<1>3. CASE ~Accepts(x, blobs)
  BY <1>1, <1>3 DEF WriteImage, TInv, TravelOK
<1> QED
  BY <1>2, <1>3

LEMMA ArchiveIs ==
    ASSUME NEW x, NEW blobs
    PROVE  Archive(x, blobs).state = x /\ Archive(x, blobs).blobs = blobs
BY DEF Archive

LEMMA ExportCarries ==
    ASSUME TInv, NEW x \in ToSet(states), NEW artifacts \in BOOLEAN, Export(x, artifacts)
    PROVE  TravelOK'
<1> DEFINE blobs == IF artifacts THEN Offered(x) ELSE <<>>
<1>1. WriteImage(x, blobs)
  BY DEF Export
<1> HIDE DEF blobs
<1>2. Carries(Archive(x, blobs))
  BY StatesAre, ArchiveIs DEF TInv, Carries
<1> QED
  BY <1>1, <1>2, WriteImageCarries

LEMMA SanitizeCarries ==
    ASSUME TInv, NEW x \in Sources, NEW options \in Options, Sanitize(x, options)
    PROVE  TravelOK'
<1> DEFINE result == SanitizeState(x, options)
           z == result.state
<1>1. WriteImage(z, <<>>)
  BY DEF Sanitize
<1>2. Document(x) /\ Valid(x) /\ x.events # <<>>
  BY SourcesAre
<1>3. /\ Document(z) /\ Scrubbed(z)
      /\ result.found = <<>> => z = x
      /\ result.found # <<>> => z.events = Append(x.events, "state.sanitized")
  BY <1>2, SanitizeFacts
<1>4. z.events # <<>>
  <2>1. CASE result.found = <<>>
    BY <1>2, <1>3, <2>1
  <2>2. CASE result.found # <<>>
    <3> DEFINE t == Append(x.events, "state.sanitized")
    <3>1. IsSequence(x.events) /\ Len(x.events) \in Nat
      BY <1>2, EventsOf
    <3>2. Len(t) = Len(x.events) + 1
      BY <3>1, AppendFacts
    <3>3. t # <<>>
      <4> HIDE DEF t
      <4> QED
        BY <3>1, <3>2, EmptyIs
    <3> QED
      BY <1>3, <2>2, <3>3
  <2> QED
    BY <2>1, <2>2
<1> HIDE DEF z
<1>5. Carries(Archive(z, <<>>))
  BY <1>3, <1>4, ArchiveIs DEF Carries
<1> QED
  BY <1>1, <1>5, WriteImageCarries

LEMMA DamageCarries ==
    ASSUME TInv, NEW kind \in Damages, Damage(kind)
    PROVE  TravelOK'
<1>1. /\ image # NoFile /\ image' \in Damaged(kind, image) /\ export' = export
      /\ IsFile(image) /\ Carries(image)
  BY DEF Damage, TInv, IInv, PathOK, From, TravelOK
<1>0. kind \in {"cut", "tail", "state", "blob", "object", "digest"}
  BY DamageAssumption
<1>2. Carries(image')
  <2> DEFINE f == image
             h == image'
  <2>1. ASSUME h.state = f.state, h.blobs = f.blobs \/ f.blobs # <<>> PROVE Carries(h)
    BY <1>1, <2>1 DEF Carries
  <2>2. \A a \in DOMAIN f.blobs : f.blobs # <<>>
    BY EmptyIs
  <2>3. CASE kind = "cut"
    <3>1. h = [f EXCEPT !.cut = TRUE]
      BY <1>1, <2>3 DEF Damaged
    <3>2. h.state = f.state /\ h.blobs = f.blobs
      BY <1>1, <3>1 DEF IsFile
    <3> QED
      BY <2>1, <3>2
  <2>4. CASE kind = "tail"
    <3>1. h = [f EXCEPT !.tail = TRUE]
      BY <1>1, <2>4 DEF Damaged
    <3>2. h.state = f.state /\ h.blobs = f.blobs
      BY <1>1, <3>1 DEF IsFile
    <3> QED
      BY <2>1, <3>2
  <2>5. CASE kind = "state"
    <3>1. PICK x \in ToSet(states) : h = [f EXCEPT !.state = x]
      BY <1>1, <2>5 DEF Damaged
    <3>2. h.state = x
      BY <1>1, <3>1 DEF IsFile
    <3> QED
      BY <3>2, StatesAre DEF TInv, Carries
  <2>6. CASE kind = "blob"
    <3>1. PICK a \in DOMAIN f.blobs, c \in Contents : h = [f EXCEPT !.blobs[a] = c]
      BY <1>1, <2>6 DEF Damaged
    <3>2. h.state = f.state
      BY <1>1, <3>1 DEF IsFile
    <3> QED
      BY <2>1, <2>2, <3>1, <3>2
  <2>7. CASE kind = "object"
    <3>1. PICK a \in DOMAIN f.blobs : h = Without(f, a)
      BY <1>1, <2>7 DEF Damaged
    <3>2. h.state = f.state
      BY <1>1, <3>1 DEF IsFile, Without
    <3> QED
      BY <2>1, <2>2, <3>1, <3>2
  <2>8. CASE kind = "digest"
    <3>1. h = [f EXCEPT !.manifest.digest = NoDigest]
      BY <1>1, <2>8 DEF Damaged
    <3>2. h.state = f.state /\ h.blobs = f.blobs
      BY <1>1, <3>1 DEF IsFile
    <3> QED
      BY <2>1, <3>2
  <2> QED
    BY <1>0, <2>3, <2>4, <2>5, <2>6, <2>7, <2>8
<1> QED
  BY <1>1, <1>2 DEF TInv, TravelOK

LEMMA TravelInit == Init => TInv
BY InvInit, HistoryInit DEF Init, Idle, TInv, TravelOK

\* The checkpoints at home change by the work of the agent alone.
LEMMA AtHome ==
    ASSUME [Next]_vars
    PROVE  (\E i \in DOMAIN states : Work(i)) \/ UNCHANGED <<states, parent>>
<1>1. ASSUME NEW id \in Shared, NEW content \in Contents \cup {NoFile}, Rewrite(id, content)
      PROVE  UNCHANGED <<states, parent>>
  BY <1>1 DEF Rewrite
<1>2. ASSUME NEW x, NEW blobs, WriteImage(x, blobs) PROVE UNCHANGED <<states, parent>>
  BY <1>2 DEF WriteImage, home
<1>3. ASSUME Fill \/ Publish \/ Abandon PROVE UNCHANGED <<states, parent>>
  BY <1>3 DEF Fill, Publish, Abandon, home
<1>4. ASSUME BeginImport \/ RecordState \/ EndImport \/ AbandonImport
      PROVE  UNCHANGED <<states, parent>>
  BY <1>4 DEF BeginImport, RecordState, EndImport, AbandonImport, home
<1>5. ASSUME NEW a \in import.todo, PutBlob(a) PROVE UNCHANGED <<states, parent>>
  BY <1>5 DEF PutBlob, home
<1>6. ASSUME NEW kind \in Damages, Damage(kind) PROVE UNCHANGED <<states, parent>>
  BY <1>6 DEF Damage, home
<1>7. ASSUME UNCHANGED vars PROVE UNCHANGED <<states, parent>>
  BY <1>7 DEF vars
<1> QED
  BY <1>1, <1>2, <1>3, <1>4, <1>5, <1>6, <1>7 DEF Next, Export, Sanitize

LEMMA TravelNext == TInv /\ [Next]_vars => TInv'
<1> SUFFICES ASSUME TInv, [Next]_vars PROVE TInv'
  OBVIOUS
<1>1. IInv'
  BY InvNext DEF TInv
<1>2. HistoryOK'
  <2>1. CASE UNCHANGED <<states, parent>>
    BY <2>1 DEF TInv, HistoryOK
  <2> QED
    BY <2>1, AtHome, WorkKeeps DEF TInv
<1>3. TravelOK'
  <2>1. ASSUME NEW i \in DOMAIN states, Work(i) PROVE TravelOK'
    BY <2>1, WorkStaysHome DEF elsewhere, TInv, TravelOK
  <2>2. ASSUME NEW id \in Shared, NEW content \in Contents \cup {NoFile}, Rewrite(id, content)
        PROVE  TravelOK'
    BY <2>2 DEF Rewrite, path, TInv, TravelOK
  <2>3. ASSUME NEW x \in ToSet(states), NEW artifacts \in BOOLEAN, Export(x, artifacts)
        PROVE  TravelOK'
    BY <2>3, ExportCarries
  <2>4. ASSUME NEW x \in Sources, NEW options \in Options, Sanitize(x, options)
        PROVE  TravelOK'
    BY <2>4, SanitizeCarries
  <2>5. CASE Fill
    <3>1. export' = [export EXCEPT !.at = "publish"] /\ image' = image /\ export.at = "fill"
          /\ export = [at |-> export.at, file |-> export.file]
      BY <2>5 DEF Fill, TInv, IInv, ExportOK
    <3>2. export'.at = "publish" /\ export'.file = export.file
      BY <3>1
    <3> QED
      BY <3>1, <3>2 DEF TInv, TravelOK
  <2>6. CASE Publish
    <3>1. image' = export.file /\ export' = Idle /\ export.at # "idle"
      BY <2>6 DEF Publish, TInv, IInv, ExportOK
    <3> QED
      BY <3>1 DEF TInv, TravelOK, Idle
  <2>7. CASE Abandon
    BY <2>7 DEF Abandon, path, Idle, TInv, TravelOK
  <2>8. CASE \/ BeginImport \/ RecordState \/ EndImport
             \/ AbandonImport \/ (\E a \in import.todo : PutBlob(a))
             \/ UNCHANGED vars
    BY <2>8 DEF BeginImport, RecordState, EndImport, AbandonImport,
                PutBlob, vars, home, path, TInv, TravelOK
  <2>9. ASSUME NEW kind \in Damages, Damage(kind) PROVE TravelOK'
    BY <2>9, DamageCarries
  <2> QED
    BY <2>1, <2>2, <2>3, <2>4, <2>5, <2>6, <2>7, <2>8, <2>9 DEF Next
<1> QED
  BY <1>1, <1>2, <1>3 DEF TInv

\* The invariant of all that is written, damaged and read on the way holds in every
\* behaviour.
THEOREM TravelInvariant == Spec => []TInv
BY TravelInit, TravelNext, PTL DEF Spec

\* In the scanned fields of an image that says it was sanitized no rule for a known
\* shape matches anything but placeholders, whatever texts the agent wrote and
\* however spans overlapped in them, and the image carries no artifact bytes: with
\* any options (sanitize_state), and after any damage to its file.
THEOREM SanitizedLeavesNoMatch == Spec => []SanitizedIsScrubbed
<1>1. TInv => SanitizedIsScrubbed
  <2> SUFFICES ASSUME TInv, NEW file \in {export.file, image}, file # NoFile
               PROVE  Carries(file)
    BY DEF SanitizedIsScrubbed, Carries
  <2> QED
    BY DEF TInv, TravelOK
<1> QED
  BY <1>1, TravelInvariant, PTL

\* Diffs along a line of checkpoints add up, and two checkpoints of a line are never
\* reported as identical (diff_states, _new_events).
THEOREM DiffsTellHistory == Spec => []DiffTellsHistory
<1>1. TInv => DiffTellsHistory
  BY HistoryTold DEF TInv
<1> QED
  BY <1>1, TravelInvariant, PTL

\* The same of every state that a command may be given.
Accounted == \A x \in Sources : ReportAccountsFor(x)

LEMMA SourcesAccounted == TInv => Accounted
BY SourcesAre, ReportFacts DEF Accounted

\* sanitize reports something exactly when it changes something, and a diff of the
\* two documents then shows it, for every state a step brings forth.
THEOREM ReportsAccount == Spec => ReportAccounts
<1>1. Accounted' => [\A x \in Sources' \ Sources : ReportAccountsFor(x)]_vars
  BY DEF Accounted
<1> QED
  BY <1>1, SourcesAccounted, TravelInvariant, PTL DEF Spec, ReportAccounts

-----------------------------------------------------------------------------
(* What was cleaned can be told apart *)

\* No piece is the beginning of a placeholder.
Unquoted(text) == \A i \in DOMAIN text : text[i].kind # "open"

\* u begins with h and goes on with s.
Parted(u, h, s) == IsSequence(h) /\ IsSequence(s) /\ u = h \o s

\* Then its places are those of h and those of s, in this order.
Placed(u, h, s) ==
    /\ Len(h) \in Nat /\ Len(s) \in Nat /\ DOMAIN h = 1 .. Len(h)
    /\ Len(u) = Len(h) + Len(s) /\ \A i \in DOMAIN h : u[i] = h[i]
    /\ \A i \in 1 .. Len(s) : \A k \in Nat : k = Len(h) + i => u[k] = s[i]

LEMMA PartsAre ==
    ASSUME NEW u, NEW h, NEW s, Parted(u, h, s)
    PROVE  Placed(u, h, s)
<1>1. IsSequence(h) /\ IsSequence(s) /\ u = h \o s
  BY DEF Parted
<1>2. Len(h) \in Nat /\ Len(s) \in Nat /\ DOMAIN h = 1 .. Len(h)
  BY <1>1, SequenceFacts
<1>3. Len(u) = Len(h) + Len(s) /\ \A i \in DOMAIN h : u[i] = h[i]
  BY <1>1, ConcatFacts
<1>4. \A i \in 1 .. Len(s) : \A k \in Nat : k = Len(h) + i => u[k] = s[i]
  BY <1>1, ConcatFacts
<1> QED
  BY <1>2, <1>3, <1>4 DEF Placed

LEMMA SameParts ==
    ASSUME NEW u, NEW h, NEW s, Parted(u, h, s), NEW g, NEW t, Parted(u, g, t),
           Len(h) = Len(g)
    PROVE  h = g /\ s = t
<1>1. Placed(u, h, s)
  BY PartsAre
<1>2. Placed(u, g, t)
  BY PartsAre
<1>3. IsSequence(h) /\ IsSequence(g) /\ IsSequence(s) /\ IsSequence(t)
  BY DEF Parted
<1>4. Len(s) = Len(t)
  BY <1>1, <1>2 DEF Placed
<1>5. \A i \in 1 .. Len(h) : h[i] = g[i]
  BY <1>1, <1>2 DEF Placed
<1>6. ASSUME NEW i \in 1 .. Len(s) PROVE s[i] = t[i]
  <2>1. Len(h) + i \in Nat
    BY <1>1 DEF Placed
  <2> QED
    BY <1>1, <1>2, <1>4, <2>1 DEF Placed
<1>7. h = g
  BY <1>3, <1>5, SameSequence
<1>8. s = t
  BY <1>3, <1>4, <1>6, SameSequence
<1> QED
  BY <1>7, <1>8

Excerpt(text, i, next) == SubSeq(text, i, next - 1)

\* What stands at a place of the cleaned text says which piece stood there, or
\* which pieces a placeholder stands for.
Piecewise(from, text, i) ==
    \/ /\ text[i].kind # "open"
       /\ from[i].text = <<text[i]>> \o from[i + 1].text
    \/ \E next \in (i + 1) .. (Len(text) + 1) : \E rule :
          from[i].text = Placeholder(Excerpt(text, i, next), rule) \o from[next].text

LEMMA PlaceholderIs ==
    ASSUME NEW secret, NEW rule
    PROVE  LET p == Placeholder(secret, rule)
           IN /\ IsSequence(p) /\ Len(p) = 2 /\ 1 \in DOMAIN p
              /\ p[1].kind = "open" /\ p[2].of = secret
<1> DEFINE open == Piece("open", rule, 0, <<>>)
           print == Piece("print", "", 0, secret)
<1>1. open.kind = "open" /\ print.of = secret
  BY DEF Piece
<1>2. Placeholder(secret, rule) = <<open, print>>
  BY DEF Placeholder
<1> HIDE DEF open, print
<1>3. /\ IsSequence(<<open, print>>) /\ Len(<<open, print>>) = 2
      /\ 1 \in DOMAIN <<open, print>>
      /\ <<open, print>>[1] = open /\ <<open, print>>[2] = print
  BY TwoIs
<1> QED
  BY <1>1, <1>2, <1>3

LEMMA PiecewiseIs ==
    ASSUME NEW text, IsSequence(text), Unquoted(text), NEW aggressive
    PROVE  \E from :
              /\ ScanText(text, aggressive).text = from[1].text
              /\ from[Len(text) + 1].text = <<>>
              /\ \A i \in DOMAIN text : Piecewise(from, text, i)
              /\ \A i \in 1 .. (Len(text) + 1) : IsSequence(from[i].text)
<1>1. PICK from :
         /\ ScanText(text, aggressive) = from[1]
         /\ from[Len(text) + 1] = [text |-> <<>>, found |-> <<>>]
         /\ \A i \in DOMAIN text : ScanStep(from, text, aggressive, i)
         /\ \A i \in 1 .. (Len(text) + 1) : from[i] \in Scanned(text)
  BY ScanSteps
<1>2. ASSUME NEW i \in DOMAIN text PROVE Piecewise(from, text, i)
  <2> DEFINE here == Starting(text, aggressive, i)
             chosen == Preferred(here)
  <2>1. ScanStep(from, text, aggressive, i)
    BY <1>1
  <2>2. CASE here = {}
    <3>1. from[i].text = <<text[i]>> \o from[i + 1].text
      <4> DEFINE e == <<text[i]>> \o from[i + 1].text
      <4>1. from[i] = [text |-> e, found |-> from[i + 1].found]
        BY <2>1, <2>2 DEF ScanStep
      <4> HIDE DEF e
      <4> QED
        BY <4>1 DEF e
    <3>2. text[i].kind # "open"
      BY DEF Unquoted
    <3> QED
      BY <3>1, <3>2 DEF Piecewise
  <2>3. CASE here # {}
    <3>1. chosen.next \in (i + 1) .. (Len(text) + 1)
      BY <2>3, HereFacts
    <3>2. from[i].text = Placeholder(SubSeq(text, i, chosen.next - 1), chosen.rule)
                            \o from[chosen.next].text
      <4> DEFINE e == Placeholder(SubSeq(text, i, chosen.next - 1), chosen.rule)
                         \o from[chosen.next].text
                 o == <<chosen.rule>> \o from[chosen.next].found
      <4>1. from[i] = [text |-> e, found |-> o]
        BY <2>1, <2>3 DEF ScanStep
      <4> HIDE DEF e, o
      <4>2. from[i].text = e
        BY <4>1
      <4> QED
        BY <4>2 DEF e
    <3> HIDE DEF chosen
    <3> QED
      BY <3>1, <3>2 DEF Piecewise, Excerpt
  <2> QED
    BY <2>2, <2>3
<1>3. ASSUME NEW i \in 1 .. (Len(text) + 1) PROVE IsSequence(from[i].text)
  <2>1. from[i].text \in Seq(Clear(text))
    BY <1>1 DEF Scanned
  <2> QED
    BY <2>1, InSeq
<1> QED
  BY <1>1, <1>2, <1>3

\* At a place of a text something stands.
LEMMA SomethingStands ==
    ASSUME NEW text, NEW from, NEW i \in 1 .. Len(text), IsSequence(text),
           \A k \in 1 .. (Len(text) + 1) : IsSequence(from[k].text),
           Piecewise(from, text, i)
    PROVE  from[i].text # <<>>
<1>1. ASSUME NEW h, IsSequence(h), Len(h) # 0, NEW s, IsSequence(s) PROVE h \o s # <<>>
  <2>1. Len(h \o s) = Len(h) + Len(s) /\ Len(h) \in Nat /\ Len(s) \in Nat
    BY <1>1, ConcatFacts, SequenceFacts
  <2> DEFINE u == h \o s
  <2>2. Len(u) # 0
    BY <1>1, <2>1
  <2> HIDE DEF u
  <2>3. u # <<>>
    BY <2>2, EmptyIs
  <2> QED
    BY <2>3 DEF u
<1>2. Len(text) \in Nat
  BY SequenceFacts
<1>3. CASE from[i].text = <<text[i]>> \o from[i + 1].text
  <2> DEFINE h == <<text[i]>>
             s == from[i + 1].text
  <2>1. IsSequence(h) /\ Len(h) # 0
    BY OneIs
  <2>2. IsSequence(s) /\ from[i].text = h \o s
    BY <1>2, <1>3
  <2> HIDE DEF h, s
  <2> QED
    BY <1>1, <2>1, <2>2
<1>4. ASSUME NEW next \in (i + 1) .. (Len(text) + 1), NEW rule,
             from[i].text = Placeholder(Excerpt(text, i, next), rule) \o from[next].text
      PROVE  from[i].text # <<>>
  <2> DEFINE h == Placeholder(Excerpt(text, i, next), rule)
             s == from[next].text
  <2>1. IsSequence(h) /\ Len(h) # 0
    BY PlaceholderIs
  <2>2. IsSequence(s) /\ from[i].text = h \o s
    BY <1>2, <1>4
  <2> HIDE DEF h, s
  <2> QED
    BY <1>1, <2>1, <2>2
<1> QED
  BY <1>3, <1>4 DEF Piecewise

\* a from i on is b from j on.
SameRest(a, i, b, j) ==
    /\ Len(a) - i = Len(b) - j
    /\ \A k \in i .. Len(a) : \A l \in j .. Len(b) : l - j = k - i => a[k] = b[l]

\* a between i and c is b between j and d.
SameSpan(a, i, c, b, j, d) ==
    /\ c - i = d - j
    /\ \A k \in i .. (c - 1) : \A l \in j .. (d - 1) : l - j = k - i => a[k] = b[l]

\* One step back from a place where the rests are the same.
LEMMA RestBefore ==
    ASSUME NEW a, IsSequence(a), NEW i \in 1 .. Len(a), NEW c \in (i + 1) .. (Len(a) + 1),
           NEW b, IsSequence(b), NEW j \in 1 .. Len(b), NEW d \in (j + 1) .. (Len(b) + 1),
           SameRest(a, c, b, d), SameSpan(a, i, c, b, j, d)
    PROVE  SameRest(a, i, b, j)
<1>1. Len(a) \in Nat /\ Len(b) \in Nat /\ c - i = d - j
  BY SequenceFacts DEF SameSpan
<1>2. Len(a) - i = Len(b) - j
  <2>1. Len(a) - c = Len(b) - d
    BY DEF SameRest
  <2> QED
    BY <1>1, <2>1
<1>3. ASSUME NEW k \in i .. Len(a), NEW l \in j .. Len(b), l - j = k - i PROVE a[k] = b[l]
  <2>1. CASE k < c
    <3>1. k \in i .. (c - 1) /\ l \in j .. (d - 1)
      BY <1>1, <1>3, <2>1
    <3> QED
      BY <1>3, <3>1 DEF SameSpan
  <2>2. CASE ~(k < c)
    <3>1. k \in c .. Len(a) /\ l \in d .. Len(b) /\ l - d = k - c
      BY <1>1, <1>3, <2>2
    <3> QED
      BY <3>1 DEF SameRest
  <2> QED
    BY <2>1, <2>2
<1> QED
  BY <1>2, <1>3 DEF SameRest

LEMMA SameExcerpts ==
    ASSUME NEW a, IsSequence(a), NEW i \in 1 .. Len(a), NEW c \in (i + 1) .. (Len(a) + 1),
           NEW b, IsSequence(b), NEW j \in 1 .. Len(b), NEW d \in (j + 1) .. (Len(b) + 1),
           Excerpt(a, i, c) = Excerpt(b, j, d)
    PROVE  SameSpan(a, i, c, b, j, d)
<1> DEFINE s == SubSeq(a, i, c - 1)
           t == SubSeq(b, j, d - 1)
<1>1. Len(a) \in Nat /\ Len(b) \in Nat
  BY SequenceFacts
<1>2. Len(s) = c - i /\ \A m \in 1 .. (c - i) : s[m] = a[(i - 1) + m]
  <2>1. i - 1 \in 0 .. Len(a) /\ c - 1 \in (i - 1) .. Len(a) /\ (i - 1) + 1 = i
        /\ (c - 1) - (i - 1) = c - i
    BY <1>1
  <2>2. LET u == SubSeq(a, (i - 1) + 1, c - 1)
        IN /\ Len(u) = (c - 1) - (i - 1)
           /\ \A m \in 1 .. ((c - 1) - (i - 1)) : u[m] = a[(i - 1) + m]
    BY <2>1, SubSeqFacts
  <2> QED
    BY <2>1, <2>2
<1>3. Len(t) = d - j /\ \A m \in 1 .. (d - j) : t[m] = b[(j - 1) + m]
  <2>1. j - 1 \in 0 .. Len(b) /\ d - 1 \in (j - 1) .. Len(b) /\ (j - 1) + 1 = j
        /\ (d - 1) - (j - 1) = d - j
    BY <1>1
  <2>2. LET u == SubSeq(b, (j - 1) + 1, d - 1)
        IN /\ Len(u) = (d - 1) - (j - 1)
           /\ \A m \in 1 .. ((d - 1) - (j - 1)) : u[m] = b[(j - 1) + m]
    BY <2>1, SubSeqFacts
  <2> QED
    BY <2>1, <2>2
<1>4. s = t
  BY DEF Excerpt
<1> HIDE DEF s, t
<1>5. ASSUME NEW k \in i .. (c - 1), NEW l \in j .. (d - 1), l - j = k - i PROVE a[k] = b[l]
  <2>1. k - i + 1 \in 1 .. (c - i) /\ k - i + 1 \in 1 .. (d - j)
        /\ (i - 1) + (k - i + 1) = k /\ (j - 1) + (k - i + 1) = l
    BY <1>1, <1>5
  <2>2. s[k - i + 1] = a[k] /\ t[k - i + 1] = b[l]
    BY <1>2, <1>3, <2>1
  <2> QED
    BY <1>4, <2>2
<1> QED
  BY <1>2, <1>3, <1>4, <1>5 DEF SameSpan

\* Where two cleaned texts go on alike, so did the texts.
LEMMA BothStep ==
    ASSUME NEW a, IsSequence(a), NEW f, NEW i \in 1 .. Len(a), Piecewise(f, a, i),
           \A k \in 1 .. (Len(a) + 1) : IsSequence(f[k].text),
           NEW b, IsSequence(b), NEW g, NEW j \in 1 .. Len(b), Piecewise(g, b, j),
           \A k \in 1 .. (Len(b) + 1) : IsSequence(g[k].text),
           f[i].text = g[j].text,
           \A c \in (i + 1) .. (Len(a) + 1), d \in (j + 1) .. (Len(b) + 1) :
              f[c].text = g[d].text => SameRest(a, c, b, d)
    PROVE  SameRest(a, i, b, j)
<1>1. /\ Len(a) \in Nat /\ Len(b) \in Nat
      /\ i + 1 \in (i + 1) .. (Len(a) + 1) /\ j + 1 \in (j + 1) .. (Len(b) + 1)
      /\ \A c \in (i + 1) .. (Len(a) + 1) : c \in 1 .. (Len(a) + 1)
      /\ \A d \in (j + 1) .. (Len(b) + 1) : d \in 1 .. (Len(b) + 1)
  BY SequenceFacts
<1>2. ASSUME a[i].kind # "open", f[i].text = <<a[i]>> \o f[i + 1].text,
             b[j].kind # "open", g[j].text = <<b[j]>> \o g[j + 1].text
      PROVE  SameRest(a, i, b, j)
  <2>1. <<a[i]>> = <<b[j]>> /\ f[i + 1].text = g[j + 1].text
    <3> DEFINE h == <<a[i]>>
               e == <<b[j]>>
               s == f[i + 1].text
               t == g[j + 1].text
    <3>1. IsSequence(h) /\ IsSequence(e) /\ Len(h) = Len(e)
      BY OneIs
    <3>2. Parted(f[i].text, h, s) /\ Parted(f[i].text, e, t)
      BY <1>1, <1>2, <3>1 DEF Parted
    <3> HIDE DEF h, e, s, t
    <3>3. h = e /\ s = t
      BY <3>1, <3>2, SameParts
    <3> QED
      BY <3>3 DEF h, e, s, t
  <2>2. a[i] = b[j] /\ SameRest(a, i + 1, b, j + 1)
    <3>1. <<a[i]>>[1] = a[i] /\ <<b[j]>>[1] = b[j]
      OBVIOUS
    <3> QED
      BY <1>1, <2>1, <3>1
  <2> DEFINE c == i + 1
             d == j + 1
  <2>3. c \in (i + 1) .. (Len(a) + 1) /\ d \in (j + 1) .. (Len(b) + 1)
        /\ SameRest(a, c, b, d)
    BY <1>1, <2>2
  <2>4. SameSpan(a, i, c, b, j, d)
    BY <1>1, <2>2 DEF SameSpan
  <2> HIDE DEF c, d
  <2> QED
    BY <2>3, <2>4, RestBefore
<1>3. ASSUME NEW c \in (i + 1) .. (Len(a) + 1), NEW rule,
             f[i].text = Placeholder(Excerpt(a, i, c), rule) \o f[c].text,
             NEW d \in (j + 1) .. (Len(b) + 1), NEW other,
             g[j].text = Placeholder(Excerpt(b, j, d), other) \o g[d].text
      PROVE  SameRest(a, i, b, j)
  <2> DEFINE h == Placeholder(Excerpt(a, i, c), rule)
             e == Placeholder(Excerpt(b, j, d), other)
             s == f[c].text
             t == g[d].text
  <2>1. /\ IsSequence(h) /\ IsSequence(e) /\ Len(h) = Len(e)
        /\ h[2].of = Excerpt(a, i, c) /\ e[2].of = Excerpt(b, j, d)
    BY PlaceholderIs
  <2>2. Parted(f[i].text, h, s) /\ Parted(f[i].text, e, t)
    <3>1. IsSequence(s) /\ IsSequence(t)
      BY <1>1
    <3>2. f[i].text = h \o s /\ f[i].text = e \o t
      BY <1>3
    <3> HIDE DEF h, e, s, t
    <3> QED
      BY <2>1, <3>1, <3>2 DEF Parted
  <2>3. h = e /\ s = t
    <3>1. IsSequence(h) /\ IsSequence(e) /\ Len(h) = Len(e)
      BY <2>1
    <3> HIDE DEF h, e, s, t
    <3> QED
      BY <2>2, <3>1, SameParts
  <2>4. Excerpt(a, i, c) = Excerpt(b, j, d)
    <3> HIDE DEF h, e
    <3> QED
      BY <2>1, <2>3
  <2>5. SameRest(a, c, b, d)
    BY <2>3
  <2> HIDE DEF h, e, s, t
  <2>6. SameSpan(a, i, c, b, j, d)
    BY <2>4, SameExcerpts
  <2> QED
    BY <2>5, <2>6, RestBefore
\* A piece is not the beginning of a placeholder.
<1>4. ASSUME NEW p, p.kind # "open", NEW s, IsSequence(s), NEW secret, NEW rule,
             NEW t, IsSequence(t), <<p>> \o s = Placeholder(secret, rule) \o t
      PROVE  FALSE
  <2> DEFINE h == <<p>>
             e == Placeholder(secret, rule)
  <2>1. IsSequence(h) /\ 1 \in DOMAIN h /\ h[1] = p
    BY OneIs
  <2>2. IsSequence(e) /\ 1 \in DOMAIN e /\ e[1].kind = "open"
    BY PlaceholderIs
  <2>3. h \o s = e \o t
    BY <1>4
  <2> HIDE DEF h, e
  <2>4. (h \o s)[1] = h[1]
    BY <1>4, <2>1, ConcatFacts
  <2>5. (e \o t)[1] = e[1]
    BY <1>4, <2>2, ConcatFacts
  <2> QED
    BY <1>4, <2>1, <2>2, <2>3, <2>4, <2>5
<1>5. ASSUME a[i].kind # "open", f[i].text = <<a[i]>> \o f[i + 1].text,
             NEW d \in (j + 1) .. (Len(b) + 1), NEW other,
             g[j].text = Placeholder(Excerpt(b, j, d), other) \o g[d].text
      PROVE  FALSE
  BY <1>1, <1>4, <1>5
<1>6. ASSUME b[j].kind # "open", g[j].text = <<b[j]>> \o g[j + 1].text,
             NEW c \in (i + 1) .. (Len(a) + 1), NEW rule,
             f[i].text = Placeholder(Excerpt(a, i, c), rule) \o f[c].text
      PROVE  FALSE
  BY <1>1, <1>4, <1>6
<1> QED
  BY <1>2, <1>3, <1>5, <1>6 DEF Piecewise


\* Two texts that become one when cleaned were one.
LEMMA ScanTellsApart ==
    ASSUME NEW a, IsSequence(a), Unquoted(a), NEW b, IsSequence(b), Unquoted(b),
           NEW aggressive,
           ScanText(a, aggressive).text = ScanText(b, aggressive).text
    PROVE  a = b
<1> DEFINE n == Len(a)
           D == 1 .. (n + 1)
           E == 1 .. (Len(b) + 1)
           m == [i \in D |-> n + 1 - i]
<1>1. PICK f :
         /\ ScanText(a, aggressive).text = f[1].text
         /\ f[n + 1].text = <<>>
         /\ \A i \in DOMAIN a : Piecewise(f, a, i)
         /\ \A i \in D : IsSequence(f[i].text)
  BY PiecewiseIs
<1>2. PICK g :
         /\ ScanText(b, aggressive).text = g[1].text
         /\ g[Len(b) + 1].text = <<>>
         /\ \A i \in DOMAIN b : Piecewise(g, b, i)
         /\ \A i \in E : IsSequence(g[i].text)
  BY PiecewiseIs
<1>3. /\ n \in Nat /\ Len(b) \in Nat /\ DOMAIN a = 1 .. n /\ DOMAIN b = 1 .. Len(b)
      /\ 1 \in D /\ 1 \in E
  BY SequenceFacts
<1> DEFINE T == {i \in D : \A j \in E : f[i].text = g[j].text => SameRest(a, i, b, j)}
<1>4. ASSUME NEW i \in D, \A c \in D : m[c] < m[i] => c \in T,
             NEW j \in E, f[i].text = g[j].text
      PROVE  SameRest(a, i, b, j)
  <2>1. CASE i = n + 1 /\ j = Len(b) + 1
    BY <1>3, <2>1 DEF SameRest
  <2>2. CASE i = n + 1 /\ j # Len(b) + 1
    <3>1. j \in 1 .. Len(b)
      BY <1>3, <2>2
    <3>2. g[j].text # <<>>
      BY <1>2, <1>3, <3>1, SomethingStands
    <3> QED
      BY <1>1, <1>4, <2>2, <3>2
  <2>3. CASE i # n + 1 /\ j = Len(b) + 1
    <3>1. i \in 1 .. n
      BY <1>3, <2>3
    <3>2. f[i].text # <<>>
      BY <1>1, <1>3, <3>1, SomethingStands
    <3> QED
      BY <1>2, <1>4, <2>3, <3>2
  <2>4. CASE i # n + 1 /\ j # Len(b) + 1
    <3>1. i \in 1 .. n /\ j \in 1 .. Len(b)
      BY <1>3, <2>4
    <3>2. ASSUME NEW c \in (i + 1) .. (n + 1), NEW d \in (j + 1) .. (Len(b) + 1),
                 f[c].text = g[d].text
          PROVE  SameRest(a, c, b, d)
      <4>1. c \in D /\ d \in E /\ m[c] < m[i]
        BY <1>3, <3>1
      <4> QED
        BY <1>4, <3>2, <4>1
    <3>3. Piecewise(f, a, i) /\ Piecewise(g, b, j)
      BY <1>1, <1>2, <1>3, <3>1
    <3> HIDE DEF T, m
    <3> QED
      BY <1>1, <1>2, <1>4, <3>1, <3>2, <3>3, BothStep
  <2> QED
    BY <2>1, <2>2, <2>3, <2>4
<1>5. \A i \in D : i \in T
  <2>1. m \in [D -> Nat]
    BY <1>3
  <2>2. \A i \in D : (\A c \in D : m[c] < m[i] => c \in T) => i \in T
    <3> HIDE DEF D, E, m
    <3> QED
      BY <1>4
  <2> HIDE DEF T, D, m
  <2> QED
    BY <2>1, <2>2, Descends
<1>6. SameRest(a, 1, b, 1)
  BY <1>1, <1>2, <1>3, <1>5
<1>7. n = Len(b) /\ \A k \in 1 .. n : a[k] = b[k]
  <2>1. n - 1 = Len(b) - 1
    BY <1>6 DEF SameRest
  <2>2. n = Len(b)
    <3>1. \A p, q \in Nat : p - 1 = q - 1 => p = q
      OBVIOUS
    <3> HIDE DEF n, D, E, T, m
    <3> QED
      BY <1>3, <2>1, <3>1
  <2>3. ASSUME NEW k \in 1 .. n PROVE a[k] = b[k]
    BY <1>6, <2>2, <2>3 DEF SameRest
  <2> QED
    BY <2>2, <2>3
<1> HIDE DEF n
<1> QED
  BY <1>7, SameSequence DEF n

-----------------------------------------------------------------------------
(* Differences between what was cleaned *)

LEMMA AllSelected ==
    ASSUME NEW s, IsSequence(s), NEW C, DOMAIN s \subseteq C
    PROVE  Selected(s, C) = s
<1> DEFINE n == Len(s)
<1>1. n \in Nat /\ DOMAIN s = 1 .. n
  BY SequenceFacts
<1>2. PICK g : Selecting(g, s, C) /\ g[n] = Selected(s, C)
  BY SelectedSteps
<1> DEFINE T == {k \in 0 .. n : IsSequence(g[k]) /\ Len(g[k]) = k}
<1>3. 0 \in T
  BY <1>1, <1>2, EmptyIs DEF Selecting
<1>4. ASSUME NEW k \in 0 .. (n - 1), k \in T PROVE k + 1 \in T
  <2>1. k + 1 \in DOMAIN s /\ k + 1 \in C /\ (k + 1) - 1 = k
    BY <1>1
  <2>2. g[k + 1] = Append(g[k], s[k + 1])
    BY <1>2, <2>1 DEF Selecting
  <2>3. IsSequence(Append(g[k], s[k + 1])) /\ Len(Append(g[k], s[k + 1])) = k + 1
    BY <1>4, AppendFacts
  <2>4. k + 1 \in 0 .. n
    BY <1>1
  <2> HIDE DEF n
  <2> QED
    BY <2>2, <2>3, <2>4
<1> HIDE DEF T, n
<1>5. n \in T
  <2>1. n \in Nat /\ n \in 0 .. n
    BY <1>1
  <2>2. \A k \in 0 .. n : k \in T
    BY <1>3, <1>4, <2>1, Ascends
  <2> QED
    BY <2>1, <2>2
<1>6. Len(Selected(s, C)) = Len(s)
  BY <1>2, <1>5 DEF T, n
<1> QED
  BY <1>6, SelectedFacts

\* No text that diff compares quotes a placeholder.
UnquotedIn(x) ==
    /\ \A i \in DOMAIN x.memory : Unquoted(x.memory[i].content)
    /\ Unquoted(x.params) /\ Unquoted(x.cursor)

CleanText(text, options) == ScanText(text, options.aggressive).text

\* A sanitized state without its event.
CleanOf(x, options) == [SanitizeState(x, options).state EXCEPT !.events = x.events]

LEMMA CleanIs ==
    ASSUME NEW x, Document(x), NEW options, options.drop = {}
    PROVE  LET y == CleanOf(x, options)
           IN /\ DOMAIN y.memory = DOMAIN x.memory
              /\ \A i \in DOMAIN x.memory :
                    /\ y.memory[i].id = x.memory[i].id /\ y.memory[i].kind = x.memory[i].kind
                    /\ y.memory[i].content = CleanText(x.memory[i].content, options)
              /\ Len(y.context) = Len(x.context)
              /\ y.params = CleanText(x.params, options)
              /\ y.cursor = CleanText(x.cursor, options)
              /\ y.artifacts = x.artifacts /\ y.requires = x.requires /\ y.events = x.events
<1> DEFINE y == CleanOf(x, options)
           w == Cleaned(x, options)
           kept == Kept(x, options)
           clean(text) == ScanText(text, options.aggressive).text
           C == {i \in DOMAIN x.memory : x.memory[i].kind \notin options.drop}
<1>1. x = Sections(x) /\ IsSequence(x.memory) /\ IsSequence(x.context)
      /\ \A i \in DOMAIN x.memory : IsEntry(x.memory[i])
  BY DocumentIs
<1>2. kept = x.memory
  <2>1. DOMAIN x.memory \subseteq C
    OBVIOUS
  <2>2. kept = Selected(x.memory, C)
    BY DEF Kept
  <2> HIDE DEF C, kept
  <2> QED
    BY <1>1, <2>1, <2>2, AllSelected
<1>3. /\ w = Sections(w)
      /\ w.memory = [i \in DOMAIN kept |-> [kept[i] EXCEPT !.content = clean(@)]]
      /\ w.context = [i \in DOMAIN x.context |-> clean(x.context[i])]
      /\ w.params = clean(x.params) /\ w.cursor = clean(x.cursor)
      /\ w.artifacts = x.artifacts /\ w.requires = x.requires
  BY <1>1, CleanedIs
<1>4. /\ y.memory = w.memory /\ y.context = w.context /\ y.params = w.params
      /\ y.cursor = w.cursor /\ y.artifacts = w.artifacts /\ y.requires = w.requires
      /\ y.events = x.events
  <2> DEFINE z == SanitizeState(x, options).state
  <2>1. z = w \/ z = [w EXCEPT !.events = Append(@, "state.sanitized")]
    BY DEF SanitizeState
  <2> DEFINE e == Append(w.events, "state.sanitized")
  <2>2. w = Sections(w)
    BY <1>3
  <2>3. y = [z EXCEPT !.events = x.events]
    BY DEF CleanOf
  <2> HIDE DEF w, z, y
  <2>4. z = Sections(z) /\ z.memory = w.memory /\ z.context = w.context /\ z.params = w.params
        /\ z.cursor = w.cursor /\ z.artifacts = w.artifacts /\ z.requires = w.requires
    BY <2>1, <2>2 DEF Sections
  <2> QED
    BY <2>3, <2>4 DEF Sections
<1>5. Len(w.context) = Len(x.context)
  <2>1. Len(x.context) \in Nat /\ DOMAIN x.context = 1 .. Len(x.context)
    BY <1>1, SequenceFacts
  <2>2. w.context = [i \in 1 .. Len(x.context) |-> w.context[i]]
    BY <1>3, <2>1
  <2> QED
    BY <2>1, <2>2, IsASequence
<1>6. ASSUME NEW i \in DOMAIN x.memory
      PROVE  /\ w.memory[i].id = x.memory[i].id /\ w.memory[i].kind = x.memory[i].kind
             /\ w.memory[i].content = CleanText(x.memory[i].content, options)
  <2> DEFINE text == clean(x.memory[i].content)
  <2>1. w.memory[i] = [x.memory[i] EXCEPT !.content = text]
    BY <1>2, <1>3
  <2>2. IsEntry(x.memory[i])
    BY <1>1
  <2>3. text = CleanText(x.memory[i].content, options)
    BY DEF CleanText
  <2> HIDE DEF w, text
  <2> QED
    BY <2>1, <2>2, <2>3 DEF IsEntry
<1>7. DOMAIN w.memory = DOMAIN x.memory
  BY <1>2, <1>3
<1> HIDE DEF y, w
<1> QED
  BY <1>3, <1>4, <1>5, <1>6, <1>7 DEF y, CleanText

\* Two texts differ exactly when they differ cleaned.
LEMMA TextsAlike ==
    ASSUME NEW a, IsSequence(a), Unquoted(a), NEW b, IsSequence(b), Unquoted(b), NEW options
    PROVE  CleanText(a, options) = CleanText(b, options) <=> a = b
BY ScanTellsApart DEF CleanText

\* What a memory entry is compared by, cleaned.
LEMMA IdentityIs ==
    ASSUME NEW x, Document(x), UnquotedIn(x), NEW options, options.drop = {}
    PROVE  LET y == CleanOf(x, options)
               d == MemoryIdentity(x)
               e == MemoryIdentity(y)
           IN /\ DOMAIN e = DOMAIN d
              /\ \A id \in DOMAIN d :
                    \E kind, text : /\ IsSequence(text) /\ Unquoted(text)
                                    /\ d[id] = <<kind, text>>
                                    /\ e[id] = <<kind, CleanText(text, options)>>
<1> DEFINE y == CleanOf(x, options)
<1>1. /\ DOMAIN y.memory = DOMAIN x.memory
      /\ \A i \in DOMAIN x.memory :
            /\ y.memory[i].id = x.memory[i].id /\ y.memory[i].kind = x.memory[i].kind
            /\ y.memory[i].content = CleanText(x.memory[i].content, options)
  BY CleanIs
<1>2. \A i \in DOMAIN x.memory : IsSequence(x.memory[i].content) /\ Unquoted(x.memory[i].content)
  BY DocumentIs DEF IsEntry, UnquotedIn
<1> HIDE DEF y
<1>3. Ids(y.memory) = Ids(x.memory)
  BY <1>1 DEF Ids
<1>4. ASSUME NEW id \in Ids(x.memory)
      PROVE  LET i == CHOOSE k \in DOMAIN x.memory : x.memory[k].id = id
             IN /\ i \in DOMAIN x.memory /\ Entry(x.memory, id) = x.memory[i]
                /\ Entry(y.memory, id) = y.memory[i]
  <2> DEFINE i == CHOOSE k \in DOMAIN x.memory : x.memory[k].id = id
             j == CHOOSE k \in DOMAIN y.memory : y.memory[k].id = id
  <2>1. i \in DOMAIN x.memory
    BY DEF Ids
  <2>2. \A k : (k \in DOMAIN x.memory /\ x.memory[k].id = id)
               <=> (k \in DOMAIN y.memory /\ y.memory[k].id = id)
    BY <1>1
  <2>3. i = j
    BY <2>2
  <2> QED
    BY <2>1, <2>3 DEF Entry
<1>5. ASSUME NEW id \in Ids(x.memory)
      PROVE  \E kind, text :
                /\ IsSequence(text) /\ Unquoted(text)
                /\ MemoryIdentity(x)[id] = <<kind, text>>
                /\ MemoryIdentity(y)[id] = <<kind, CleanText(text, options)>>
  <2>1. PICK i \in DOMAIN x.memory :
           Entry(x.memory, id) = x.memory[i] /\ Entry(y.memory, id) = y.memory[i]
    BY <1>4
  <2>2. MemoryIdentity(x)[id] = <<x.memory[i].kind, x.memory[i].content>>
    BY <2>1 DEF MemoryIdentity
  <2>3. MemoryIdentity(y)[id] = <<y.memory[i].kind, y.memory[i].content>>
    BY <1>3, <2>1 DEF MemoryIdentity
  <2> QED
    BY <1>1, <1>2, <2>2, <2>3
<1> QED
  BY <1>3, <1>5 DEF y, MemoryIdentity

\* The diff of two states is that of their cleaned forms.
LEMMA DiffsAlike ==
    ASSUME NEW x, Document(x), UnquotedIn(x), NEW z, Document(z), UnquotedIn(z),
           NEW options, options.drop = {}
    PROVE  DiffStates(CleanOf(x, options), CleanOf(z, options)) = DiffStates(x, z)
<1> DEFINE u == CleanOf(x, options)
           v == CleanOf(z, options)
<1>1. /\ Len(u.context) = Len(x.context)
      /\ u.params = CleanText(x.params, options) /\ u.cursor = CleanText(x.cursor, options)
      /\ u.artifacts = x.artifacts /\ u.requires = x.requires /\ u.events = x.events
  BY CleanIs
<1>2. /\ Len(v.context) = Len(z.context)
      /\ v.params = CleanText(z.params, options) /\ v.cursor = CleanText(z.cursor, options)
      /\ v.artifacts = z.artifacts /\ v.requires = z.requires /\ v.events = z.events
  BY CleanIs
<1>3. CollectionDelta(MemoryIdentity(u), MemoryIdentity(v))
        = CollectionDelta(MemoryIdentity(x), MemoryIdentity(z))
  <2> DEFINE d == MemoryIdentity(x)
             e == MemoryIdentity(z)
             f == MemoryIdentity(u)
             g == MemoryIdentity(v)
  <2>1. /\ DOMAIN f = DOMAIN d
        /\ \A id \in DOMAIN d :
              \E kind, text : /\ IsSequence(text) /\ Unquoted(text)
                              /\ d[id] = <<kind, text>>
                              /\ f[id] = <<kind, CleanText(text, options)>>
    BY IdentityIs
  <2>2. /\ DOMAIN g = DOMAIN e
        /\ \A id \in DOMAIN e :
              \E kind, text : /\ IsSequence(text) /\ Unquoted(text)
                              /\ e[id] = <<kind, text>>
                              /\ g[id] = <<kind, CleanText(text, options)>>
    BY IdentityIs
  <2> HIDE DEF d, e, f, g
  <2>3. ASSUME NEW id \in DOMAIN d \cap DOMAIN e PROVE f[id] = g[id] <=> d[id] = e[id]
    <3>1. PICK k, a : /\ IsSequence(a) /\ Unquoted(a) /\ d[id] = <<k, a>>
                      /\ f[id] = <<k, CleanText(a, options)>>
      BY <2>1
    <3>2. PICK l, b : /\ IsSequence(b) /\ Unquoted(b) /\ e[id] = <<l, b>>
                      /\ g[id] = <<l, CleanText(b, options)>>
      BY <2>2
    <3>3. CleanText(a, options) = CleanText(b, options) <=> a = b
      BY <3>1, <3>2, TextsAlike
    <3> QED
      BY <3>1, <3>2, <3>3
  <2>4. {id \in DOMAIN f \cap DOMAIN g : f[id] # g[id]} = {id \in DOMAIN d \cap DOMAIN e : d[id] # e[id]}
    BY <2>1, <2>2, <2>3
  <2>5. CollectionDelta(f, g) = CollectionDelta(d, e)
    BY <2>1, <2>2, <2>4 DEF CollectionDelta
  <2> QED
    BY <2>5 DEF d, e, f, g
<1>4. CollectionDelta(ArtifactIdentity(u), ArtifactIdentity(v))
        = CollectionDelta(ArtifactIdentity(x), ArtifactIdentity(z))
  BY <1>1, <1>2 DEF ArtifactIdentity
<1>5. ScalarChanges(u, v) = ScalarChanges(x, z)
  <2>1. /\ IsSequence(x.params) /\ IsSequence(x.cursor) /\ Unquoted(x.params) /\ Unquoted(x.cursor)
        /\ IsSequence(z.params) /\ IsSequence(z.cursor) /\ Unquoted(z.params) /\ Unquoted(z.cursor)
    BY DocumentIs DEF UnquotedIn
  <2>2. (u.params = v.params <=> x.params = z.params) /\ (u.cursor = v.cursor <=> x.cursor = z.cursor)
    BY <1>1, <1>2, <2>1, TextsAlike
  <2> QED
    BY <2>2 DEF ScalarChanges
<1>6. NewEvents(u, v) = NewEvents(x, z)
  BY <1>1, <1>2 DEF NewEvents
<1> HIDE DEF u, v
<1>7. DiffStates(u, v) = DiffStates(x, z)
  BY <1>1, <1>2, <1>3, <1>4, <1>5, <1>6 DEF DiffStates
<1> QED
  BY <1>7 DEF u, v

-----------------------------------------------------------------------------
(* No text at home quotes a placeholder *)

\* Nobody writes a text in which a placeholder begins.
NoneQuoted ==
    /\ \A x \in First : UnquotedIn(x)
    /\ \A text \in Texts \cup Settings : Unquoted(text)

HomeUnquoted == \A k \in DOMAIN states : UnquotedIn(states[k])

LEMMA UnquotedCheckpoint ==
    ASSUME HistoryOK, HomeUnquoted, NEW i \in DOMAIN states, NEW x, Checkpoint(i, x),
           x = Sections(x), UnquotedIn(x)
    PROVE  HomeUnquoted'
<1> DEFINE n == Len(states)
           y == [x EXCEPT !.events = Append(@, "worked")]
<1>1. states' = Append(states, y)
  BY DEF Checkpoint
<1>2. y.memory = x.memory /\ y.params = x.params /\ y.cursor = x.cursor
  BY DEF Sections
<1> HIDE DEF y
<1>3. UnquotedIn(y)
  BY <1>2 DEF UnquotedIn
<1>4. n \in Nat /\ DOMAIN states = 1 .. n /\ IsSequence(states)
  BY SequenceFacts DEF HistoryOK
<1>5. /\ DOMAIN states' = 1 .. (n + 1)
      /\ states'[n + 1] = y /\ \A k \in 1 .. n : states'[k] = states[k]
  BY <1>1, <1>4, AppendFacts
<1> HIDE DEF n
<1>6. ASSUME NEW k \in 1 .. (n + 1) PROVE UnquotedIn(states'[k])
  <2>1. k \in 1 .. n \/ k = n + 1
    BY <1>4
  <2> QED
    BY <1>3, <1>4, <1>5, <2>1 DEF HomeUnquoted
<1> QED
  BY <1>5, <1>6 DEF HomeUnquoted, UnquotedIn

LEMMA UnquotedRemember ==
    ASSUME NoneQuoted, HistoryOK, HomeUnquoted, NEW i \in DOMAIN states, NEW kind,
           NEW text \in Texts, Remember(i, kind, text)
    PROVE  HomeUnquoted'
<1> DEFINE s == states[i]
           entry == [id |-> Len(s.memory) + 1, kind |-> kind, content |-> text,
                     attributes |-> text]
           memory == Append(s.memory, entry)
           x == [s EXCEPT !.memory = memory]
<1>1. s = Sections(s) /\ IsSequence(s.memory)
  BY StateIs
<1>2. Checkpoint(i, x)
  BY DEF Remember
<1>3. x = Sections(x) /\ x.memory = memory /\ x.params = s.params /\ x.cursor = s.cursor
  BY <1>1 DEF Sections
<1>4. Unquoted(entry.content)
  BY DEF NoneQuoted
<1>5. UnquotedIn(s)
  BY DEF HomeUnquoted
<1> HIDE DEF x, s, entry
<1>6. /\ DOMAIN memory = 1 .. (Len(s.memory) + 1)
      /\ memory[Len(s.memory) + 1] = entry /\ \A j \in DOMAIN s.memory : memory[j] = s.memory[j]
      /\ Len(s.memory) \in Nat /\ DOMAIN s.memory = 1 .. Len(s.memory)
  BY <1>1, AppendFacts, SequenceFacts
<1> HIDE DEF memory
<1>7. ASSUME NEW j \in DOMAIN memory PROVE Unquoted(memory[j].content)
  <2>1. j \in DOMAIN s.memory \/ j = Len(s.memory) + 1
    BY <1>6
  <2> QED
    BY <1>4, <1>5, <1>6, <2>1 DEF UnquotedIn
<1>8. UnquotedIn(x)
  BY <1>3, <1>5, <1>7 DEF UnquotedIn
<1> QED
  BY <1>2, <1>3, <1>8, UnquotedCheckpoint

LEMMA UnquotedRevise ==
    ASSUME NoneQuoted, HistoryOK, HomeUnquoted, NEW i \in DOMAIN states,
           NEW text \in Texts, Revise(i, text)
    PROVE  HomeUnquoted'
<1> DEFINE s == states[i]
           x == [s EXCEPT !.memory[1].content = text]
<1>1. s = Sections(s) /\ IsSequence(s.memory) /\ Document(s)
  BY StateIs
<1>2. Checkpoint(i, x)
  BY DEF Revise
<1>3. /\ x = Sections(x) /\ x.params = s.params /\ x.cursor = s.cursor
      /\ x.memory = [s.memory EXCEPT ![1].content = text]
  BY <1>1 DEF Sections
<1>4. UnquotedIn(s) /\ Unquoted(text) /\ \A j \in DOMAIN s.memory : IsEntry(s.memory[j])
  BY <1>1, DocumentIs DEF HomeUnquoted, NoneQuoted
<1> HIDE DEF x, s
<1>5. ASSUME NEW j \in DOMAIN x.memory PROVE Unquoted(x.memory[j].content)
  <2>1. j \in DOMAIN s.memory
    BY <1>3
  <2>2. CASE j = 1
    <3>1. x.memory[j] = [s.memory[j] EXCEPT !.content = text]
      BY <1>3, <2>1, <2>2
    <3>2. IsEntry(s.memory[j])
      BY <1>4, <2>1
    <3>3. x.memory[j].content = text
      BY <3>1, <3>2 DEF IsEntry
    <3> QED
      BY <1>4, <3>3
  <2>3. CASE j # 1
    <3>1. x.memory[j] = s.memory[j]
      BY <1>3, <2>1, <2>3
    <3> QED
      BY <1>4, <2>1, <3>1 DEF UnquotedIn
  <2> QED
    BY <2>2, <2>3
<1>6. UnquotedIn(x)
  BY <1>3, <1>4, <1>5 DEF UnquotedIn
<1> QED
  BY <1>2, <1>3, <1>6, UnquotedCheckpoint

LEMMA UnquotedKeep ==
    ASSUME NoneQuoted, HistoryOK, HomeUnquoted, NEW i \in DOMAIN states,
           NEW field \in {"params", "cursor", "runtime_opaque", "opaque"},
           NEW text \in Settings, Keep(i, field, text)
    PROVE  HomeUnquoted'
<1> DEFINE s == states[i]
           x == [s EXCEPT ![field] = text]
<1>1. s = Sections(s)
  BY StateIs
<1>2. Checkpoint(i, x)
  BY DEF Keep
<1>3. UnquotedIn(s) /\ Unquoted(text)
  BY DEF HomeUnquoted, NoneQuoted
<1>4. /\ x = Sections(x) /\ x.memory = s.memory
      /\ x.params \in {s.params, text} /\ x.cursor \in {s.cursor, text}
  <2>1. CASE field = "params"
    <3>1. x = [s EXCEPT !.params = text]
      BY <2>1
    <3> HIDE DEF x, s
    <3> QED
      BY <1>1, <3>1 DEF Sections
  <2>2. CASE field = "cursor"
    <3>1. x = [s EXCEPT !.cursor = text]
      BY <2>2
    <3> HIDE DEF x, s
    <3> QED
      BY <1>1, <3>1 DEF Sections
  <2>3. CASE field = "runtime_opaque"
    <3>1. x = [s EXCEPT !.runtime_opaque = text]
      BY <2>3
    <3> HIDE DEF x, s
    <3> QED
      BY <1>1, <3>1 DEF Sections
  <2>4. CASE field = "opaque"
    <3>1. x = [s EXCEPT !.opaque = text]
      BY <2>4
    <3> HIDE DEF x, s
    <3> QED
      BY <1>1, <3>1 DEF Sections
  <2> QED
    BY <2>1, <2>2, <2>3, <2>4
<1> HIDE DEF x, s
<1>5. UnquotedIn(x)
  BY <1>3, <1>4 DEF UnquotedIn
<1> QED
  BY <1>2, <1>4, <1>5, UnquotedCheckpoint

\* Contexts, requirements and artifacts are not among these texts.
LEMMA UnquotedOther ==
    ASSUME HistoryOK, HomeUnquoted, NEW i \in DOMAIN states,
           NEW section \in {"context", "requires", "artifacts"}, NEW value,
           Checkpoint(i, [states[i] EXCEPT ![section] = value])
    PROVE  HomeUnquoted'
<1> DEFINE s == states[i]
           x == [s EXCEPT ![section] = value]
<1>1. s = Sections(s)
  BY StateIs
<1>2. UnquotedIn(s)
  BY DEF HomeUnquoted
<1>3. x = Sections(x) /\ x.memory = s.memory /\ x.params = s.params /\ x.cursor = s.cursor
  <2>1. CASE section = "context"
    <3>1. x = [s EXCEPT !.context = value]
      BY <2>1
    <3> HIDE DEF x, s
    <3> QED
      BY <1>1, <3>1 DEF Sections
  <2>2. CASE section = "requires"
    <3>1. x = [s EXCEPT !.requires = value]
      BY <2>2
    <3> HIDE DEF x, s
    <3> QED
      BY <1>1, <3>1 DEF Sections
  <2>3. CASE section = "artifacts"
    <3>1. x = [s EXCEPT !.artifacts = value]
      BY <2>3
    <3> HIDE DEF x, s
    <3> QED
      BY <1>1, <3>1 DEF Sections
  <2> QED
    BY <2>1, <2>2, <2>3
<1>4. Checkpoint(i, x)
  OBVIOUS
<1> HIDE DEF x, s
<1>5. UnquotedIn(x)
  BY <1>2, <1>3 DEF UnquotedIn
<1> QED
  BY <1>3, <1>4, <1>5, UnquotedCheckpoint

LEMMA UnquotedWork ==
    ASSUME NoneQuoted, HistoryOK, HomeUnquoted, NEW i \in DOMAIN states, Work(i)
    PROVE  HomeUnquoted'
<1>1. ASSUME NEW text \in Texts, Say(i, text) PROVE HomeUnquoted'
  <2> DEFINE context == Append(states[i].context, text)
  <2>1. Checkpoint(i, [states[i] EXCEPT !["context"] = context])
    BY <1>1 DEF Say
  <2> HIDE DEF context
  <2> QED
    BY <2>1, UnquotedOther
<1>2. ASSUME NEW name, Require(i, name) PROVE HomeUnquoted'
  <2> DEFINE requires == states[i].requires \cup {name}
  <2>1. Checkpoint(i, [states[i] EXCEPT !["requires"] = requires])
    BY <1>2 DEF Require
  <2> HIDE DEF requires
  <2> QED
    BY <2>1, UnquotedOther
<1>3. ASSUME NEW id, NEW content, NEW digest, NEW from, Produce(i, id, content, digest, from)
      PROVE  HomeUnquoted'
  <2> DEFINE old == states[i].artifacts
             artifacts == Append(Selected(old, {k \in DOMAIN old : old[k].id # id}),
                                 [id |-> id, digest |-> digest, derived_from |-> from])
  <2>1. Checkpoint(i, [states[i] EXCEPT !["artifacts"] = artifacts])
    BY <1>3 DEF Produce
  <2> HIDE DEF artifacts
  <2> QED
    BY <2>1, UnquotedOther
<1> QED
  BY <1>1, <1>2, <1>3, UnquotedRemember, UnquotedRevise, UnquotedKeep DEF Work

LEMMA UnquotedHolds ==
    ASSUME NoneQuoted
    PROVE  Spec => []HomeUnquoted
<1>1. Init => HomeUnquoted
  <2> SUFFICES ASSUME Init, NEW k \in DOMAIN states PROVE UnquotedIn(states[k])
    BY DEF HomeUnquoted
  <2>1. PICK x \in First : states = <<x>>
    BY DEF Init
  <2>2. states[k] = x
    BY <2>1, OneIs
  <2> QED
    BY <2>2 DEF NoneQuoted
<1>2. HistoryOK /\ HomeUnquoted /\ [Next]_vars => HomeUnquoted'
  <2> SUFFICES ASSUME HistoryOK, HomeUnquoted, [Next]_vars PROVE HomeUnquoted'
    OBVIOUS
  <2>1. ASSUME states' = states PROVE HomeUnquoted'
    BY <2>1 DEF HomeUnquoted, UnquotedIn
  <2> QED
    BY <2>1, AtHome, UnquotedWork
<1>3. TInv => HistoryOK
  BY DEF TInv
<1> QED
  BY <1>1, <1>2, <1>3, TravelInvariant, PTL DEF Spec

\* SanitizedDiffsAlike, for any texts but those in which a placeholder begins: the
\* diff of any two checkpoints, on one line or on two branches, is the same before
\* and after both are sanitized. Beside an AWS key, a text that quotes the
\* placeholder of this key would become equal to it.
THEOREM SanitizedDiffsAreAlike ==
    ASSUME NoneQuoted
    PROVE  Spec => SanitizedDiffsAlike
<1>1. HistoryOK /\ HomeUnquoted /\ HistoryOK' /\ HomeUnquoted' =>
        [\A new \in ToSet(states') \ ToSet(states), options \in Options :
            LET clean(x) == [SanitizeState(x, options).state EXCEPT !.events = x.events]
            IN options.drop = {} =>
               \A x \in ToSet(states) :
                  DiffStates(clean(x), clean(new)) = DiffStates(x, new)]_vars
  <2> SUFFICES ASSUME HistoryOK, HomeUnquoted, HistoryOK', HomeUnquoted',
                      NEW new \in ToSet(states'), NEW options \in Options,
                      options.drop = {}, NEW x \in ToSet(states)
               PROVE  DiffStates(CleanOf(x, options), CleanOf(new, options)) = DiffStates(x, new)
    BY DEF CleanOf
  <2>1. Document(x) /\ UnquotedIn(x)
    BY DEF ToSet, HistoryOK, HomeUnquoted
  <2>2. Document(new) /\ UnquotedIn(new)
    BY DEF ToSet, HistoryOK, HomeUnquoted
  <2> QED
    BY <2>1, <2>2, DiffsAlike
<1>2. TInv => HistoryOK
  BY DEF TInv
<1> QED
  BY <1>1, <1>2, UnquotedHolds, TravelInvariant, PTL DEF SanitizedDiffsAlike
=============================================================================
