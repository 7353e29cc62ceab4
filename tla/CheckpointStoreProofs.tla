------------------------ MODULE CheckpointStoreProofs ------------------------
(***************************************************************************)
(* Theorems about CheckpointStore for every set of processes, stores and   *)
(* agents, any number of verbs and any faults: the inductive invariant Inv *)
(* and what follows from it for writers that do not coordinate; then what  *)
(* the store guarantees when writers take turns (spec/store.md 5), among   *)
(* it that it implements the ledger of CheckpointLedger.                   *)
(***************************************************************************)
EXTENDS CheckpointStore, Induction, SequenceTheorems

\* A step only ever adds documents and stored addresses.
Grows ==
    /\ documents' \in Seq(Documents)
    /\ DOMAIN documents \subseteq DOMAIN documents'
    /\ \A d \in DOMAIN documents : documents'[d] = documents[d]
    /\ \A s \in Stores : stored[s] \subseteq stored'[s]

\* put_state: the document is at its address afterwards, and nothing else moved.
LEMMA PutGrows ==
    ASSUME NEW p \in Procs, NEW x \in Documents,
           TypeOK, StoredKnown, PutDocument(p, x)
    PROVE  /\ Grows
           /\ stored' \in [Stores -> SUBSET Nat]
           /\ StoredKnown'
           /\ Digest(x) \in Nat \ {0}
           /\ Digest(x) \in stored'[StoreOf[p]]
           /\ Digest(x) \in DOMAIN documents'
           /\ documents'[Digest(x)] = x
           /\ DOMAIN documents' \subseteq DOMAIN documents \cup {Digest(x)}
<1>1. StoreOf[p] \in Stores
  BY PlacementAssumption
<1>2. documents \in Seq(Documents) /\ stored \in [Stores -> SUBSET Nat]
  BY DEF TypeOK
<1>3. stored' = [stored EXCEPT ![StoreOf[p]] = stored[StoreOf[p]] \cup {Digest(x)}]
  BY DEF PutDocument
<1>4. CASE Known(x)
  <2>1. Digest(x) \in DOMAIN documents /\ documents[Digest(x)] = x
    BY <1>4 DEF Digest, Known
  <2>2. documents' = documents
    BY <1>4 DEF PutDocument
  <2>3. QED
    BY <1>1, <1>2, <1>3, <2>1, <2>2 DEF Grows, StoredKnown
<1>5. CASE ~Known(x)
  <2>1. Digest(x) = Len(documents) + 1
    BY <1>5 DEF Digest
  <2>2. documents' = Append(documents, x)
    BY <1>5 DEF PutDocument
  <2>3. /\ documents' \in Seq(Documents)
        /\ DOMAIN documents = 1 .. Len(documents)
        /\ DOMAIN documents' = 1 .. (Len(documents) + 1)
        /\ \A d \in DOMAIN documents : documents'[d] = documents[d]
        /\ documents'[Len(documents) + 1] = x
        /\ Len(documents) \in Nat
    BY <1>2, <2>2
  <2>4. QED
    BY <1>1, <1>2, <1>3, <2>1, <2>3 DEF Grows, StoredKnown
<1>6. QED
  BY <1>4, <1>5

\* An entry, a head or a lineage that was right stays right when objects are
\* only added.
LEMMA GrowsKeeps ==
    ASSUME Grows
    PROVE  /\ \A s \in Stores : \A r : RefOK(s, r) => RefOK(s, r)'
           /\ \A s \in Stores : \A a, d : TipOK(s, a, d) => TipOK(s, a, d)'
           /\ \A x : LineageOf(x, DOMAIN documents)
                        => LineageOf(x, DOMAIN documents)'
<1>1. \A s \in Stores : \A r : RefOK(s, r) => RefOK(s, r)'
  BY DEF Grows, RefOK, RefTo
<1>2. \A s \in Stores : \A a, d : TipOK(s, a, d) => TipOK(s, a, d)'
  BY DEF Grows, TipOK
<1>3. \A x : LineageOf(x, DOMAIN documents) => LineageOf(x, DOMAIN documents)'
  BY DEF Grows, LineageOf, RootVia
<1>4. QED
  BY <1>1, <1>2, <1>3

\* Untouched files stay right when objects are only added.
LEMMA GrowsKeepsRefs ==
    ASSUME Grows, IndexFaithful, IndexUnique, UNCHANGED index
    PROVE  IndexFaithful' /\ IndexUnique'
<1>1. \A s \in Stores : \A r : RefOK(s, r) => RefOK(s, r)'
  BY GrowsKeeps
<1>2. IndexFaithful'
  BY <1>1 DEF IndexFaithful, RefOK
<1>3. IndexUnique'
  BY DEF IndexUnique
<1>4. QED
  BY <1>2, <1>3

\* Untouched heads stay right when objects are only added.
LEMMA GrowsKeepsHeads ==
    ASSUME Grows, HeadsStored, UNCHANGED heads
    PROVE  HeadsStored'
BY GrowsKeeps DEF HeadsStored, TipOK, Grows

\* A process that does nothing stays right when objects are only added.
LEMMA GrowsKeepsProc ==
    ASSUME NEW q \in Procs, Grows, ProcOK(q),
           pc'[q] = pc[q], agent'[q] = agent[q], call'[q] = call[q]
    PROVE  ProcOK(q)'
<1>1. StoreOf[q] \in Stores
  BY PlacementAssumption
<1>2. \A d : Holds(q, d) => Holds(q, d)' /\ documents'[d] = documents[d]
  BY <1>1 DEF Holds, Grows
<1>3. ForkOK(q)'
  BY <1>2 DEF ProcOK, ForkOK
<1>4. AddressOK(q)'
  BY <1>2 DEF ProcOK, AddressOK, SameCore, Recording
<1>5. CopiesOK(q)'
  <2>1. \A r : RefOK(StoreOf[q], r) => RefOK(StoreOf[q], r)'
    BY <1>1, GrowsKeeps
  <2>2. \A a, d : TipOK(StoreOf[q], a, d) => TipOK(StoreOf[q], a, d)'
    BY <1>1, GrowsKeeps
  <2>3. pc[q] = "writeIndex" =>
          \A i \in DOMAIN call[q].refs : RefOK(StoreOf[q], call[q].refs[i])'
    BY <2>1 DEF ProcOK, CopiesOK, RefOK
  <2>4. pc[q] = "writeHeads" =>
          \A a \in Agents : TipOK(StoreOf[q], a, call[q].tips[a])'
    BY <2>2 DEF ProcOK, CopiesOK, TipOK
  <2>5. QED
    BY <2>3, <2>4 DEF ProcOK, CopiesOK, RefOK, TipOK
<1>6. UnstoredSound(q)'
  BY GrowsKeeps DEF ProcOK, UnstoredSound, LineageOf, RootVia, Grows
<1>7. CheckpointOK(q)'
  BY DEF ProcOK, CheckpointOK, SameCore
<1>8. QED
  BY <1>3, <1>4, <1>5, <1>6, <1>7 DEF ProcOK

\* The document put by put_state keeps the lineages sound.
LEMMA PutKeepsLineage ==
    ASSUME NEW p \in Procs, NEW x \in Documents,
           TypeOK, StoredKnown, LineageSound, PutDocument(p, x),
           LineageOf(x, DOMAIN documents)
    PROVE  LineageSound'
<1>1. documents \in Seq(Documents)
  BY DEF TypeOK
<1>2. CASE Known(x)
  BY <1>2 DEF PutDocument, LineageSound, LineageOf, RootVia
<1>3. CASE ~Known(x)
  <2>1. documents' = Append(documents, x)
    BY <1>3 DEF PutDocument
  <2>2. SUFFICES ASSUME NEW d \in DOMAIN documents'
                 PROVE  LineageOf(documents[d], 1 .. (d - 1))'
    BY DEF LineageSound
  <2>3. CASE d = Len(documents) + 1
    BY <1>1, <2>1, <2>3 DEF LineageOf, RootVia
  <2>4. CASE d \in DOMAIN documents
    BY <1>1, <2>1, <2>4 DEF LineageSound, LineageOf, RootVia
  <2>5. QED
    BY <1>1, <2>1, <2>3, <2>4
<1>4. QED
  BY <1>2, <1>3

-----------------------------------------------------------------------------
(* Types of the records a verb keeps *)

\* A process that does nothing has locals of the right types.
LEMMA NoCallType == ASSUME NEW p \in Procs PROVE NoCall \in Calls
<1>1. \E a \in Agents : TRUE
  BY PlacementAssumption
<1>2. NoDocument \in Documents
  BY <1>1 DEF NoDocument, Documents, NoLineage, Lineages, None
<1>3. Plain(NoName) \in Labels
  BY DEF Plain, Labels
<1>4. QED
  BY <1>2, <1>3 DEF NoCall, Calls, Verbs, None

\* with_event makes a state out of a state.
LEMMA WithEventType ==
    ASSUME NEW x \in Documents, NEW type \in EventTypes,
           NEW name \in Names \cup {NoName}, NEW t \in Times
    PROVE  /\ WithEvent(x, Event(type, name, t)) \in Documents
           /\ WithEvent(x, Event(type, name, t)).agent = x.agent
           /\ WithEvent(x, Event(type, name, t)).lineage = x.lineage
<1>1. Event(type, name, t) \in Events
  BY DEF Event, Events
<1>2. Append(x.events, Event(type, name, t)) \in Seq(Events)
  BY <1>1 DEF Documents
<1>3. QED
  BY <1>2 DEF WithEvent, Documents

\* The child of a sound state is a state with a sound lineage.
LEMMA ChildType ==
    ASSUME TypeOK, NEW x \in Documents, NEW d \in DOMAIN documents
    PROVE  /\ ChildOf(x, d) \in Documents
           /\ SameCore(ChildOf(x, d), x)
           /\ LineageOf(ChildOf(x, d), DOMAIN documents)
<1>1. documents[d] \in Documents /\ d \in Nat \ {0}
  BY DEF TypeOK
<1>2. RootVia(d) \in Nat
  BY <1>1 DEF RootVia, Documents, Lineages
<1>3. documents[d].lineage.generation + 1 \in Nat
  BY <1>1 DEF Documents, Lineages
<1>4. x.lineage \in Lineages
  BY DEF Documents
<1>5. ChildOf(x, d).lineage =
         [x.lineage EXCEPT !.parent = d, !.root = RootVia(d),
                           !.generation = documents[d].lineage.generation + 1]
  BY DEF ChildOf, Documents
<1>6. ChildOf(x, d).lineage \in Lineages
  BY <1>1, <1>2, <1>3, <1>4, <1>5 DEF Lineages
<1>7. ChildOf(x, d) \in Documents
  BY <1>6, <1>5 DEF ChildOf, Documents
<1>8. SameCore(ChildOf(x, d), x)
  BY DEF ChildOf, Documents, SameCore
<1>9. /\ ChildOf(x, d).lineage.parent = d
      /\ ChildOf(x, d).lineage.root = RootVia(d)
      /\ ChildOf(x, d).lineage.generation = documents[d].lineage.generation + 1
  BY <1>4, <1>5 DEF Lineages
<1>10. QED
  BY <1>1, <1>7, <1>8, <1>9 DEF LineageOf, None

\* A first checkpoint is a state with an empty, sound lineage.
LEMMA RootlessType ==
    ASSUME NEW x \in Documents
    PROVE  /\ Rootless(x) \in Documents
           /\ SameCore(Rootless(x), x)
           /\ LineageOf(Rootless(x), DOMAIN documents)
<1>1. x.lineage \in Lineages
  BY DEF Documents
<1>2. Rootless(x).lineage =
         [x.lineage EXCEPT !.parent = None, !.root = None, !.generation = 0]
  BY DEF Rootless, Documents
<1>3. Rootless(x).lineage \in Lineages
  <2>1. None \in Nat /\ 0 \in Nat
    BY DEF None
  <2> HIDE DEF None
  <2>2. QED
    BY <1>1, <1>2, <2>1 DEF Lineages
<1>4. Rootless(x) \in Documents
  BY <1>2, <1>3 DEF Rootless, Documents
<1>5. SameCore(Rootless(x), x)
  BY DEF Rootless, Documents, SameCore
<1>6. /\ Rootless(x).lineage.parent = None
      /\ Rootless(x).lineage.root = None
      /\ Rootless(x).lineage.generation = 0
  BY <1>1, <1>2 DEF Lineages
<1>7. QED
  BY <1>4, <1>5, <1>6 DEF LineageOf

\* A branch of a sound state is a state with a sound lineage.
LEMMA BranchType ==
    ASSUME TypeOK, NEW d \in DOMAIN documents, NEW name \in Names,
           NEW t \in Times
    PROVE  /\ Branch(d, name, t) \in Documents
           /\ Branch(d, name, t).agent = documents[d].agent
           /\ LineageOf(Branch(d, name, t), DOMAIN documents)
<1>1. documents[d] \in Documents /\ d \in Nat \ {0}
  BY DEF TypeOK
<1>2. RootVia(d) \in Nat
  BY <1>1 DEF RootVia, Documents, Lineages
<1> DEFINE l == [parent |-> d, root |-> RootVia(d), forkedFrom |-> d,
                 forkLabel |-> name,
                 generation |-> documents[d].lineage.generation + 1]
           y == [documents[d] EXCEPT !.lineage = l]
<1>3. documents[d].lineage.generation + 1 \in Nat
  BY <1>1 DEF Documents, Lineages
<1>4. l \in Lineages
  BY <1>1, <1>2, <1>3 DEF Lineages
<1>5. y \in Documents /\ y.agent = documents[d].agent /\ y.lineage = l
  BY <1>1, <1>4 DEF Documents
<1>6. Branch(d, name, t) = WithEvent(y, Event("forked", name, t))
  BY DEF Branch
<1>7. "forked" \in EventTypes
  BY DEF EventTypes
<1>8. /\ Branch(d, name, t) \in Documents
      /\ Branch(d, name, t).agent = documents[d].agent
      /\ Branch(d, name, t).lineage = l
  <2> HIDE DEF y, l
  <2> QED
    BY <1>5, <1>6, <1>7, WithEventType
<1>9. QED
  BY <1>1, <1>8 DEF LineageOf, None

\* LineageOf looks at the lineage only.
LEMMA SameLineage ==
    ASSUME NEW x, NEW y, x.lineage = y.lineage, LineageOf(y, DOMAIN documents)
    PROVE  LineageOf(x, DOMAIN documents)
BY DEF LineageOf

\* A stored document is as sound as one about to be put.
LEMMA StoredLineage ==
    ASSUME TypeOK, LineageSound, NEW d \in DOMAIN documents
    PROVE  LineageOf(documents[d], DOMAIN documents)
<1>1. 1 .. (d - 1) \subseteq DOMAIN documents
  BY DEF TypeOK
<1>2. QED
  BY <1>1 DEF LineageSound, LineageOf

-----------------------------------------------------------------------------
(* One step of one process *)

Alone(p) ==
    \A q \in Procs \ {p} :
        /\ pc'[q] = pc[q]
        /\ agent'[q] = agent[q]
        /\ call'[q] = call[q]
        /\ returned'[q] = returned[q]

ProcTypes ==
    /\ pc' \in [Procs -> PCs]
    /\ agent' \in [Procs -> Documents]
    /\ call' \in [Procs -> Calls]
    /\ returned' \in [Procs -> Nat]
    /\ verbs' \in Nat

\* A step that leaves the disk alone only adds objects.
LEMMA DiskStill ==
    ASSUME Inv, UNCHANGED <<documents, stored>>
    PROVE  Grows /\ StoredKnown' /\ LineageSound'
BY DEF Inv, TypeOK, Grows, StoredKnown, LineageSound, LineageOf, RootVia

\* What is left to show of a step: the files it wrote and its own locals.
LEMMA StepKeepsInv ==
    ASSUME Inv, NEW p \in Procs, Grows, Alone(p), ProcTypes,
           stored' \in [Stores -> SUBSET Nat],
           index' \in [Stores -> Seq(Refs)],
           heads' \in [Stores -> [Agents -> Nat]],
           StoredKnown', IndexFaithful', IndexUnique', HeadsStored',
           LineageSound', ProcOK(p)', ReturnedOK(p)'
    PROVE  Inv'
<1>1. TypeOK'
  BY DEF Grows, ProcTypes, TypeOK
<1>2. ASSUME NEW q \in Procs PROVE ProcOK(q)'
  <2>1. CASE q = p
    BY <2>1
  <2>2. CASE q # p
    BY <2>2, GrowsKeepsProc DEF Alone, Inv
  <2>3. QED
    BY <2>1, <2>2
<1>3. ASSUME NEW q \in Procs PROVE ReturnedOK(q)'
  <2>1. CASE q = p
    BY <2>1
  <2>2. CASE q # p
    <3>1. StoreOf[q] \in Stores
      BY PlacementAssumption
    <3>2. ReturnedOK(q) /\ returned'[q] = returned[q] /\ agent'[q] = agent[q]
      BY <2>2 DEF Inv, CheckpointDurable, Alone
    <3>3. QED
      BY <3>1, <3>2 DEF ReturnedOK, Grows, SameCore
  <2>3. QED
    BY <2>1, <2>2
<1>4. QED
  BY <1>1, <1>2, <1>3 DEF Inv, CheckpointDurable

\* A verb that ends leaves no locals behind.
LEMMA EndKeepsProc ==
    ASSUME Inv, NEW p \in Procs, NEW d \in Nat, End(p, d),
           agent' \in [Procs -> Documents],
           LineageOf(agent[p], DOMAIN documents)'
    PROVE  /\ pc' \in [Procs -> PCs]
           /\ call' \in [Procs -> Calls]
           /\ returned' \in [Procs -> Nat]
           /\ returned'[p] = d
           /\ ProcOK(p)'
           /\ \A q \in Procs \ {p} : /\ pc'[q] = pc[q]
                                     /\ call'[q] = call[q]
                                     /\ returned'[q] = returned[q]
<1>1. /\ pc \in [Procs -> PCs]
      /\ call \in [Procs -> Calls]
      /\ returned \in [Procs -> Nat]
  BY DEF Inv, TypeOK
<1>2. pc' = [pc EXCEPT ![p] = "idle"]
  BY DEF End, Goto
<1>3. call' = [call EXCEPT ![p] = NoCall] /\ NoCall \in Calls
  BY NoCallType DEF End
<1>4. returned' = [returned EXCEPT ![p] = d]
  BY DEF End
<1>5. pc'[p] = "idle" /\ call'[p].verb = "none"
  BY <1>1, <1>2, <1>3 DEF NoCall
<1>6. ProcOK(p)'
  BY <1>5 DEF ProcOK, ForkOK, AddressOK, CopiesOK, UnstoredSound, CheckpointOK,
     Recording
<1>7. pc' \in [Procs -> PCs] /\ \A q \in Procs \ {p} : pc'[q] = pc[q]
  BY <1>1, <1>2 DEF PCs
<1>8. call' \in [Procs -> Calls] /\ \A q \in Procs \ {p} : call'[q] = call[q]
  BY <1>1, <1>3
<1>9. /\ returned' \in [Procs -> Nat] /\ returned'[p] = d
      /\ \A q \in Procs \ {p} : returned'[q] = returned[q]
  BY <1>1, <1>4
<1>10. QED
  BY <1>6, <1>7, <1>8, <1>9

\* A step of the agent's own plan keeps the invariant.
LEMMA StepInv ==
    ASSUME Inv, NEW p \in Procs, NEW t \in Times, Step(p, t)
    PROVE  Inv'
<1>1. /\ agent \in [Procs -> Documents]
      /\ returned \in [Procs -> Nat]
      /\ pc[p] = "idle"
  BY DEF Inv, TypeOK, Step
<1> DEFINE x == WithEvent(agent[p], Event("step", NoName, t))
<1>2. x \in Documents /\ x.agent = agent[p].agent /\ x.lineage = agent[p].lineage
  BY <1>1, WithEventType DEF EventTypes
<1>3. agent' = [agent EXCEPT ![p] = x]
  BY DEF Step
<1>4. returned' = [returned EXCEPT ![p] = None]
  BY DEF Step
<1>5. UNCHANGED <<documents, stored, index, heads, pc, call, verbs>>
  BY DEF Step, disk
<1>6. Grows /\ StoredKnown' /\ LineageSound'
  BY <1>5, DiskStill
<1>7. IndexFaithful' /\ IndexUnique' /\ HeadsStored'
  BY <1>5, <1>6, GrowsKeepsRefs, GrowsKeepsHeads DEF Inv
<1>8. Alone(p) /\ agent'[p] = x /\ returned'[p] = None
  BY <1>1, <1>3, <1>4, <1>5 DEF Alone
<1>9. ProcTypes
  <2> HIDE DEF x
  <2> QED
    BY <1>1, <1>2, <1>3, <1>4, <1>5 DEF ProcTypes, Inv, TypeOK, None
<1>10. ProcOK(p)'
  <2>1. LineageOf(agent[p], DOMAIN documents)'
    <3>1. LineageOf(agent[p], DOMAIN documents)
      BY DEF Inv, ProcOK, UnstoredSound
    <3>2. QED
      BY <1>2, <1>5, <1>8, <3>1 DEF LineageOf, RootVia
  <2>2. call[p].verb # "checkpoint"
    BY <1>1 DEF Inv, ProcOK, CheckpointOK
  <2>3. QED
    BY <1>1, <1>5, <2>1, <2>2 DEF Inv, ProcOK, ForkOK, AddressOK, CopiesOK,
       UnstoredSound, CheckpointOK, Holds, Recording
<1>11. QED
  BY <1>5, <1>6, <1>7, <1>8, <1>9, <1>10, StepKeepsInv
     DEF Inv, TypeOK, ReturnedOK

\* Beginning a verb keeps the types of the process and of its result.
LEMMA BeginTypes ==
    ASSUME Inv, NEW p \in Procs, Begin(p)
    PROVE  /\ returned' \in [Procs -> Nat]
           /\ returned'[p] = None
           /\ \A q \in Procs \ {p} : returned'[q] = returned[q]
           /\ verbs' \in Nat
           /\ pc[p] = "idle"
           /\ call[p].verb = "none"
<1>1. returned \in [Procs -> Nat] /\ verbs \in Nat
  BY DEF Inv, TypeOK
<1>2. returned' = [returned EXCEPT ![p] = None] /\ verbs' = verbs + 1
  BY DEF Begin
<1>3. pc[p] = "idle"
  BY DEF Begin
<1>4. call[p].verb = "none"
  BY <1>3 DEF Inv, ProcOK, CheckpointOK
<1>5. QED
  BY <1>1, <1>2, <1>3, <1>4 DEF None

\* resume keeps the invariant.
LEMMA ResumeInv ==
    ASSUME Inv, NEW p \in Procs, NEW d \in DOMAIN documents, NEW t \in Times,
           Resume(p, d, t)
    PROVE  Inv'
<1>1. /\ documents \in Seq(Documents)
      /\ agent \in [Procs -> Documents]
      /\ documents[d] \in Documents
  BY DEF Inv, TypeOK
<1> DEFINE x == WithEvent(documents[d], Event("resumed", NoName, t))
<1>2. x \in Documents /\ x.lineage = documents[d].lineage
  BY <1>1, WithEventType DEF EventTypes
<1>3. agent' = [agent EXCEPT ![p] = x]
  BY DEF Resume
<1>4. Begin(p)
  BY DEF Resume
<1>5. UNCHANGED <<documents, stored, index, heads, pc, call>>
  BY DEF Resume, disk
<1>6. Grows /\ StoredKnown' /\ LineageSound'
  BY <1>5, DiskStill
<1>7. IndexFaithful' /\ IndexUnique' /\ HeadsStored'
  BY <1>5, <1>6, GrowsKeepsRefs, GrowsKeepsHeads DEF Inv
<1>8. Alone(p) /\ agent'[p] = x /\ returned'[p] = None
  BY <1>1, <1>3, <1>4, <1>5, BeginTypes DEF Alone
<1>9. ProcTypes
  <2> HIDE DEF x
  <2> QED
    BY <1>1, <1>2, <1>3, <1>4, <1>5, BeginTypes DEF ProcTypes, Inv, TypeOK
<1>10. ProcOK(p)'
  <2>1. LineageOf(agent[p], DOMAIN documents)'
    <3>1. LineageOf(documents[d], DOMAIN documents)
      BY StoredLineage DEF Inv
    <3>2. QED
      BY <1>2, <1>5, <1>8, <3>1 DEF LineageOf, RootVia
  <2>2. pc[p] = "idle" /\ call[p].verb = "none"
    BY <1>4, BeginTypes
  <2>3. QED
    BY <1>5, <2>1, <2>2 DEF ProcOK, ForkOK, AddressOK, CopiesOK,
       UnstoredSound, CheckpointOK, Recording
<1>11. QED
  BY <1>5, <1>6, <1>7, <1>8, <1>9, <1>10, StepKeepsInv
     DEF Inv, TypeOK, ReturnedOK

\* The reads at the start of checkpoint keep the invariant.
LEMMA BeginCheckpointInv ==
    ASSUME Inv, NEW p \in Procs, NEW name \in CheckpointNames,
           BeginCheckpoint(p, name)
    PROVE  Inv'
<1> DEFINE x == agent[p]
           h == heads[StoreOf[p]][x.agent]
           known == h # None /\ h \in stored[StoreOf[p]]
           idle == known /\ SameCore(documents[h], x)
           state == IF known THEN ChildOf(x, h) ELSE Rootless(x)
           mine == [NoCall EXCEPT !.verb = "checkpoint", !.label = Plain(name),
                                  !.state = state, !.address = h]
<1>1. /\ pc \in [Procs -> PCs]
      /\ call \in [Procs -> Calls]
      /\ x \in Documents
      /\ StoreOf[p] \in Stores
      /\ h \in Nat
  BY PlacementAssumption DEF Inv, TypeOK, Documents
<1>2. Begin(p) /\ UNCHANGED <<documents, stored, index, heads, agent>>
  BY DEF BeginCheckpoint, disk
<1>3. pc' = [pc EXCEPT ![p] = IF idle THEN "find" ELSE "put"]
  BY DEF BeginCheckpoint, Goto
<1>4. call' = [call EXCEPT ![p] = mine]
  BY DEF BeginCheckpoint
<1>5. known => h \in DOMAIN documents
  BY <1>1 DEF Inv, StoredKnown
<1>6. /\ state \in Documents
      /\ SameCore(state, x)
      /\ LineageOf(state, DOMAIN documents)
  BY <1>1, <1>5, ChildType, RootlessType DEF Inv
<1>7. /\ mine \in Calls /\ mine.verb = "checkpoint"
      /\ mine.state = state /\ mine.address = h
  <2>1. Plain(name) \in Labels
    BY LabelAssumption DEF Plain, Labels
  <2> HIDE DEF state, h
  <2>2. QED
    BY <1>1, <1>6, <2>1, NoCallType DEF Calls, Verbs
<1>8. /\ pc' \in [Procs -> PCs] /\ call' \in [Procs -> Calls]
      /\ pc'[p] = (IF idle THEN "find" ELSE "put") /\ call'[p] = mine
      /\ \A q \in Procs \ {p} : pc'[q] = pc[q] /\ call'[q] = call[q]
  <2> HIDE DEF mine, idle
  <2> QED
    BY <1>1, <1>3, <1>4, <1>7 DEF PCs
<1>9. Alone(p) /\ ProcTypes /\ returned'[p] = None
  BY <1>2, <1>8, BeginTypes DEF Alone, ProcTypes, Inv, TypeOK
<1>10. Grows /\ StoredKnown' /\ LineageSound'
  BY <1>2, DiskStill
<1>11. IndexFaithful' /\ IndexUnique' /\ HeadsStored'
  BY <1>2, <1>10, GrowsKeepsRefs, GrowsKeepsHeads DEF Inv
<1>12. ProcOK(p)'
  <2>1. ForkOK(p)' /\ CopiesOK(p)'
    BY <1>7, <1>8 DEF ForkOK, CopiesOK
  <2>2. AddressOK(p)'
    BY <1>2, <1>5, <1>7, <1>8 DEF AddressOK, Recording, Holds
  <2>3. UnstoredSound(p)'
    <3>1. LineageOf(agent[p], DOMAIN documents)
      BY DEF Inv, ProcOK, UnstoredSound
    <3> HIDE DEF state, mine
    <3>2. QED
      BY <1>2, <1>6, <1>7, <1>8, <3>1 DEF UnstoredSound, LineageOf, RootVia
  <2>4. CheckpointOK(p)'
    <3> HIDE DEF state, mine
    <3> QED
      BY <1>2, <1>6, <1>7, <1>8 DEF CheckpointOK, SameCore
  <2>5. QED
    BY <2>1, <2>2, <2>3, <2>4 DEF ProcOK
<1>13. QED
  BY <1>2, <1>9, <1>10, <1>11, <1>12, StepKeepsInv DEF Inv, TypeOK, ReturnedOK

\* Looking for the head in the index keeps the invariant.
LEMMA FindHeadInv ==
    ASSUME Inv, NEW p \in Procs, FindHead(p)
    PROVE  Inv'
<1>1. pc[p] = "find" /\ UNCHANGED <<documents, stored, index, heads, agent, verbs>>
  BY DEF FindHead, disk
<1>2. Grows /\ StoredKnown' /\ LineageSound'
  BY <1>1, DiskStill
<1>3. IndexFaithful' /\ IndexUnique' /\ HeadsStored'
  BY <1>1, <1>2, GrowsKeepsRefs, GrowsKeepsHeads DEF Inv
<1>4. /\ pc \in [Procs -> PCs] /\ agent \in [Procs -> Documents]
      /\ call \in [Procs -> Calls] /\ call[p].address \in Nat
      /\ returned \in [Procs -> Nat] /\ verbs \in Nat
  BY DEF Inv, TypeOK, Calls
<1>5. LineageOf(agent[p], DOMAIN documents)'
  BY <1>1 DEF Inv, ProcOK, UnstoredSound, LineageOf, RootVia
<1>6. CASE End(p, call[p].address)
  <2>1. Alone(p) /\ ProcTypes /\ ProcOK(p)' /\ returned'[p] = call[p].address
    BY <1>1, <1>4, <1>5, <1>6, EndKeepsProc DEF Alone, ProcTypes
  <2>2. ReturnedOK(p)'
    BY <1>1, <2>1 DEF ReturnedOK, Inv, ProcOK, AddressOK, Holds, SameCore
  <2>3. QED
    BY <1>1, <1>2, <1>3, <2>1, <2>2, StepKeepsInv DEF Inv, TypeOK
<1>7. CASE Goto(p, "put") /\ UNCHANGED <<call, returned>>
  <2>1. pc' \in [Procs -> PCs] /\ pc'[p] = "put"
    BY <1>4, <1>7 DEF Goto, PCs
  <2>2. Alone(p) /\ ProcTypes
    BY <1>1, <1>4, <1>7, <2>1 DEF Alone, ProcTypes, Goto
  <2>3. ProcOK(p)'
    <3>1. ForkOK(p)' /\ AddressOK(p)' /\ CopiesOK(p)' /\ CheckpointOK(p)'
      BY <1>1, <1>7, <2>1 DEF Inv, ProcOK, ForkOK, AddressOK, CopiesOK,
         CheckpointOK, Holds, Recording
    <3>2. UnstoredSound(p)'
      BY <1>1, <1>7, <2>1 DEF Inv, ProcOK, UnstoredSound, LineageOf, RootVia
    <3>3. QED
      BY <3>1, <3>2 DEF ProcOK
  <2>4. ReturnedOK(p)'
    BY <1>1, <1>7 DEF Inv, CheckpointDurable, ReturnedOK
  <2>5. QED
    BY <1>1, <1>2, <1>3, <2>2, <2>3, <2>4, StepKeepsInv DEF Inv, TypeOK
<1>8. QED
  BY <1>6, <1>7 DEF FindHead

\* A step that puts a sound document and then waits for the index.
LEMMA PutStepInv ==
    ASSUME Inv, NEW p \in Procs, NEW x \in Documents,
           LineageOf(x, DOMAIN documents), PutDocument(p, x),
           UNCHANGED <<index, heads, agent>>,
           NEW c \in Calls, call' = [call EXCEPT ![p] = c],
           pc' = [pc EXCEPT ![p] = "readIndex"],
           returned' \in [Procs -> Nat], verbs' \in Nat,
           \A q \in Procs \ {p} : returned'[q] = returned[q],
           ReturnedOK(p)',
           c.state = x, c.address = Digest(x), c.verb # "restore",
           c.verb = "checkpoint" => SameCore(x, agent[p]),
           c.verb = "fork" => /\ Holds(p, c.point)
                              /\ documents[c.point].agent = x.agent
    PROVE  Inv'
<1>1. /\ pc \in [Procs -> PCs] /\ agent \in [Procs -> Documents]
      /\ call \in [Procs -> Calls] /\ StoreOf[p] \in Stores
  BY PlacementAssumption DEF Inv, TypeOK
<1>2. /\ Grows /\ StoredKnown' /\ stored' \in [Stores -> SUBSET Nat]
      /\ Digest(x) \in stored'[StoreOf[p]] \cap DOMAIN documents'
      /\ documents'[Digest(x)] = x
  BY PutGrows DEF Inv
<1>3. LineageSound'
  BY PutKeepsLineage DEF Inv
<1>4. IndexFaithful' /\ IndexUnique' /\ HeadsStored'
  BY <1>2, GrowsKeepsRefs, GrowsKeepsHeads DEF Inv
<1>5. /\ pc' \in [Procs -> PCs] /\ call' \in [Procs -> Calls]
      /\ pc'[p] = "readIndex" /\ call'[p] = c
  BY <1>1 DEF PCs
<1>6. Alone(p) /\ ProcTypes
  BY <1>1, <1>5 DEF Alone, ProcTypes
<1>7. ProcOK(p)'
  <2>1. ForkOK(p)'
    BY <1>1, <1>2, <1>5 DEF ForkOK, Holds, Grows
  <2>2. AddressOK(p)'
    BY <1>2, <1>5 DEF AddressOK, Holds, Recording
  <2>3. CopiesOK(p)' /\ CheckpointOK(p)'
    BY <1>5 DEF CopiesOK, CheckpointOK, SameCore
  <2>4. UnstoredSound(p)'
    BY <1>2, <1>5, GrowsKeeps DEF Inv, ProcOK, UnstoredSound, LineageOf, RootVia,
       Grows
  <2>5. QED
    BY <2>1, <2>2, <2>3, <2>4 DEF ProcOK
<1>8. QED
  BY <1>2, <1>3, <1>4, <1>6, <1>7, StepKeepsInv DEF Inv, TypeOK

\* put_state of a checkpoint keeps the invariant.
LEMMA PutInv ==
    ASSUME Inv, NEW p \in Procs, Put(p)
    PROVE  Inv'
<1> DEFINE x == call[p].state
           c == [call[p] EXCEPT !.address = Digest(x)]
<1>1. /\ call \in [Procs -> Calls] /\ x \in Documents
      /\ returned \in [Procs -> Nat] /\ verbs \in Nat
  BY DEF Inv, TypeOK, Calls
<1>2. /\ pc[p] = "put" /\ PutDocument(p, x)
      /\ call' = [call EXCEPT ![p] = c]
      /\ pc' = [pc EXCEPT ![p] = "readIndex"]
      /\ UNCHANGED <<index, heads, agent, returned, verbs>>
  BY DEF Put, Goto
<1>3. /\ call[p].verb = "checkpoint" /\ SameCore(x, agent[p])
      /\ LineageOf(x, DOMAIN documents)
  BY <1>2 DEF Inv, ProcOK, AddressOK, CheckpointOK, UnstoredSound
<1>4. Grows /\ Digest(x) \in Nat
  BY <1>1, <1>2, PutGrows DEF Inv
<1>5. /\ c \in Calls /\ c.state = x /\ c.address = Digest(x)
      /\ c.verb = "checkpoint"
  BY <1>1, <1>3, <1>4 DEF Calls
<1>6. ReturnedOK(p)'
  BY <1>2, <1>4, PlacementAssumption DEF Inv, CheckpointDurable, ReturnedOK,
     Grows, SameCore
<1>7. \A q \in Procs \ {p} : returned'[q] = returned[q]
  BY <1>2
<1>8. returned' \in [Procs -> Nat] /\ verbs' \in Nat
  BY <1>1, <1>2
<1> HIDE DEF x, c
<1>9. QED
  BY <1>1, <1>2, <1>3, <1>5, <1>6, <1>7, <1>8, PutStepInv

\* Storing an imported or migrated state keeps the invariant.
LEMMA BeginRecordInv ==
    ASSUME Inv, NEW p \in Procs, NEW x \in Documents,
           NEW name \in CheckpointNames,
           LineageOf(x, DOMAIN documents), BeginRecord(p, x, name)
    PROVE  Inv'
<1> DEFINE c == [NoCall EXCEPT !.verb = "record", !.state = x,
                               !.label = Plain(name), !.address = Digest(x)]
<1>1. /\ Begin(p) /\ PutDocument(p, x)
      /\ call' = [call EXCEPT ![p] = c]
      /\ pc' = [pc EXCEPT ![p] = "readIndex"]
      /\ UNCHANGED <<index, heads, agent>>
  BY DEF BeginRecord, Goto
<1>2. Digest(x) \in Nat
  BY <1>1, PutGrows DEF Inv
<1>3. Plain(name) \in Labels
  BY LabelAssumption DEF Plain, Labels
<1>4. /\ c \in Calls /\ c.state = x /\ c.address = Digest(x)
      /\ c.verb = "record"
  BY <1>2, <1>3, NoCallType DEF Calls, Verbs
<1>5. ReturnedOK(p)'
  BY <1>1, BeginTypes DEF ReturnedOK
<1> HIDE DEF c
<1>6. QED
  BY <1>1, <1>4, <1>5, BeginTypes, PutStepInv

\* Storing a branch keeps the invariant.
LEMMA PutBranchInv ==
    ASSUME Inv, NEW p \in Procs, NEW t \in Times, PutBranch(p, t)
    PROVE  Inv'
<1> DEFINE todo == call[p].todo
           d == call[p].point
           x == Branch(d, Head(todo), t)
           c == [call[p] EXCEPT !.state = x,
                    !.label = [kind |-> "fork", name |-> Head(todo)],
                    !.address = Digest(x), !.todo = Tail(todo)]
<1>1. /\ call \in [Procs -> Calls] /\ call[p] \in Calls /\ todo \in Seq(Names)
      /\ returned \in [Procs -> Nat] /\ verbs \in Nat
      /\ StoreOf[p] \in Stores
  BY PlacementAssumption DEF Inv, TypeOK, Calls
<1>2. /\ pc[p] = "branch" /\ PutDocument(p, x)
      /\ call' = [call EXCEPT ![p] = c]
      /\ pc' = [pc EXCEPT ![p] = "readIndex"]
      /\ UNCHANGED <<index, heads, agent, returned, verbs>>
  BY DEF PutBranch, Goto
<1>3. /\ call[p].verb = "fork" /\ todo # <<>>
      /\ Holds(p, d)
  BY <1>2 DEF Inv, ProcOK, ForkOK
<1>4. d \in DOMAIN documents /\ Head(todo) \in Names /\ Tail(todo) \in Seq(Names)
  BY <1>1, <1>3 DEF Holds
<1>5. /\ x \in Documents /\ x.agent = documents[d].agent
      /\ LineageOf(x, DOMAIN documents)
  BY <1>4, BranchType DEF Inv
<1>6. Grows /\ Digest(x) \in Nat
  BY <1>2, <1>5, PutGrows DEF Inv
<1>7. [kind |-> "fork", name |-> Head(todo)] \in Labels
  BY <1>4 DEF Labels
<1>8. /\ c \in Calls /\ c.state = x /\ c.address = Digest(x)
      /\ c.verb = "fork" /\ c.point = d
  <2> HIDE DEF x, todo
  <2> QED
    BY <1>1, <1>3, <1>4, <1>5, <1>6, <1>7 DEF Calls
<1>9. ReturnedOK(p)'
  BY <1>1, <1>2, <1>6 DEF Inv, CheckpointDurable, ReturnedOK, Grows, SameCore
<1>10. returned' \in [Procs -> Nat] /\ verbs' \in Nat
  BY <1>1, <1>2
<1>11. \A q \in Procs \ {p} : returned'[q] = returned[q]
  BY <1>2
<1> HIDE DEF x, c, d, todo
<1>12. QED
  BY <1>1, <1>2, <1>3, <1>5, <1>8, <1>9, <1>10, <1>11, PutStepInv

\* Storing a fork point keeps the invariant.
LEMMA BeginForkInv ==
    ASSUME Inv, NEW p \in Procs, NEW x \in Documents, NEW labels \in LabelLists,
           LineageOf(x, DOMAIN documents), BeginFork(p, x, labels)
    PROVE  Inv'
<1> DEFINE c == [NoCall EXCEPT !.verb = "fork", !.state = x,
                               !.point = Digest(x), !.todo = labels]
<1>1. /\ pc \in [Procs -> PCs] /\ agent \in [Procs -> Documents]
      /\ call \in [Procs -> Calls] /\ StoreOf[p] \in Stores
      /\ labels \in Seq(Names) /\ labels # <<>>
  BY PlacementAssumption, LabelAssumption DEF Inv, TypeOK, BeginFork
<1>2. /\ Begin(p) /\ PutDocument(p, x)
      /\ call' = [call EXCEPT ![p] = c]
      /\ pc' = [pc EXCEPT ![p] = "branch"]
      /\ UNCHANGED <<index, heads, agent>>
  BY DEF BeginFork, Goto
<1>3. /\ Grows /\ StoredKnown' /\ stored' \in [Stores -> SUBSET Nat]
      /\ Digest(x) \in Nat
      /\ Digest(x) \in stored'[StoreOf[p]] \cap DOMAIN documents'
      /\ documents'[Digest(x)] = x
  BY <1>2, PutGrows DEF Inv
<1>4. LineageSound'
  BY <1>2, PutKeepsLineage DEF Inv
<1>5. IndexFaithful' /\ IndexUnique' /\ HeadsStored'
  BY <1>2, <1>3, GrowsKeepsRefs, GrowsKeepsHeads DEF Inv
<1>6. /\ c \in Calls /\ c.state = x /\ c.point = Digest(x)
      /\ c.verb = "fork" /\ c.todo = labels
  BY <1>1, <1>3, NoCallType DEF Calls, Verbs
<1>7. /\ pc' \in [Procs -> PCs] /\ call' \in [Procs -> Calls]
      /\ pc'[p] = "branch" /\ call'[p] = c
      /\ \A q \in Procs \ {p} : pc'[q] = pc[q] /\ call'[q] = call[q]
  <2> HIDE DEF c
  <2> QED
    BY <1>1, <1>2, <1>6 DEF PCs
<1>8. Alone(p) /\ ProcTypes
  BY <1>1, <1>2, <1>7, BeginTypes DEF Alone, ProcTypes
<1>9. ProcOK(p)'
  <2>1. ForkOK(p)' /\ AddressOK(p)' /\ CopiesOK(p)' /\ CheckpointOK(p)'
    <3> HIDE DEF c
    <3> QED
      BY <1>1, <1>3, <1>6, <1>7 DEF ForkOK, AddressOK, CopiesOK, CheckpointOK,
         Holds, Recording
  <2>2. UnstoredSound(p)'
    BY <1>2, <1>3, <1>7, GrowsKeeps DEF Inv, ProcOK, UnstoredSound, LineageOf,
       RootVia, Grows
  <2>3. QED
    BY <2>1, <2>2 DEF ProcOK
<1>10. ReturnedOK(p)'
  BY <1>2, BeginTypes DEF ReturnedOK
<1>11. QED
  BY <1>2, <1>3, <1>4, <1>5, <1>8, <1>9, <1>10, StepKeepsInv DEF Inv, TypeOK

\* What the caller of record_checkpoint, or of set_head, does next.
LEMMA RecordedKeepsProc ==
    ASSUME Inv, NEW p \in Procs, pc[p] \in {"readIndex", "writeHeads"},
           Recorded(p), UNCHANGED <<documents, stored, agent, verbs>>
    PROVE  Alone(p) /\ ProcTypes /\ ProcOK(p)' /\ ReturnedOK(p)'
<1>1. /\ pc \in [Procs -> PCs] /\ agent \in [Procs -> Documents]
      /\ call \in [Procs -> Calls] /\ call[p] \in Calls
      /\ returned \in [Procs -> Nat] /\ verbs \in Nat
      /\ call[p].address \in Nat /\ call[p].point \in Nat
  BY DEF Inv, TypeOK, Calls
<1>2. /\ Holds(p, call[p].address)
      /\ documents[call[p].address].agent = call[p].state.agent
      /\ call[p].verb # "restore" =>
            documents[call[p].address] = call[p].state
  BY DEF Inv, ProcOK, AddressOK, Recording
<1>3. LineageOf(agent[p], DOMAIN documents)'
  BY DEF Inv, ProcOK, UnstoredSound, LineageOf, RootVia
<1>4. CASE call[p].verb # "fork"
  <2> DEFINE d == IF call[p].verb = "checkpoint" THEN call[p].address ELSE None
  <2>1. End(p, d) /\ d \in Nat
    BY <1>1, <1>4 DEF Recorded, None
  <2>2. Alone(p) /\ ProcTypes /\ ProcOK(p)' /\ returned'[p] = d
    <3> HIDE DEF d
    <3> QED
      BY <1>1, <1>3, <2>1, EndKeepsProc DEF Alone, ProcTypes
  <2>3. ReturnedOK(p)'
    BY <1>2, <2>2 DEF Inv, ProcOK, CheckpointOK, ReturnedOK, Holds, SameCore
  <2>4. QED
    BY <2>2, <2>3
<1>5. CASE call[p].verb = "fork" /\ call[p].todo # <<>>
  <2>1. pc' = [pc EXCEPT ![p] = "branch"] /\ UNCHANGED <<call, returned>>
    BY <1>5 DEF Recorded, Goto
  <2>2. pc' \in [Procs -> PCs] /\ pc'[p] = "branch"
    BY <1>1, <2>1 DEF PCs
  <2>3. Alone(p) /\ ProcTypes
    BY <1>1, <2>1, <2>2 DEF Alone, ProcTypes
  <2>4. ProcOK(p)'
    BY <1>3, <1>5, <2>1, <2>2 DEF Inv, ProcOK, ForkOK, AddressOK, CopiesOK,
       UnstoredSound, CheckpointOK, Holds, Recording
  <2>5. ReturnedOK(p)'
    BY <2>1 DEF Inv, CheckpointDurable, ReturnedOK
  <2>6. QED
    BY <2>3, <2>4, <2>5
<1>6. CASE call[p].verb = "fork" /\ call[p].todo = <<>>
  <2> DEFINE c == [call[p] EXCEPT !.verb = "restore", !.address = call[p].point]
  <2>1. /\ pc' = [pc EXCEPT ![p] = "readHeads"]
        /\ call' = [call EXCEPT ![p] = c]
        /\ UNCHANGED returned
    BY <1>6 DEF Recorded, Goto
  <2>2. /\ c \in Calls /\ c.verb = "restore" /\ c.address = call[p].point
        /\ c.point = call[p].point /\ c.state = call[p].state
    BY <1>1 DEF Calls, Verbs
  <2>3. /\ pc' \in [Procs -> PCs] /\ call' \in [Procs -> Calls]
        /\ pc'[p] = "readHeads" /\ call'[p] = c
        /\ \A q \in Procs \ {p} : pc'[q] = pc[q] /\ call'[q] = call[q]
    <3> HIDE DEF c
    <3> QED
      BY <1>1, <2>1, <2>2 DEF PCs
  <2>4. Alone(p) /\ ProcTypes
    BY <1>1, <2>1, <2>3 DEF Alone, ProcTypes
  <2>5. /\ Holds(p, call[p].point)
        /\ documents[call[p].point].agent = call[p].state.agent
    BY <1>6 DEF Inv, ProcOK, ForkOK
  <2>6. ProcOK(p)'
    <3> HIDE DEF c
    <3> QED
      BY <1>3, <2>2, <2>3, <2>5 DEF ProcOK, ForkOK, AddressOK, CopiesOK,
         UnstoredSound, CheckpointOK, Holds, Recording
  <2>7. ReturnedOK(p)'
    BY <2>1 DEF Inv, CheckpointDurable, ReturnedOK
  <2>8. QED
    BY <2>4, <2>6, <2>7
<1>7. QED
  BY <1>4, <1>5, <1>6

\* Reading the index keeps the invariant.
LEMMA ReadIndexInv ==
    ASSUME Inv, NEW p \in Procs, ReadIndex(p)
    PROVE  Inv'
<1>1. /\ pc[p] = "readIndex"
      /\ UNCHANGED <<documents, stored, index, heads, agent, verbs>>
  BY DEF ReadIndex, disk
<1>2. Grows /\ StoredKnown' /\ LineageSound'
  BY <1>1, DiskStill
<1>3. IndexFaithful' /\ IndexUnique' /\ HeadsStored'
  BY <1>1, <1>2, GrowsKeepsRefs, GrowsKeepsHeads DEF Inv
<1>4. CASE call[p].address \in Digests(index[StoreOf[p]])
  <2>1. Recorded(p)
    BY <1>4 DEF ReadIndex
  <2>2. QED
    BY <1>1, <1>2, <1>3, <2>1, RecordedKeepsProc, StepKeepsInv DEF Inv, TypeOK
<1>5. CASE call[p].address \notin Digests(index[StoreOf[p]])
  <2> DEFINE c == [call[p] EXCEPT !.refs = index[StoreOf[p]]]
  <2>1. /\ call' = [call EXCEPT ![p] = c]
        /\ pc' = [pc EXCEPT ![p] = "writeIndex"]
        /\ UNCHANGED returned
    BY <1>5 DEF ReadIndex, Goto
  <2>2. /\ pc \in [Procs -> PCs] /\ agent \in [Procs -> Documents]
        /\ call \in [Procs -> Calls] /\ call[p] \in Calls
        /\ returned \in [Procs -> Nat] /\ verbs \in Nat
        /\ StoreOf[p] \in Stores /\ index[StoreOf[p]] \in Seq(Refs)
    BY PlacementAssumption DEF Inv, TypeOK
  <2>3. /\ c \in Calls /\ c.refs = index[StoreOf[p]] /\ c.verb = call[p].verb
        /\ c.state = call[p].state /\ c.address = call[p].address
        /\ c.point = call[p].point
    BY <2>2 DEF Calls
  <2>4. /\ pc' \in [Procs -> PCs] /\ call' \in [Procs -> Calls]
        /\ pc'[p] = "writeIndex" /\ call'[p] = c
        /\ \A q \in Procs \ {p} : pc'[q] = pc[q] /\ call'[q] = call[q]
    <3> HIDE DEF c
    <3> QED
      BY <2>1, <2>2, <2>3 DEF PCs
  <2>5. Alone(p) /\ ProcTypes
    BY <1>1, <2>1, <2>2, <2>4 DEF Alone, ProcTypes
  <2> HIDE DEF c
  <2>6. ForkOK(p)' /\ AddressOK(p)' /\ CheckpointOK(p)'
    BY <1>1, <2>3, <2>4 DEF Inv, ProcOK, ForkOK, AddressOK, CheckpointOK,
       Holds, Recording
  <2>7. CopiesOK(p)'
    BY <1>1, <1>5, <2>2, <2>3, <2>4 DEF Inv, IndexFaithful, IndexUnique,
       CopiesOK, RefOK
  <2>8. UnstoredSound(p)'
    BY <1>1, <2>4 DEF Inv, ProcOK, UnstoredSound, LineageOf, RootVia
  <2>9. ReturnedOK(p)'
    BY <1>1, <2>1 DEF Inv, CheckpointDurable, ReturnedOK
  <2>10. ProcOK(p)'
    BY <2>6, <2>7, <2>8 DEF ProcOK
  <2>11. QED
    BY <1>1, <1>2, <1>3, <2>5, <2>9, <2>10, StepKeepsInv DEF Inv, TypeOK
<1>6. QED
  BY <1>4, <1>5

\* Replacing the index, perhaps by a stale copy, keeps the invariant.
LEMMA WriteIndexInv ==
    ASSUME Inv, NEW p \in Procs, WriteIndex(p)
    PROVE  Inv'
<1> DEFINE s == StoreOf[p]
           refs == call[p].refs
           ref == RefTo(call[p].address, call[p].state, call[p].label)
           c == [call[p] EXCEPT !.refs = <<>>]
<1>1. /\ pc[p] = "writeIndex"
      /\ index' = [index EXCEPT ![s] = Append(refs, ref)]
      /\ call' = [call EXCEPT ![p] = c]
      /\ pc' = [pc EXCEPT ![p] = "readHeads"]
      /\ UNCHANGED <<documents, stored, heads, agent, returned, verbs>>
  BY DEF WriteIndex, Goto
<1>2. /\ pc \in [Procs -> PCs] /\ agent \in [Procs -> Documents]
      /\ call \in [Procs -> Calls] /\ call[p] \in Calls
      /\ returned \in [Procs -> Nat] /\ verbs \in Nat
      /\ s \in Stores /\ index \in [Stores -> Seq(Refs)]
      /\ refs \in Seq(Refs) /\ call[p].state \in Documents
      /\ call[p].address \in Nat /\ call[p].label \in Labels
  BY PlacementAssumption DEF Inv, TypeOK, Calls
<1>3. ref \in Refs
  BY <1>2 DEF RefTo, Refs, Documents, Lineages
<1>4. Grows /\ StoredKnown' /\ LineageSound'
  BY <1>1, DiskStill
<1>5. HeadsStored'
  BY <1>1, <1>4, GrowsKeepsHeads DEF Inv
<1>6. /\ \A i \in DOMAIN refs : RefOK(s, refs[i])
      /\ Unrepeated(refs)
      /\ call[p].address \notin Digests(refs)
  BY <1>1 DEF Inv, ProcOK, CopiesOK
<1>7. RefOK(s, ref) /\ ref.digest = call[p].address
  BY <1>1 DEF Inv, ProcOK, AddressOK, Holds, Recording, RefOK, RefTo
<1>8. /\ Append(refs, ref) \in Seq(Refs)
      /\ \A i \in DOMAIN Append(refs, ref) : RefOK(s, Append(refs, ref)[i])
  <2> HIDE DEF ref, refs, s
  <2> QED
    BY <1>2, <1>3, <1>6, <1>7
<1>9. Unrepeated(Append(refs, ref))
  <2>1. \A i \in DOMAIN refs : refs[i].digest # call[p].address
    BY <1>6 DEF Digests
  <2> HIDE DEF ref, refs
  <2>2. QED
    BY <1>2, <1>3, <1>6, <1>7, <2>1 DEF Unrepeated
<1>10. /\ index' \in [Stores -> Seq(Refs)] /\ index'[s] = Append(refs, ref)
       /\ \A r \in Stores \ {s} : index'[r] = index[r]
  <2> HIDE DEF ref, refs, s
  <2> QED
    BY <1>1, <1>2, <1>8
<1>11. IndexFaithful'
  <2> HIDE DEF ref, refs, s
  <2> QED
    BY <1>1, <1>8, <1>10 DEF Inv, IndexFaithful, RefOK
<1>12. IndexUnique'
  <2> HIDE DEF ref, refs, s
  <2> QED
    BY <1>9, <1>10 DEF Inv, IndexUnique
<1>13. /\ c \in Calls /\ c.verb = call[p].verb /\ c.point = call[p].point
       /\ c.state = call[p].state /\ c.address = call[p].address
  <2>1. <<>> \in Seq(Refs)
    OBVIOUS
  <2>2. QED
    BY <1>2, <2>1 DEF Calls
<1>14. /\ pc' \in [Procs -> PCs] /\ call' \in [Procs -> Calls]
       /\ pc'[p] = "readHeads" /\ call'[p] = c
       /\ \A q \in Procs \ {p} : pc'[q] = pc[q] /\ call'[q] = call[q]
  <2> HIDE DEF c
  <2> QED
    BY <1>1, <1>2, <1>13 DEF PCs
<1>15. Alone(p) /\ ProcTypes
  BY <1>1, <1>2, <1>14 DEF Alone, ProcTypes
<1> HIDE DEF c
<1>16. ProcOK(p)'
  <2>1. ForkOK(p)' /\ AddressOK(p)' /\ CopiesOK(p)' /\ CheckpointOK(p)'
    BY <1>1, <1>13, <1>14 DEF Inv, ProcOK, ForkOK, AddressOK, CopiesOK,
       CheckpointOK, Holds, Recording
  <2>2. UnstoredSound(p)'
    BY <1>1, <1>14 DEF Inv, ProcOK, UnstoredSound, LineageOf, RootVia
  <2>3. QED
    BY <2>1, <2>2 DEF ProcOK
<1>17. ReturnedOK(p)'
  BY <1>1 DEF Inv, CheckpointDurable, ReturnedOK
<1>18. QED
  BY <1>1, <1>4, <1>5, <1>10, <1>11, <1>12, <1>15, <1>16, <1>17, StepKeepsInv
     DEF Inv, TypeOK

\* Reading the heads keeps the invariant.
LEMMA ReadHeadsInv ==
    ASSUME Inv, NEW p \in Procs, ReadHeads(p)
    PROVE  Inv'
<1> DEFINE tips == heads[StoreOf[p]]
           c == [call[p] EXCEPT !.tips = tips]
<1>1. /\ pc[p] = "readHeads"
      /\ call' = [call EXCEPT ![p] = c]
      /\ pc' = [pc EXCEPT ![p] = "writeHeads"]
      /\ UNCHANGED <<documents, stored, index, heads, agent, returned, verbs>>
  BY DEF ReadHeads, Goto, disk
<1>2. /\ pc \in [Procs -> PCs] /\ agent \in [Procs -> Documents]
      /\ call \in [Procs -> Calls] /\ call[p] \in Calls
      /\ returned \in [Procs -> Nat] /\ verbs \in Nat
      /\ StoreOf[p] \in Stores /\ tips \in [Agents -> Nat]
  BY PlacementAssumption DEF Inv, TypeOK
<1>3. Grows /\ StoredKnown' /\ LineageSound'
  BY <1>1, DiskStill
<1>4. IndexFaithful' /\ IndexUnique' /\ HeadsStored'
  BY <1>1, <1>3, GrowsKeepsRefs, GrowsKeepsHeads DEF Inv
<1>5. /\ c \in Calls /\ c.verb = call[p].verb /\ c.point = call[p].point
      /\ c.state = call[p].state /\ c.address = call[p].address
      /\ c.tips = tips
  BY <1>2 DEF Calls
<1>6. /\ pc' \in [Procs -> PCs] /\ call' \in [Procs -> Calls]
      /\ pc'[p] = "writeHeads" /\ call'[p] = c
      /\ \A q \in Procs \ {p} : pc'[q] = pc[q] /\ call'[q] = call[q]
  <2> HIDE DEF c
  <2> QED
    BY <1>1, <1>2, <1>5 DEF PCs
<1>7. Alone(p) /\ ProcTypes
  BY <1>1, <1>2, <1>6 DEF Alone, ProcTypes
<1> HIDE DEF c
<1>8. ProcOK(p)'
  <2>1. ForkOK(p)' /\ AddressOK(p)' /\ CheckpointOK(p)'
    BY <1>1, <1>5, <1>6 DEF Inv, ProcOK, ForkOK, AddressOK, CheckpointOK,
       Holds, Recording
  <2>2. CopiesOK(p)'
    BY <1>1, <1>2, <1>5, <1>6 DEF Inv, HeadsStored, CopiesOK, TipOK
  <2>3. UnstoredSound(p)'
    BY <1>1, <1>6 DEF Inv, ProcOK, UnstoredSound, LineageOf, RootVia
  <2>4. QED
    BY <2>1, <2>2, <2>3 DEF ProcOK
<1>9. ReturnedOK(p)'
  BY <1>1 DEF Inv, CheckpointDurable, ReturnedOK
<1>10. QED
  BY <1>1, <1>3, <1>4, <1>7, <1>8, <1>9, StepKeepsInv DEF Inv, TypeOK

\* Replacing the heads, perhaps by a stale copy, keeps the invariant.
LEMMA WriteHeadsInv ==
    ASSUME Inv, NEW p \in Procs, WriteHeads(p)
    PROVE  Inv'
<1> DEFINE s == StoreOf[p]
           a == call[p].state.agent
           tips == [call[p].tips EXCEPT ![a] = call[p].address]
<1>1. /\ pc[p] = "writeHeads" /\ Recorded(p)
      /\ heads' = [heads EXCEPT ![s] = tips]
      /\ UNCHANGED <<documents, stored, index, agent, verbs>>
  BY DEF WriteHeads
<1>2. /\ s \in Stores /\ heads \in [Stores -> [Agents -> Nat]]
      /\ call[p].tips \in [Agents -> Nat] /\ a \in Agents
      /\ call[p].address \in Nat
  BY PlacementAssumption DEF Inv, TypeOK, Calls, Documents
<1>3. Grows /\ StoredKnown' /\ LineageSound'
  BY <1>1, DiskStill
<1>4. IndexFaithful' /\ IndexUnique'
  BY <1>1, <1>3, GrowsKeepsRefs DEF Inv
<1>5. TipOK(s, a, call[p].address)
  BY <1>1 DEF Inv, ProcOK, AddressOK, Holds, Recording, TipOK
<1>6. tips \in [Agents -> Nat] /\ \A b \in Agents : TipOK(s, b, tips[b])
  <2>1. \A b \in Agents : TipOK(s, b, call[p].tips[b])
    BY <1>1 DEF Inv, ProcOK, CopiesOK
  <2>2. \A b \in Agents : tips[b] = IF b = a THEN call[p].address
                                   ELSE call[p].tips[b]
    BY <1>2
  <2>3. tips \in [Agents -> Nat]
    BY <1>2
  <2> HIDE DEF tips, a, s
  <2>4. QED
    BY <1>5, <2>1, <2>2, <2>3
<1>7. /\ heads' \in [Stores -> [Agents -> Nat]] /\ heads'[s] = tips
      /\ \A r \in Stores \ {s} : heads'[r] = heads[r]
  <2> HIDE DEF tips
  <2> QED
    BY <1>1, <1>2, <1>6
<1>8. HeadsStored'
  <2> HIDE DEF tips, s
  <2> QED
    BY <1>1, <1>6, <1>7 DEF Inv, HeadsStored, TipOK
<1>9. QED
  BY <1>1, <1>3, <1>4, <1>7, <1>8, RecordedKeepsProc, StepKeepsInv
     DEF Inv, TypeOK

\* A failed write or a crash keeps the invariant.
LEMMA FaultInv ==
    ASSUME Inv, NEW p \in Procs,
           Fail(p) \/ \E t \in Times : Crash(p, t)
    PROVE  Inv'
<1>1. /\ agent \in [Procs -> Documents] /\ verbs \in Nat
  BY DEF Inv, TypeOK
<1>2. /\ End(p, None) /\ None \in Nat
      /\ UNCHANGED <<documents, stored, index, heads, verbs>>
  BY DEF Fail, Crash, disk, None
<1>3. /\ agent' \in [Procs -> Documents]
      /\ \A q \in Procs \ {p} : agent'[q] = agent[q]
      /\ LineageOf(agent[p], DOMAIN documents)'
  <2>1. CASE Fail(p)
    <3>1. LineageOf(agent[p], DOMAIN documents)
      BY DEF Inv, ProcOK, UnstoredSound
    <3>2. UNCHANGED <<agent, documents>>
      BY <2>1 DEF Fail, disk
    <3>3. QED
      BY <1>1, <3>1, <3>2 DEF LineageOf, RootVia
  <2>2. ASSUME NEW t \in Times, Crash(p, t)
        PROVE  /\ agent' \in [Procs -> Documents]
               /\ \A q \in Procs \ {p} : agent'[q] = agent[q]
               /\ LineageOf(agent[p], DOMAIN documents)'
    <3>1. agent' = [agent EXCEPT ![p] = Fresh(AgentOf[p], t)]
      BY <2>2 DEF Crash
    <3>2. Fresh(AgentOf[p], t) \in Documents
      <4>1. AgentOf[p] \in Agents
        BY PlacementAssumption
      <4>2. Event("created", NoName, t) \in Events
        BY DEF Event, Events, EventTypes
      <4>3. NoLineage \in Lineages
        BY DEF NoLineage, Lineages, None
      <4>4. QED
        BY <4>1, <4>2, <4>3 DEF Fresh, Documents
    <3>3. Fresh(AgentOf[p], t).lineage = NoLineage
      BY DEF Fresh
    <3>4. agent'[p] = Fresh(AgentOf[p], t)
      BY <1>1, <3>1
    <3>5. LineageOf(agent[p], DOMAIN documents)'
      BY <3>3, <3>4 DEF LineageOf, NoLineage
    <3>6. QED
      BY <1>1, <3>1, <3>2, <3>5
  <2>3. QED
    BY <2>1, <2>2
<1>4. Grows /\ StoredKnown' /\ LineageSound'
  BY <1>2, DiskStill
<1>5. IndexFaithful' /\ IndexUnique' /\ HeadsStored'
  BY <1>2, <1>4, GrowsKeepsRefs, GrowsKeepsHeads DEF Inv
<1>6. Alone(p) /\ ProcTypes /\ ProcOK(p)' /\ returned'[p] = None
  BY <1>1, <1>2, <1>3, EndKeepsProc DEF Alone, ProcTypes
<1>7. QED
  BY <1>2, <1>4, <1>5, <1>6, StepKeepsInv DEF Inv, TypeOK, ReturnedOK

-----------------------------------------------------------------------------
(* The inductive invariant *)

\* The invariant holds in an empty store.
LEMMA InitInv == Init => Inv
<1> SUFFICES ASSUME Init PROVE Inv
  OBVIOUS
<1>1. \A p \in Procs : /\ agent[p] \in Documents
                       /\ agent[p].lineage = NoLineage
  <2>1. ASSUME NEW a \in Agents, NEW t \in Times
        PROVE  Fresh(a, t) \in Documents /\ Fresh(a, t).lineage = NoLineage
    <3>1. Event("created", NoName, t) \in Events
      BY DEF Event, Events, EventTypes
    <3>2. NoLineage \in Lineages
      BY DEF NoLineage, Lineages, None
    <3>3. QED
      BY <3>1, <3>2 DEF Fresh, Documents
  <2>2. TAKE p \in Procs
  <2>3. PICK a \in Agents, t \in Times : agent[p] = Fresh(a, t)
    BY DEF Init
  <2>4. QED
    BY <2>1, <2>3
<1>2. agent \in [Procs -> Documents]
  BY <1>1 DEF Init
<1>3. \A p \in Procs : NoCall \in Calls
  BY NoCallType
<1>4. TypeOK
  BY <1>2, <1>3 DEF Init, TypeOK, PCs, None
<1>5. ASSUME NEW p \in Procs PROVE ProcOK(p)
  <2>1. pc[p] = "idle" /\ call[p].verb = "none"
    BY DEF Init, NoCall
  <2>2. LineageOf(agent[p], DOMAIN documents)
    BY <1>1 DEF LineageOf, NoLineage
  <2>3. QED
    BY <2>1, <2>2 DEF ProcOK, ForkOK, AddressOK, CopiesOK, UnstoredSound,
       CheckpointOK, Recording
<1>6. QED
  BY <1>4, <1>5 DEF Init, Inv, StoredKnown, IndexFaithful, IndexUnique,
     Unrepeated, HeadsStored, TipOK, LineageSound, CheckpointDurable, ReturnedOK

\* Every step keeps the invariant.
LEMMA NextInv == Inv /\ [Next]_vars => Inv'
<1> SUFFICES ASSUME Inv, [Next]_vars PROVE Inv'
  OBVIOUS
<1>1. ASSUME NEW p \in Procs, Continue(p) PROVE Inv'
  BY <1>1, FindHeadInv, PutInv, PutBranchInv, ReadIndexInv, WriteIndexInv,
     ReadHeadsInv, WriteHeadsInv DEF Continue
<1>2. ASSUME NEW p \in Procs, Invoke(p) PROVE Inv'
  <2>1. ASSUME NEW d \in DOMAIN documents
        PROVE  /\ documents[d] \in Documents
               /\ LineageOf(documents[d], DOMAIN documents)
    BY StoredLineage DEF Inv, TypeOK
  <2>2. /\ agent[p] \in Documents
        /\ LineageOf(agent[p], DOMAIN documents)
    BY DEF Inv, TypeOK, ProcOK, UnstoredSound
  <2>3. ASSUME NEW t \in Times, Step(p, t) PROVE Inv'
    BY <2>3, StepInv
  <2>4. ASSUME NEW d \in DOMAIN documents, NEW t \in Times, Resume(p, d, t)
        PROVE  Inv'
    BY <2>4, ResumeInv
  <2>5. ASSUME NEW name \in CheckpointNames, BeginCheckpoint(p, name) PROVE Inv'
    BY <2>5, BeginCheckpointInv
  <2>6. ASSUME NEW labels \in LabelLists, BeginFork(p, agent[p], labels)
        PROVE  Inv'
    BY <2>2, <2>6, BeginForkInv
  <2>7. ASSUME NEW d \in stored[StoreOf[p]], NEW labels \in LabelLists,
               BeginFork(p, documents[d], labels)
        PROVE  Inv'
    <3>1. d \in DOMAIN documents
      BY PlacementAssumption DEF Inv, StoredKnown
    <3>2. QED
      BY <2>1, <2>7, <3>1, BeginForkInv
  <2>8. ASSUME NEW d \in DOMAIN documents, NEW name \in CheckpointNames,
               Import(p, d, name)
        PROVE  Inv'
    BY <2>1, <2>8, BeginRecordInv DEF Import
  <2>9. ASSUME NEW d \in DOMAIN documents, NEW name \in CheckpointNames,
               NEW t \in Times, Migrate(p, d, name, t)
        PROVE  Inv'
    <3> DEFINE x == WithEvent(documents[d], Event("migrated", NoName, t))
    <3>1. x \in Documents /\ x.lineage = documents[d].lineage
      BY <2>1, WithEventType DEF EventTypes
    <3>2. LineageOf(x, DOMAIN documents)
      BY <2>1, <3>1, SameLineage
    <3>3. BeginRecord(p, x, name)
      BY <2>9 DEF Migrate
    <3> HIDE DEF x
    <3>4. QED
      BY <3>1, <3>2, <3>3, BeginRecordInv
  <2>10. QED
    BY <1>2, <2>3, <2>4, <2>5, <2>6, <2>7, <2>8, <2>9 DEF Invoke
<1>3. CASE UNCHANGED vars
  <2>1. UNCHANGED <<documents, stored, index, heads, pc, agent, call, returned, verbs>>
    BY <1>3 DEF vars
  <2>2. Grows /\ StoredKnown' /\ LineageSound'
    BY <2>1, DiskStill
  <2>3. IndexFaithful' /\ IndexUnique' /\ HeadsStored'
    BY <2>1, <2>2, GrowsKeepsRefs, GrowsKeepsHeads DEF Inv
  <2>4. ASSUME NEW q \in Procs PROVE ProcOK(q)' /\ ReturnedOK(q)'
    <3>1. ProcOK(q)'
      BY <2>1, <2>2, GrowsKeepsProc DEF Inv
    <3>2. ReturnedOK(q)'
      BY <2>1 DEF Inv, CheckpointDurable, ReturnedOK
    <3>3. QED
      BY <3>1, <3>2
  <2>5. TypeOK'
    BY <2>1 DEF Inv, TypeOK
  <2>6. QED
    BY <2>2, <2>3, <2>4, <2>5 DEF Inv, CheckpointDurable
<1>4. QED
  BY <1>1, <1>2, <1>3, FaultInv DEF Next

\* What a verb has read or stored stays true of the disk until it returns: the
\* invariant from which the theorems below follow.
THEOREM InvHolds == Spec => []Inv
<1>1. QED
  BY InitInv, NextInv, PTL DEF Spec

\* Every variable keeps its type: no address, label or copy of a file is ever
\* made up by a verb that was interrupted.
THEOREM TypesHold == Spec => []TypeOK
<1>1. Inv => TypeOK
  BY DEF Inv
<1>2. QED
  BY <1>1, InvHolds, PTL

\* Whoever writes to a store and whatever fails, its index and its heads name
\* objects it holds, say of them what they say of themselves, and record no
\* state twice.
THEOREM ReferencesHold == Spec => [](IndexFaithful /\ IndexUnique /\ HeadsStored)
<1>1. Inv => IndexFaithful /\ IndexUnique /\ HeadsStored
  BY DEF Inv
<1>2. QED
  BY <1>1, InvHolds, PTL

\* Every lineage is an honest link to an older document: chains of parents are
\* finite, and generation and root are those of the chain.
THEOREM LineageHolds == Spec => []LineageSound
<1>1. Inv => LineageSound
  BY DEF Inv
<1>2. QED
  BY <1>1, InvHolds, PTL

\* A checkpoint that has returned is on disk with the work of its agent.
THEOREM DurabilityHolds == Spec => []CheckpointDurable
<1>1. Inv => CheckpointDurable
  BY DEF Inv
<1>2. QED
  BY <1>1, InvHolds, PTL

-----------------------------------------------------------------------------
(* Ancestry *)

\* One step of the walk from a state to its parents.
Walks(s, walk) ==
    \A e \in DOMAIN documents :
        LET parent == documents[e].lineage.parent
        IN walk[e] = IF e \notin stored[s] \/ parent = None THEN <<e>>
                     ELSE <<e>> \o walk[parent]

LEMMA AncestryWalks ==
    ASSUME TypeOK, LineageSound, NEW s \in Stores
    PROVE  \E walk \in [DOMAIN documents -> Seq(DOMAIN documents)] :
              Walks(s, walk) /\ \A d : Ancestry(s, d) = walk[d]
<1> DEFINE n == Len(documents)
           D == DOMAIN documents
           V == Seq(D)
           Parent(e) == documents[e].lineage.parent
           Body(f, e) == IF e \notin stored[s] \/ Parent(e) = None THEN <<e>>
                         ELSE <<e>> \o f[Parent(e)]
           stop == {e \in D : e \notin stored[s] \/ Parent(e) = None}
           m == [e \in D |-> e]
           next == [e \in D |-> Parent(e)]
           base == [e \in D |-> <<e>>]
           op == [r \in D \X V |-> <<r[1]>> \o r[2]]
           walk == CHOOSE f : f = [e \in D |-> Body(f, e)]
<1>1. n \in Nat /\ D = 1 .. n
  BY DEF TypeOK
<1>2. ASSUME NEW e \in D \ stop PROVE Parent(e) \in D /\ Parent(e) < e
  <2>1. Parent(e) \in 1 .. (e - 1)
    BY DEF LineageSound, LineageOf
  <2> QED
    BY <1>1, <2>1
<1>3. \A d : Ancestry(s, d) = walk[d]
  BY DEF Ancestry
<1>4. m \in [D -> 0 .. n] /\ \A e \in D \ stop : next[e] \in D /\ m[next[e]] < m[e]
  BY <1>1, <1>2
<1>5. base \in [D -> V] /\ op \in [D \X V -> V]
  <2> HIDE DEF D
  <2> QED
    OBVIOUS
<1>6. \E f \in [D -> V] : f = [e \in D |-> Body(f, e)]
  <2> HIDE DEF D, V, m, next, op, n, stop, base
  <2>1. PICK f \in [D -> V] : AsksFrom(f, D, stop, base, next, op)
    BY <1>1, <1>4, <1>5, UnfoldsFrom
  <2>2. ASSUME NEW e \in D PROVE f[e] = Body(f, e)
    <3>1. CASE e \in stop
      <4>1. f[e] = base[e]
        BY <2>1, <3>1 DEF AsksFrom
      <4> QED
        BY <3>1, <4>1 DEF stop, base
    <3>2. CASE e \notin stop
      <4>1. next[e] = Parent(e) /\ f[Parent(e)] \in V
        BY <1>2, <3>2 DEF next
      <4>2. f[e] = op[<<e, f[Parent(e)]>>]
        BY <2>1, <3>2, <4>1 DEF AsksFrom
      <4>3. ~(e \notin stored[s] \/ Parent(e) = None)
        BY <3>2 DEF stop
      <4> QED
        BY <4>1, <4>2, <4>3 DEF op
    <3> QED
      BY <3>1, <3>2
  <2> HIDE DEF Body
  <2>3. f = [e \in D |-> Body(f, e)]
    BY <2>2
  <2> QED
    BY <2>3
\* The walk is one function: any two that unfold agree, from the oldest state on.
<1>7. walk = [e \in D |-> Body(walk, e)]
  <2> HIDE DEF Body, D
  <2> QED
    BY <1>6
<1>8. walk \in [D -> V]
  <2> DEFINE T == {e \in D : walk[e] \in V}
  <2>1. ASSUME NEW e \in D, \A d \in D : m[d] < m[e] => d \in T PROVE e \in T
    <3>0. walk[e] = Body(walk, e)
      <4> HIDE DEF Body, D, walk
      <4> QED
        BY <1>7
    <3> HIDE DEF walk
    <3>1. CASE e \in stop
      <4>1. walk[e] = <<e>>
        BY <3>0, <3>1
      <4>2. <<e>> \in V
        OBVIOUS
      <4> QED
        BY <4>1, <4>2
    <3>2. CASE e \notin stop
      <4>1. Parent(e) \in D /\ walk[Parent(e)] \in V
        BY <1>2, <2>1, <3>2
      <4>2. walk[e] = <<e>> \o walk[Parent(e)]
        BY <3>0, <3>2
      <4> HIDE DEF D
      <4>3. walk[e] \in V
        BY <4>1, <4>2
      <4> QED
        BY <4>3
    <3> QED
      BY <3>1, <3>2
  <2>2. m \in [D -> Nat]
    BY <1>1
  <2> HIDE DEF T, m, D, walk
  <2>3. \A e \in D : (\A d \in D : m[d] < m[e] => d \in T) => e \in T
    BY <2>1
  <2>4. \A e \in D : e \in T
    BY <2>2, <2>3, Descends
  <2>5. \A e \in D : walk[e] \in V
    BY <2>4 DEF T
  <2>6. walk = [e \in D |-> walk[e]]
    <3> HIDE DEF Body
    <3> QED
      BY <1>7
  <2> QED
    BY <2>5, <2>6
<1>9. Walks(s, walk)
  <2> SUFFICES ASSUME NEW e \in D PROVE walk[e] = Body(walk, e)
    BY DEF Walks
  <2> HIDE DEF Body, D, walk
  <2> QED
    BY <1>7
<1> HIDE DEF walk
<1> QED
  BY <1>3, <1>8, <1>9

\* Every step up is one generation, and keeps the root.
LEMMA AncestrySound == TypeOK /\ StoredKnown /\ LineageSound => AncestryReachesRoot
<1> SUFFICES ASSUME TypeOK, StoredKnown, LineageSound, NEW s \in Stores, NEW d \in stored[s]
             PROVE  LET chain == Ancestry(s, d)
                        last == chain[Len(chain)]
                    IN \/ last \notin stored[s]
                       \/ /\ Len(chain) = documents[d].lineage.generation + 1
                          /\ last = RootVia(d)
  BY DEF AncestryReachesRoot
<1> DEFINE D == DOMAIN documents
           Parent(e) == documents[e].lineage.parent
           Generation(e) == documents[e].lineage.generation
<1>1. PICK walk \in [D -> Seq(D)] : Walks(s, walk) /\ \A e : Ancestry(s, e) = walk[e]
  BY AncestryWalks
<1>2. D \in SUBSET (Nat \ {0}) /\ d \in D
  BY DEF TypeOK, StoredKnown
<1>3. ASSUME NEW e \in D
      PROVE  /\ e \in Nat /\ e # None /\ Generation(e) \in Nat
             /\ Parent(e) = None => RootVia(e) = e /\ Generation(e) = 0
             /\ Parent(e) # None =>
                   /\ Parent(e) \in D /\ Parent(e) < e
                   /\ Generation(e) = Generation(Parent(e)) + 1
                   /\ RootVia(e) = RootVia(Parent(e))
  <2>1. /\ LineageOf(documents[e], 1 .. (e - 1)) /\ documents[e] \in Documents
        /\ e \in 1 .. Len(documents) /\ Len(documents) \in Nat
    BY DEF LineageSound, TypeOK
  <2>2. Generation(e) \in Nat /\ e \in Nat /\ e # None
    BY <1>2, <2>1 DEF Documents, Lineages, None
  <2>3. CASE Parent(e) = None
    <3>1. documents[e].lineage.root = None /\ Generation(e) = 0
      BY <2>1, <2>3 DEF LineageOf
    <3> QED
      BY <2>2, <2>3, <3>1 DEF RootVia
  <2>4. CASE Parent(e) # None
    <3>1. /\ Parent(e) \in 1 .. (e - 1) /\ documents[e].lineage.root = RootVia(Parent(e))
          /\ Generation(e) = Generation(Parent(e)) + 1
      BY <2>1, <2>4 DEF LineageOf
    <3>2. Parent(e) \in D /\ Parent(e) < e
      BY <2>1, <3>1 DEF TypeOK
    <3>3. RootVia(Parent(e)) # None
      BY <2>4 DEF RootVia
    <3>4. RootVia(e) = RootVia(Parent(e))
      BY <3>1, <3>3 DEF RootVia
    <3> QED
      BY <2>2, <2>4, <3>1, <3>2, <3>4
  <2> QED
    BY <2>3, <2>4
<1> DEFINE Oldest(e) == walk[e][Len(walk[e])]
           OK(e) == /\ Len(walk[e]) \in Nat \ {0}
                    /\ Oldest(e) \in stored[s] =>
                          /\ Len(walk[e]) = Generation(e) + 1
                          /\ Oldest(e) = RootVia(e)
           T == {e \in D : OK(e)}
           m == [e \in D |-> e]
<1>4. ASSUME NEW e \in D, e \notin stored[s] \/ Parent(e) = None PROVE OK(e)
  <2>1. walk[e] = <<e>>
    BY <1>1, <1>4 DEF Walks
  <2>2. Len(walk[e]) = 1 /\ Oldest(e) = e
    BY <2>1
  <2>3. e \in stored[s] => RootVia(e) = e /\ Generation(e) = 0
    BY <1>3, <1>4
  <2> QED
    BY <2>2, <2>3
<1>5. ASSUME NEW e \in D, e \in stored[s], Parent(e) # None, OK(Parent(e)) PROVE OK(e)
  <2> DEFINE p == Parent(e)
             up == walk[p]
             one == <<e>>
  <2>1. p \in D /\ up \in Seq(D) /\ one \in Seq(D) /\ Len(one) = 1
    BY <1>1, <1>3, <1>5
  <2>2. walk[e] = one \o up
    BY <1>1, <1>5 DEF Walks
  <2>3. Len(up) \in Nat \ {0} /\ Oldest(p) = up[Len(up)]
    BY <1>5
  <2>4. Generation(p) \in Nat /\ Generation(e) = Generation(p) + 1 /\ RootVia(e) = RootVia(p)
    BY <1>3, <1>5
  <2>5. Oldest(p) \in stored[s] => Len(up) = Generation(p) + 1 /\ Oldest(p) = RootVia(p)
    BY <1>5
  <2> HIDE DEF D, p, up, one
  <2> DEFINE n == Len(up)
  <2>6. Len(one \o up) = n + 1 /\ (one \o up)[n + 1] = up[n]
    <3>1. /\ Len(one \o up) = Len(one) + Len(up)
          /\ \A i \in 1 .. Len(up) : (one \o up)[Len(one) + i] = up[i]
      BY <2>1, Joined
    <3>2. n \in 1 .. Len(up) /\ Len(one) + n = n + 1 /\ Len(one) + Len(up) = n + 1
      BY <2>1, <2>3
    <3> QED
      BY <3>1, <3>2
  <2>7. Len(walk[e]) = Len(up) + 1 /\ Oldest(e) = Oldest(p)
    BY <2>2, <2>3, <2>6
  <2> HIDE DEF Oldest, Generation
  <2> QED
    BY <2>3, <2>4, <2>5, <2>7
<1>6. ASSUME NEW e \in D, \A f \in D : m[f] < m[e] => f \in T PROVE e \in T
  <2>1. CASE e \notin stored[s] \/ Parent(e) = None
    BY <1>4, <2>1
  <2>2. CASE e \in stored[s] /\ Parent(e) # None
    <3>1. Parent(e) \in D /\ m[Parent(e)] < m[e]
      BY <1>3, <2>2
    <3> HIDE DEF OK, m
    <3>2. OK(Parent(e))
      BY <1>6, <3>1
    <3> QED
      BY <1>5, <2>2, <3>2
  <2> QED
    BY <2>1, <2>2
<1>7. m \in [D -> Nat]
  BY <1>2
<1>8. OK(d)
  <2> HIDE DEF T, m, D
  <2>1. \A e \in D : (\A f \in D : m[f] < m[e] => f \in T) => e \in T
    BY <1>6
  <2>2. \A e \in D : e \in T
    BY <1>7, <2>1, Descends
  <2> QED
    BY <1>2, <2>2 DEF T
<1> QED
  BY <1>1, <1>8

\* ancestry walks from any stored state to the root it claims, one generation at a
\* time, unless a parent is in another store.
THEOREM AncestryIsSound == Spec => []AncestryReachesRoot
<1>1. Inv => AncestryReachesRoot
  BY AncestrySound DEF Inv
<1> QED
  BY <1>1, InvHolds, PTL

-----------------------------------------------------------------------------
(* What taking turns adds to the inductive invariant *)

\* The index holds an entry of that agent which justifies this head.
Logged(s, a, d) ==
    \E i \in DOMAIN index[s] :
        /\ index[s][i].agent = a
        /\ d \in {index[s][i].digest, index[s][i].forkedFrom}

\* Nobody else is in a verb, so what the verb has read is still on disk; what
\* it is about to make a head has been recorded before.
TurnOK(p) ==
    LET s == StoreOf[p]
    IN /\ pc[p] # "idle" => \A q \in Peers(p) : pc[q] = "idle"
       /\ pc[p] = "writeIndex" => call[p].refs = index[s]
       /\ pc[p] = "writeHeads" => call[p].tips = heads[s]
       /\ pc[p] \in Recording /\ call[p].verb = "fork" =>
             call[p].state.lineage.forkedFrom = call[p].point
       /\ pc[p] \in {"readHeads", "writeHeads"} =>
             IF call[p].verb = "restore"
             THEN Logged(s, call[p].state.agent, call[p].address)
             ELSE call[p].address \in Digests(index[s])
       /\ returned[p] # None => returned[p] \in Digests(index[s])

HeadsLogged ==
    \A s \in Stores, a \in Agents : heads[s][a] # None => Logged(s, a, heads[s][a])

Turns == (\A p \in Procs : TurnOK(p)) /\ HeadsLogged

Only(p) ==
    \A q \in Procs \ {p} :
        pc'[q] = pc[q] /\ call'[q] = call[q] /\ returned'[q] = returned[q]

\* A process that starts a verb finds its store free.
StartsFree(p) ==
    pc[p] = "idle" /\ pc'[p] # "idle" => \A q \in Peers(p) : pc[q] = "idle"

\* The files of a store change only in the hands of a process in a verb on it.
FilesInHand(p) ==
    \A s \in Stores : s # StoreOf[p] \/ pc[p] = "idle" =>
        index'[s] = index[s] /\ heads'[s] = heads[s]

IndexKept == \A s \in Stores : Digests(index[s]) \subseteq Digests(index'[s])

\* A step of one process leaves the turn of the others alone.
LEMMA OthersInTurn ==
    ASSUME Turns, NEW p \in Procs, Only(p), TurnOK(p)', StartsFree(p),
           FilesInHand(p), IndexKept, HeadsLogged'
    PROVE  Turns'
<1>1. ASSUME NEW q \in Procs \ {p} PROVE TurnOK(q)'
  <2>1. /\ pc'[q] = pc[q] /\ call'[q] = call[q] /\ returned'[q] = returned[q]
        /\ TurnOK(q) /\ StoreOf[q] \in Stores
    BY PlacementAssumption DEF Only, Turns
  <2>2. pc[q] # "idle" => \A r \in Peers(q) : pc'[r] = "idle"
    <3> SUFFICES ASSUME pc[q] # "idle", NEW r \in Peers(q) PROVE pc'[r] = "idle"
      OBVIOUS
    <3>1. pc[r] = "idle" /\ r \in Procs
      BY <2>1 DEF TurnOK, Peers
    <3>2. CASE r # p
      BY <3>1, <3>2 DEF Only
    <3>3. CASE r = p
      <4>1. q \in Peers(p)
        BY <3>3 DEF Peers
      <4> QED
        BY <3>1, <3>3, <4>1 DEF StartsFree
    <3> QED
      BY <3>2, <3>3
  <2>3. pc[q] # "idle" => /\ index'[StoreOf[q]] = index[StoreOf[q]]
                          /\ heads'[StoreOf[q]] = heads[StoreOf[q]]
    <3>1. CASE StoreOf[q] = StoreOf[p]
      <4>1. p \in Peers(q)
        BY <3>1 DEF Peers
      <4> QED
        BY <2>1, <4>1 DEF TurnOK, FilesInHand
    <3> QED
      BY <2>1, <3>1 DEF FilesInHand
  <2>4. returned[q] # None => returned[q] \in Digests(index'[StoreOf[q]])
    BY <2>1 DEF TurnOK, IndexKept
  <2>5. CASE pc[q] = "idle"
    BY <2>1, <2>4, <2>5 DEF TurnOK, Digests, Recording
  <2>6. CASE pc[q] # "idle"
    BY <2>1, <2>2, <2>3, <2>4, <2>6 DEF TurnOK, Digests, Recording, Logged, Peers
  <2> QED
    BY <2>5, <2>6
<1> QED
  BY <1>1 DEF Turns

\* A step that replaces no file keeps the heads logged.
LEMMA FilesStill ==
    ASSUME Turns, NEW p \in Procs, UNCHANGED <<index, heads>>, Only(p),
           TurnOK(p)', StartsFree(p)
    PROVE  Turns'
<1>1. FilesInHand(p) /\ IndexKept /\ HeadsLogged'
  BY DEF FilesInHand, IndexKept, HeadsLogged, Logged, Turns, Digests
<1> QED
  BY <1>1, OthersInTurn

-----------------------------------------------------------------------------
(* The verbs *)

\* A step that ends outside every verb, having returned a recorded state or none.
LEMMA IdleTurn ==
    ASSUME Turns, NEW p \in Procs, UNCHANGED <<index, heads>>, Only(p),
           pc'[p] = "idle",
           returned'[p] # None => returned'[p] \in Digests(index[StoreOf[p]])
    PROVE  Turns'
<1>1. TurnOK(p)' /\ StartsFree(p)
  BY DEF TurnOK, StartsFree, Recording, Digests
<1> QED
  BY <1>1, FilesStill

LEMMA EndTurn ==
    ASSUME Inv, Turns, NEW p \in Procs, NEW d, End(p, d),
           UNCHANGED <<index, heads>>,
           d # None => d \in Digests(index[StoreOf[p]])
    PROVE  Turns'
<1>1. pc'[p] = "idle" /\ returned'[p] = d /\ Only(p)
  BY DEF End, Goto, Only, Inv, TypeOK
<1> QED
  BY <1>1, IdleTurn

\* A verb begins: no file is read into its locals yet.
LEMMA BeginTurn ==
    ASSUME Inv, Turns, TakeTurns, NEW p \in Procs, Begin(p),
           NEW l \in {"find", "put", "branch", "readIndex"},
           NEW c \in Calls, l = "readIndex" => c.verb # "fork",
           pc' = [pc EXCEPT ![p] = l], call' = [call EXCEPT ![p] = c],
           UNCHANGED <<index, heads>>
    PROVE  Turns'
<1>1. /\ pc'[p] = l /\ call'[p] = c /\ returned'[p] = None /\ Only(p)
      /\ \A q \in Peers(p) : pc[q] = "idle"
  BY DEF Begin, Only, Inv, TypeOK
<1>2. StartsFree(p)
  BY <1>1 DEF StartsFree
<1>3. \A q \in Peers(p) : pc'[q] = "idle"
  BY <1>1 DEF Only, Peers
<1>4. TurnOK(p)'
  BY <1>1, <1>3 DEF TurnOK, Peers, Recording
<1> QED
  BY <1>1, <1>2, <1>4, FilesStill

\* A verb goes on to a step that has not read a file.
LEMMA GoOnTurn ==
    ASSUME Inv, Turns, NEW p \in Procs, pc[p] # "idle",
           NEW l \in {"put", "branch", "readIndex"}, NEW c \in Calls,
           l = "readIndex" /\ c.verb = "fork" => c.state.lineage.forkedFrom = c.point,
           pc' = [pc EXCEPT ![p] = l], call' = [call EXCEPT ![p] = c],
           UNCHANGED <<index, heads, returned>>
    PROVE  Turns'
<1>1. pc'[p] = l /\ call'[p] = c /\ Only(p) /\ TurnOK(p)
  BY DEF Only, Inv, TypeOK, Turns
<1>2. \A q \in Peers(p) : pc'[q] = "idle"
  BY <1>1 DEF Only, Peers, TurnOK
<1>3. TurnOK(p)'
  BY <1>1, <1>2 DEF TurnOK, Peers, Recording, Digests
<1>4. StartsFree(p)
  BY DEF StartsFree
<1> QED
  BY <1>1, <1>3, <1>4, FilesStill

\* record_checkpoint returns: the state in hand is recorded, so a fork that is
\* done may put the head back to the point its last branch names.
LEMMA RecordedTurn ==
    ASSUME Inv, Turns, NEW p \in Procs, pc[p] \in {"readIndex", "writeHeads"},
           Recorded(p), UNCHANGED index,
           call[p].verb # "restore" => call[p].address \in Digests(index[StoreOf[p]])
    PROVE  TurnOK(p)' /\ Only(p) /\ StartsFree(p)
<1> DEFINE s == StoreOf[p]
<1>1. /\ pc \in [Procs -> PCs] /\ call \in [Procs -> Calls] /\ call[p] \in Calls
      /\ returned \in [Procs -> Nat] /\ s \in Stores
      /\ TurnOK(p) /\ StartsFree(p)
  BY PlacementAssumption DEF Inv, TypeOK, Turns, StartsFree
<1>2. CASE call[p].verb # "fork"
  <2> DEFINE d == IF call[p].verb = "checkpoint" THEN call[p].address ELSE None
  <2>1. End(p, d)
    BY <1>2 DEF Recorded
  <2>2. d # None => d \in Digests(index[s])
    OBVIOUS
  <2> HIDE DEF d
  <2>3. pc'[p] = "idle" /\ returned'[p] = d /\ Only(p)
    BY <1>1, <2>1 DEF End, Goto, Only
  <2> QED
    BY <1>1, <2>2, <2>3 DEF TurnOK, Recording, Digests
<1>3. CASE call[p].verb = "fork" /\ call[p].todo # <<>>
  <2>1. /\ pc' = [pc EXCEPT ![p] = "branch"] /\ UNCHANGED <<call, returned>>
    BY <1>3 DEF Recorded, Goto
  <2>2. pc'[p] = "branch" /\ Only(p)
    BY <1>1, <2>1 DEF Only
  <2>3. \A q \in Peers(p) : pc'[q] = "idle"
    BY <1>1, <2>2 DEF Only, Peers, TurnOK
  <2> QED
    BY <1>1, <2>1, <2>2, <2>3 DEF TurnOK, Peers, Recording, Digests
<1>4. CASE call[p].verb = "fork" /\ call[p].todo = <<>>
  <2> DEFINE c == [call[p] EXCEPT !.verb = "restore", !.address = call[p].point]
  <2>1. /\ pc' = [pc EXCEPT ![p] = "readHeads"]
        /\ call' = [call EXCEPT ![p] = c] /\ UNCHANGED returned
    BY <1>4 DEF Recorded, Goto
  <2>2. c.verb = "restore" /\ c.address = call[p].point /\ c.state = call[p].state
    BY <1>1 DEF Calls
  <2>3. Logged(s, call[p].state.agent, call[p].point)
    <3>1. PICK i \in DOMAIN index[s] : index[s][i].digest = call[p].address
      BY <1>4 DEF Digests
    <3>2. /\ documents[call[p].address] = call[p].state
          /\ call[p].state.lineage.forkedFrom = call[p].point
      BY <1>1, <1>4 DEF Inv, ProcOK, AddressOK, Recording, TurnOK
    <3>3. index[s][i] = RefTo(call[p].address, call[p].state, index[s][i].label)
      BY <1>1, <3>1, <3>2 DEF Inv, IndexFaithful, RefOK
    <3>4. /\ index[s][i].agent = call[p].state.agent
          /\ index[s][i].forkedFrom = call[p].point
      BY <3>2, <3>3 DEF RefTo
    <3> QED
      BY <3>4 DEF Logged
  <2> HIDE DEF c
  <2>4. pc'[p] = "readHeads" /\ call'[p] = c /\ Only(p)
    BY <1>1, <2>1 DEF Only
  <2>5. \A q \in Peers(p) : pc'[q] = "idle"
    BY <1>1, <2>4 DEF Only, Peers, TurnOK
  <2> QED
    BY <1>1, <2>1, <2>2, <2>3, <2>4, <2>5 DEF TurnOK, Peers, Recording, Digests, Logged
<1> QED
  BY <1>2, <1>3, <1>4

LEMMA ReadIndexTurn ==
    ASSUME Inv, Turns, NEW p \in Procs, ReadIndex(p)
    PROVE  Turns'
<1>1. pc[p] = "readIndex" /\ UNCHANGED <<index, heads>> /\ TurnOK(p)
  BY DEF ReadIndex, disk, Turns
<1>2. CASE call[p].address \in Digests(index[StoreOf[p]])
  <2>1. Recorded(p)
    BY <1>2 DEF ReadIndex
  <2> QED
    BY <1>1, <1>2, <2>1, RecordedTurn, FilesStill
<1>3. CASE call[p].address \notin Digests(index[StoreOf[p]])
  <2> DEFINE c == [call[p] EXCEPT !.refs = index[StoreOf[p]]]
  <2>1. /\ call' = [call EXCEPT ![p] = c]
        /\ pc' = [pc EXCEPT ![p] = "writeIndex"] /\ UNCHANGED returned
    BY <1>3 DEF ReadIndex, Goto
  <2>2. call[p] \in Calls /\ call \in [Procs -> Calls] /\ pc \in [Procs -> PCs]
    BY DEF Inv, TypeOK
  <2>3. /\ c.refs = index[StoreOf[p]] /\ c.verb = call[p].verb
        /\ c.state = call[p].state /\ c.point = call[p].point
    BY <2>2 DEF Calls
  <2> HIDE DEF c
  <2>4. pc'[p] = "writeIndex" /\ call'[p] = c /\ Only(p) /\ StartsFree(p)
    BY <1>1, <2>1, <2>2 DEF Only, StartsFree
  <2>5. \A q \in Peers(p) : pc'[q] = "idle"
    BY <1>1, <2>4 DEF Only, Peers, TurnOK
  <2>6. TurnOK(p)'
    BY <1>1, <2>1, <2>3, <2>4, <2>5 DEF TurnOK, Peers, Recording, Digests
  <2> QED
    BY <1>1, <2>4, <2>6, FilesStill
<1> QED
  BY <1>2, <1>3

LEMMA ReadHeadsTurn ==
    ASSUME Inv, Turns, NEW p \in Procs, ReadHeads(p)
    PROVE  Turns'
<1> DEFINE c == [call[p] EXCEPT !.tips = heads[StoreOf[p]]]
<1>1. /\ pc[p] = "readHeads" /\ UNCHANGED <<index, heads, returned>> /\ TurnOK(p)
      /\ call' = [call EXCEPT ![p] = c] /\ pc' = [pc EXCEPT ![p] = "writeHeads"]
  BY DEF ReadHeads, Goto, disk, Turns
<1>2. call[p] \in Calls /\ call \in [Procs -> Calls] /\ pc \in [Procs -> PCs]
  BY DEF Inv, TypeOK
<1>3. /\ c.tips = heads[StoreOf[p]] /\ c.verb = call[p].verb
      /\ c.state = call[p].state /\ c.point = call[p].point
      /\ c.address = call[p].address
  BY <1>2 DEF Calls
<1> HIDE DEF c
<1>4. pc'[p] = "writeHeads" /\ call'[p] = c /\ Only(p) /\ StartsFree(p)
  BY <1>1, <1>2 DEF Only, StartsFree
<1>5. \A q \in Peers(p) : pc'[q] = "idle"
  BY <1>1, <1>4 DEF Only, Peers, TurnOK
<1>6. TurnOK(p)'
  BY <1>1, <1>3, <1>4, <1>5 DEF TurnOK, Peers, Recording, Digests, Logged
<1> QED
  BY <1>1, <1>4, <1>6, FilesStill

\* The entry that is appended: the copy read before is still the index.
Appends(p) ==
    LET s == StoreOf[p]
        ref == RefTo(call[p].address, call[p].state, call[p].label)
    IN /\ index' = [index EXCEPT ![s] = Append(index[s], ref)]
       /\ ref \in Refs /\ ref.digest \in stored[s]
       /\ ref.digest \notin Digests(index[s])
       /\ UNCHANGED <<stored, heads>>

LEMMA WriteIndexAppends ==
    ASSUME Inv, Turns, NEW p \in Procs, WriteIndex(p)
    PROVE  Appends(p)
<1>1. call[p].refs = index[StoreOf[p]] /\ pc[p] = "writeIndex" /\ call[p] \in Calls
  BY DEF WriteIndex, Turns, TurnOK, Inv, TypeOK
<1>2. call[p].address \in stored[StoreOf[p]] /\ call[p].address \notin Digests(call[p].refs)
  BY <1>1 DEF Inv, ProcOK, AddressOK, CopiesOK, Holds, Recording
<1>3. /\ RefTo(call[p].address, call[p].state, call[p].label) \in Refs
      /\ RefTo(call[p].address, call[p].state, call[p].label).digest = call[p].address
  BY <1>1 DEF RefTo, Refs, Calls, Documents, Lineages
<1> QED
  BY <1>1, <1>2, <1>3 DEF WriteIndex, Appends

\* An appended entry is the last, and the others keep their place.
LEMMA AppendedDigests ==
    ASSUME NEW refs \in Seq(Refs), NEW r \in Refs
    PROVE  /\ Append(refs, r) \in Seq(Refs)
           /\ DOMAIN refs \subseteq DOMAIN Append(refs, r)
           /\ \A i \in DOMAIN refs : Append(refs, r)[i] = refs[i]
           /\ Len(refs) + 1 \in DOMAIN Append(refs, r)
           /\ Append(refs, r)[Len(refs) + 1] = r
  OBVIOUS

LEMMA WriteIndexTurn ==
    ASSUME Inv, Turns, NEW p \in Procs, WriteIndex(p)
    PROVE  Turns'
<1> DEFINE s == StoreOf[p]
           ref == RefTo(call[p].address, call[p].state, call[p].label)
           c == [call[p] EXCEPT !.refs = <<>>]
<1>1. /\ pc[p] = "writeIndex" /\ TurnOK(p)
      /\ call' = [call EXCEPT ![p] = c] /\ pc' = [pc EXCEPT ![p] = "readHeads"]
      /\ UNCHANGED <<heads, returned>>
  BY DEF WriteIndex, Goto, Turns
<1>2. /\ index' = [index EXCEPT ![s] = Append(index[s], ref)] /\ ref \in Refs
  BY WriteIndexAppends DEF Appends
<1>3. /\ call[p] \in Calls /\ call \in [Procs -> Calls] /\ pc \in [Procs -> PCs]
      /\ s \in Stores /\ index \in [Stores -> Seq(Refs)] /\ index[s] \in Seq(Refs)
      /\ ref.digest = call[p].address
  BY PlacementAssumption DEF Inv, TypeOK, RefTo
<1>4. c.verb = call[p].verb /\ c.state = call[p].state /\ c.address = call[p].address
  BY <1>3 DEF Calls
<1> HIDE DEF c, ref
<1>5. /\ index'[s] = Append(index[s], ref)
      /\ \A r \in Stores \ {s} : index'[r] = index[r]
  BY <1>2, <1>3
<1>6. /\ \A i \in DOMAIN index[s] : i \in DOMAIN index'[s] /\ index'[s][i] = index[s][i]
      /\ ref.digest \in Digests(index'[s])
  <2>1. Len(index[s]) + 1 \in DOMAIN index'[s] /\ index'[s][Len(index[s]) + 1] = ref
    BY <1>2, <1>3, <1>5, AppendedDigests
  <2> QED
    BY <1>2, <1>3, <1>5, <2>1, AppendedDigests DEF Digests
<1>7. IndexKept
  BY <1>5, <1>6 DEF IndexKept, Digests
<1>8. HeadsLogged'
  <2> SUFFICES ASSUME NEW r \in Stores, NEW a \in Agents, heads[r][a] # None
               PROVE  \E i \in DOMAIN index'[r] :
                         /\ index'[r][i].agent = a
                         /\ heads[r][a] \in {index'[r][i].digest, index'[r][i].forkedFrom}
    BY <1>1 DEF HeadsLogged, Logged
  <2>1. PICK i \in DOMAIN index[r] :
           /\ index[r][i].agent = a
           /\ heads[r][a] \in {index[r][i].digest, index[r][i].forkedFrom}
    BY DEF Turns, HeadsLogged, Logged
  <2>2. i \in DOMAIN index'[r] /\ index'[r][i] = index[r][i]
    BY <1>5, <1>6
  <2> QED
    BY <2>1, <2>2
<1>9. pc'[p] = "readHeads" /\ call'[p] = c /\ Only(p) /\ StartsFree(p)
  BY <1>1, <1>3 DEF Only, StartsFree
<1>10. FilesInHand(p)
  BY <1>1, <1>5 DEF FilesInHand
<1>11. TurnOK(p)'
  <2>1. \A q \in Peers(p) : pc'[q] = "idle"
    BY <1>1, <1>9 DEF Only, Peers, TurnOK
  <2>2. call[p].verb # "restore"
    BY <1>1 DEF Inv, ProcOK, AddressOK
  <2>3. call[p].verb = "fork" => call[p].state.lineage.forkedFrom = call[p].point
    BY <1>1 DEF TurnOK, Recording
  <2>4. c.point = call[p].point
    BY <1>3 DEF Calls, c
  <2>5. returned'[p] # None => returned'[p] \in Digests(index'[s])
    BY <1>1, <1>3, <1>7 DEF TurnOK, IndexKept
  <2> QED
    BY <1>3, <1>4, <1>6, <1>9, <2>1, <2>2, <2>3, <2>4, <2>5 DEF TurnOK, Peers, Recording, Digests
<1> QED
  BY <1>7, <1>8, <1>9, <1>10, <1>11, OthersInTurn

\* The head that moves: that of one agent, to a state its entry justifies.
Moves(p) ==
    LET s == StoreOf[p]
        a == call[p].state.agent
    IN /\ pc[p] = "writeHeads" /\ a \in Agents
       /\ heads' = [heads EXCEPT ![s][a] = call[p].address]
       /\ Logged(s, a, call[p].address)
       /\ UNCHANGED <<stored, index>>

LEMMA WriteHeadsMoves ==
    ASSUME Inv, Turns, NEW p \in Procs, WriteHeads(p)
    PROVE  Moves(p)
<1> DEFINE s == StoreOf[p]
           a == call[p].state.agent
<1>1. /\ pc[p] = "writeHeads" /\ call[p].tips = heads[s] /\ call[p] \in Calls
      /\ TurnOK(p) /\ s \in Stores
  BY PlacementAssumption DEF WriteHeads, Turns, TurnOK, Inv, TypeOK
<1>2. a \in Agents
  BY <1>1 DEF Calls, Documents
<1>3. Logged(s, a, call[p].address)
  <2>1. CASE call[p].verb = "restore"
    BY <1>1, <2>1 DEF TurnOK
  <2>2. CASE call[p].verb # "restore"
    <3>1. PICK i \in DOMAIN index[s] : index[s][i].digest = call[p].address
      BY <1>1, <2>2 DEF TurnOK, Digests
    <3>2. documents[call[p].address] = call[p].state
      BY <1>1, <2>2 DEF Inv, ProcOK, AddressOK, Recording
    <3>3. index[s][i] = RefTo(call[p].address, call[p].state, index[s][i].label)
      BY <1>1, <3>1, <3>2 DEF Inv, IndexFaithful, RefOK
    <3>4. index[s][i].agent = a
      BY <3>3 DEF RefTo
    <3> QED
      BY <3>1, <3>4 DEF Logged
  <2> QED
    BY <2>1, <2>2
<1>4. heads' = [heads EXCEPT ![s] = [heads[s] EXCEPT ![a] = call[p].address]]
  BY <1>1 DEF WriteHeads
<1> QED
  BY <1>1, <1>2, <1>3, <1>4 DEF Moves, WriteHeads

LEMMA WriteHeadsTurn ==
    ASSUME Inv, Turns, NEW p \in Procs, WriteHeads(p)
    PROVE  Turns'
<1> DEFINE s == StoreOf[p]
           a == call[p].state.agent
<1>1. /\ pc[p] = "writeHeads" /\ a \in Agents /\ Logged(s, a, call[p].address)
      /\ heads' = [heads EXCEPT ![s][a] = call[p].address]
      /\ UNCHANGED <<stored, index>>
  BY WriteHeadsMoves DEF Moves
<1>2. heads \in [Stores -> [Agents -> Nat]] /\ s \in Stores
  BY PlacementAssumption DEF Inv, TypeOK
<1>3. FilesInHand(p)
  BY <1>1, <1>2 DEF FilesInHand
<1>4. IndexKept
  BY <1>1 DEF IndexKept
<1>5. HeadsLogged'
  <2>1. \A r \in Stores, b \in Agents :
           heads'[r][b] = IF r = s /\ b = a THEN call[p].address ELSE heads[r][b]
    BY <1>1, <1>2
  <2>2. \A r \in Stores, b \in Agents :
           heads'[r][b] # None => Logged(r, b, heads'[r][b])
    BY <1>1, <2>1 DEF Turns, HeadsLogged
  <2> QED
    BY <1>1, <2>2 DEF HeadsLogged, Logged
<1>6. TurnOK(p)' /\ Only(p) /\ StartsFree(p)
  <2>1. Recorded(p)
    BY DEF WriteHeads
  <2>2. call[p].verb # "restore" => call[p].address \in Digests(index[s])
    BY <1>1 DEF Turns, TurnOK
  <2> QED
    BY <1>1, <2>1, <2>2, RecordedTurn
<1> QED
  BY <1>3, <1>4, <1>5, <1>6, OthersInTurn

-----------------------------------------------------------------------------
(* The effect of a step on the files *)

\* An object is added.
Puts(p) ==
    /\ stored' = [stored EXCEPT ![StoreOf[p]] = @ \cup {Digest(call'[p].state)}]
    /\ UNCHANGED <<index, heads>>

Silent == UNCHANGED <<stored, index, heads>>

LEMMA BeginCheckpointTurn ==
    ASSUME Inv, Turns, TakeTurns, NEW p \in Procs, NEW name \in CheckpointNames,
           BeginCheckpoint(p, name)
    PROVE  Turns' /\ Silent
<1>1. PICK l \in {"find", "put"} : pc' = [pc EXCEPT ![p] = l]
  BY DEF BeginCheckpoint, Goto
<1>2. PICK c : call' = [call EXCEPT ![p] = c]
  BY DEF BeginCheckpoint
<1>3. Inv' /\ c \in Calls
  <2>1. Inv'
    BY BeginCheckpointInv
  <2>2. call'[p] = c /\ call'[p] \in Calls
    BY <1>2, <2>1 DEF Inv, TypeOK
  <2> QED
    BY <2>1, <2>2
<1>4. Begin(p) /\ UNCHANGED <<stored, index, heads>>
  BY DEF BeginCheckpoint, disk
<1> QED
  BY <1>1, <1>2, <1>3, <1>4, BeginTurn DEF Silent

LEMMA BeginForkTurn ==
    ASSUME Inv, Inv', Turns, TakeTurns, NEW p \in Procs, NEW x,
           NEW labels \in LabelLists, BeginFork(p, x, labels)
    PROVE  Turns' /\ Puts(p)
<1> DEFINE c == [NoCall EXCEPT !.verb = "fork", !.state = x,
                               !.point = Digest(x), !.todo = labels]
<1>1. /\ Begin(p) /\ UNCHANGED <<index, heads>>
      /\ pc' = [pc EXCEPT ![p] = "branch"] /\ call' = [call EXCEPT ![p] = c]
      /\ stored' = [stored EXCEPT ![StoreOf[p]] = @ \cup {Digest(x)}]
  BY DEF BeginFork, Goto, PutDocument
<1>2. c.state = x
  BY DEF NoCall
<1> HIDE DEF c
<1>3. call'[p] = c /\ c \in Calls
  BY <1>1 DEF Inv, TypeOK
<1> QED
  BY <1>1, <1>2, <1>3, BeginTurn DEF Puts

LEMMA BeginRecordTurn ==
    ASSUME Inv, Inv', Turns, TakeTurns, NEW p \in Procs, NEW x, NEW name,
           BeginRecord(p, x, name)
    PROVE  Turns' /\ Puts(p)
<1> DEFINE c == [NoCall EXCEPT !.verb = "record", !.state = x,
                               !.label = Plain(name), !.address = Digest(x)]
<1>1. /\ Begin(p) /\ UNCHANGED <<index, heads>>
      /\ pc' = [pc EXCEPT ![p] = "readIndex"] /\ call' = [call EXCEPT ![p] = c]
      /\ stored' = [stored EXCEPT ![StoreOf[p]] = @ \cup {Digest(x)}]
  BY DEF BeginRecord, Goto, PutDocument
<1>2. c.state = x /\ c.verb = "record"
  BY DEF NoCall
<1> HIDE DEF c
<1>3. call'[p] = c /\ c \in Calls
  BY <1>1 DEF Inv, TypeOK
<1> QED
  BY <1>1, <1>2, <1>3, BeginTurn DEF Puts

LEMMA PutTurn ==
    ASSUME Inv, Inv', Turns, NEW p \in Procs, Put(p)
    PROVE  Turns' /\ Puts(p)
<1> DEFINE c == [call[p] EXCEPT !.address = Digest(call[p].state)]
<1>1. /\ pc[p] = "put" /\ UNCHANGED <<index, heads, returned>>
      /\ pc' = [pc EXCEPT ![p] = "readIndex"] /\ call' = [call EXCEPT ![p] = c]
      /\ stored' = [stored EXCEPT ![StoreOf[p]] = @ \cup {Digest(call[p].state)}]
  BY DEF Put, Goto, PutDocument
<1>2. c.state = call[p].state /\ c.verb = "checkpoint"
  <2>1. call[p].verb = "checkpoint" /\ call[p] \in Calls
    BY <1>1 DEF Inv, TypeOK, ProcOK, AddressOK
  <2> QED
    BY <2>1 DEF Calls
<1> HIDE DEF c
<1>3. call'[p] = c /\ c \in Calls
  BY <1>1 DEF Inv, TypeOK
<1> QED
  BY <1>1, <1>2, <1>3, GoOnTurn DEF Puts

LEMMA PutBranchTurn ==
    ASSUME Inv, Inv', Turns, NEW p \in Procs, NEW t \in Times, PutBranch(p, t)
    PROVE  Turns' /\ Puts(p)
<1> DEFINE name == Head(call[p].todo)
           x == Branch(call[p].point, name, t)
           c == [call[p] EXCEPT !.state = x,
                                !.label = [kind |-> "fork", name |-> name],
                                !.address = Digest(x), !.todo = Tail(call[p].todo)]
<1>1. /\ pc[p] = "branch" /\ UNCHANGED <<index, heads, returned>>
      /\ pc' = [pc EXCEPT ![p] = "readIndex"] /\ call' = [call EXCEPT ![p] = c]
      /\ stored' = [stored EXCEPT ![StoreOf[p]] = @ \cup {Digest(x)}]
  BY DEF PutBranch, Goto, PutDocument
<1>2. x.lineage.forkedFrom = call[p].point
  <2>1. call[p].point \in DOMAIN documents /\ documents \in Seq(Documents)
    BY <1>1 DEF Inv, TypeOK, ProcOK, ForkOK, Holds
  <2>2. documents[call[p].point] \in Documents
    BY <2>1
  <2> QED
    BY <2>2 DEF Branch, WithEvent, Documents
<1>3. c.state = x /\ c.point = call[p].point
  <2> HIDE DEF x
  <2>1. call[p] \in Calls
    BY DEF Inv, TypeOK
  <2> QED
    BY <2>1 DEF Calls
<1> HIDE DEF c, x
<1>4. call'[p] = c /\ c \in Calls
  BY <1>1 DEF Inv, TypeOK
<1> QED
  BY <1>1, <1>2, <1>3, <1>4, GoOnTurn DEF Puts

LEMMA FindHeadTurn ==
    ASSUME Inv, Turns, NEW p \in Procs, FindHead(p)
    PROVE  Turns' /\ Silent
<1>1. pc[p] = "find" /\ UNCHANGED <<stored, index, heads>>
  BY DEF FindHead, disk
<1>2. CASE call[p].address \in Digests(index[StoreOf[p]])
  <2>1. End(p, call[p].address)
    BY <1>2 DEF FindHead
  <2> QED
    BY <1>1, <1>2, <2>1, EndTurn DEF Silent
<1>3. CASE call[p].address \notin Digests(index[StoreOf[p]])
  <2>1. pc' = [pc EXCEPT ![p] = "put"] /\ UNCHANGED <<call, returned>>
    BY <1>3 DEF FindHead, Goto
  <2>2. call' = [call EXCEPT ![p] = call[p]] /\ call[p] \in Calls
    BY <2>1 DEF Inv, TypeOK
  <2> QED
    BY <1>1, <2>1, <2>2, GoOnTurn DEF Silent
<1> QED
  BY <1>2, <1>3

\* A step outside every verb, and a fault.
LEMMA StepTurn ==
    ASSUME Inv, Turns, NEW p \in Procs, NEW t \in Times,
           Step(p, t) \/ \E d \in DOMAIN documents : Resume(p, d, t)
    PROVE  Turns' /\ Silent
<1>1. /\ pc[p] = "idle" /\ UNCHANGED <<stored, index, heads, pc, call>>
      /\ returned' = [returned EXCEPT ![p] = None]
  BY DEF Step, Resume, Begin, disk
<1>2. pc'[p] = "idle" /\ returned'[p] = None /\ Only(p)
  BY <1>1 DEF Only, Inv, TypeOK
<1> QED
  BY <1>1, <1>2, IdleTurn DEF Silent

LEMMA FaultTurn ==
    ASSUME Inv, Turns, NEW p \in Procs, Fail(p) \/ \E t \in Times : Crash(p, t)
    PROVE  Turns' /\ Silent
<1>1. End(p, None) /\ UNCHANGED <<stored, index, heads>>
  BY DEF Fail, Crash, disk
<1> QED
  BY <1>1, EndTurn DEF Silent

\* What one step of a program does to the files of its store: nothing, or one
\* of the three writes; and the turns stay kept.
Effect(p) == Silent \/ Puts(p) \/ Appends(p) \/ Moves(p)

LEMMA StepEffect ==
    ASSUME Inv, Turns, TakeTurns, [Next]_vars
    PROVE  Turns' /\ (Silent \/ \E p \in Procs : Effect(p))
<1>0. Inv'
  BY NextInv
<1>1. ASSUME NEW p \in Procs, Continue(p) PROVE Turns' /\ Effect(p)
  <2>1. ASSUME FindHead(p) PROVE Turns' /\ Effect(p)
    BY <2>1, FindHeadTurn DEF Effect
  <2>2. ASSUME Put(p) PROVE Turns' /\ Effect(p)
    BY <1>0, <2>2, PutTurn DEF Effect
  <2>3. ASSUME NEW t \in Times, PutBranch(p, t) PROVE Turns' /\ Effect(p)
    BY <1>0, <2>3, PutBranchTurn DEF Effect
  <2>4. ASSUME ReadIndex(p) PROVE Turns' /\ Effect(p)
    BY <2>4, ReadIndexTurn DEF Effect, Silent, ReadIndex, disk
  <2>5. ASSUME WriteIndex(p) PROVE Turns' /\ Effect(p)
    BY <2>5, WriteIndexTurn, WriteIndexAppends DEF Effect
  <2>6. ASSUME ReadHeads(p) PROVE Turns' /\ Effect(p)
    BY <2>6, ReadHeadsTurn DEF Effect, Silent, ReadHeads, disk
  <2>7. ASSUME WriteHeads(p) PROVE Turns' /\ Effect(p)
    BY <2>7, WriteHeadsTurn, WriteHeadsMoves DEF Effect
  <2> QED
    BY <1>1, <2>1, <2>2, <2>3, <2>4, <2>5, <2>6, <2>7 DEF Continue
<1>2. ASSUME NEW p \in Procs, Invoke(p) PROVE Turns' /\ Effect(p)
  <2>1. ASSUME NEW t \in Times, Step(p, t) PROVE Turns' /\ Effect(p)
    BY <2>1, StepTurn DEF Effect
  <2>2. ASSUME NEW d \in DOMAIN documents, NEW t \in Times, Resume(p, d, t)
        PROVE  Turns' /\ Effect(p)
    BY <2>2, StepTurn DEF Effect
  <2>3. ASSUME NEW name \in CheckpointNames, BeginCheckpoint(p, name)
        PROVE  Turns' /\ Effect(p)
    BY <2>3, BeginCheckpointTurn DEF Effect
  <2>4. ASSUME NEW x, NEW labels \in LabelLists, BeginFork(p, x, labels)
        PROVE  Turns' /\ Effect(p)
    BY <1>0, <2>4, BeginForkTurn DEF Effect
  <2>5. ASSUME NEW x, NEW name, BeginRecord(p, x, name)
        PROVE  Turns' /\ Effect(p)
    BY <1>0, <2>5, BeginRecordTurn DEF Effect
  <2> QED
    BY <1>2, <2>1, <2>2, <2>3, <2>4, <2>5 DEF Invoke, Import, Migrate
<1>3. ASSUME NEW p \in Procs, Fail(p) \/ \E t \in Times : Crash(p, t)
      PROVE  Turns' /\ Effect(p)
  BY <1>3, FaultTurn DEF Effect
<1>4. CASE UNCHANGED vars
  BY <1>4 DEF vars, Silent, Turns, TurnOK, HeadsLogged, Logged, Peers, Recording, Digests
<1> QED
  BY <1>1, <1>2, <1>3, <1>4 DEF Next

-----------------------------------------------------------------------------
(* The theorems about turns *)

LEMMA InitTurns == Init => Turns
  BY PlacementAssumption DEF Init, Turns, TurnOK, HeadsLogged, NoCall, Recording

\* The inductive invariant of a store whose writers take turns.
THEOREM TurnsHold ==
    ASSUME TakeTurns
    PROVE  Spec => [](Inv /\ Turns)
<1>1. Init => Inv /\ Turns
  BY InitInv, InitTurns
<1>2. Inv /\ Turns /\ [Next]_vars => (Inv /\ Turns)'
  BY NextInv, StepEffect
<1> QED
  BY <1>1, <1>2, PTL DEF Spec

\* CheckpointIndexed: a state a checkpoint has returned is in the index.
THEOREM CheckpointsAreIndexed ==
    ASSUME TakeTurns
    PROVE  Spec => []CheckpointIndexed
<1>1. Inv /\ Turns => CheckpointIndexed
  BY DEF Turns, TurnOK, CheckpointIndexed
<1> QED
  BY <1>1, TurnsHold, PTL

\* HeadRecorded: whatever cut a verb short, a head is a recorded state or the
\* fork point of a recorded branch.
THEOREM HeadsAreRecorded ==
    ASSUME TakeTurns
    PROVE  Spec => []HeadRecorded
<1>1. Inv /\ Turns => HeadRecorded
  BY DEF Turns, HeadsLogged, Logged, HeadRecorded
<1> QED
  BY <1>1, TurnsHold, PTL

\* What a recorded entry is added to keeps its entries in place.
LEMMA AppendsKeep ==
    ASSUME Inv, NEW p \in Procs, Appends(p), NEW s \in Stores
    PROVE  /\ Len(index[s]) <= Len(index'[s])
           /\ SubSeq(index'[s], 1, Len(index[s])) = index[s]
<1> DEFINE ref == RefTo(call[p].address, call[p].state, call[p].label)
<1>1. /\ StoreOf[p] \in Stores /\ index \in [Stores -> Seq(Refs)]
      /\ index[s] \in Seq(Refs) /\ ref \in Refs
      /\ index' = [index EXCEPT ![StoreOf[p]] = Append(index[StoreOf[p]], ref)]
  BY PlacementAssumption DEF Inv, TypeOK, Appends
<1> HIDE DEF ref
<1>2. CASE s # StoreOf[p]
  <2>1. index'[s] = index[s]
    BY <1>1, <1>2
  <2> QED
    BY <1>1, <2>1, SubSeqFull, LenProperties
<1>3. CASE s = StoreOf[p]
  <2>1. index'[s] = Append(index[s], ref)
    BY <1>1, <1>3
  <2>2. /\ Len(index[s]) \in Nat /\ Append(index[s], ref) \in Seq(Refs)
        /\ Len(Append(index[s], ref)) = Len(index[s]) + 1
        /\ \A i \in 1 .. Len(index[s]) : /\ Append(index[s], ref)[i] = index[s][i]
                                        /\ index[s][i] \in Refs
    BY <1>1, AppendProperties, LenProperties, ElementOfSeq
  <2>3. /\ SubSeq(Append(index[s], ref), 1, Len(index[s])) \in Seq(Refs)
        /\ Len(SubSeq(Append(index[s], ref), 1, Len(index[s]))) = Len(index[s])
        /\ \A i \in 1 .. Len(index[s]) :
              SubSeq(Append(index[s], ref), 1, Len(index[s]))[i] = Append(index[s], ref)[i]
    BY <2>2, SubSeqProperties
  <2>4. SubSeq(Append(index[s], ref), 1, Len(index[s])) = index[s]
    BY <1>1, <2>2, <2>3, SeqEqual
  <2> QED
    BY <2>1, <2>2, <2>4
<1> QED
  BY <1>2, <1>3

\* IndexAppendOnly: no entry is ever dropped or changed by a later verb.
THEOREM IndexOnlyGrows ==
    ASSUME TakeTurns
    PROVE  Spec => IndexAppendOnly
<1> DEFINE Kept == \A s \in Stores :
                      /\ Len(index[s]) <= Len(index'[s])
                      /\ SubSeq(index'[s], 1, Len(index[s])) = index[s]
<1>1. Inv /\ Turns /\ [Next]_vars => [Kept]_vars
  <2> SUFFICES ASSUME Inv, Turns, [Next]_vars PROVE Kept
    OBVIOUS
  <2>1. CASE UNCHANGED index
    <3>1. \A s \in Stores : index[s] \in Seq(Refs)
      BY DEF Inv, TypeOK
    <3> QED
      BY <2>1, <3>1, SubSeqFull, LenProperties
  <2>2. ASSUME NEW p \in Procs, Appends(p) PROVE Kept
    BY <2>2, AppendsKeep
  <2> QED
    BY <2>1, <2>2, StepEffect DEF Effect, Silent, Puts, Moves
<1> QED
  BY <1>1, TurnsHold, PTL DEF Spec, IndexAppendOnly

\* HeadMovesForItsAgent: whoever else is in the store, only the head of the
\* agent being recorded moves, and to the state being recorded.
THEOREM HeadsMoveAlone ==
    ASSUME TakeTurns
    PROVE  Spec => HeadMovesForItsAgent
<1> DEFINE Mine == \A s \in Stores, a \in Agents :
                      heads'[s][a] # heads[s][a] =>
                         \E p \in Procs : /\ pc[p] = "writeHeads"
                                          /\ StoreOf[p] = s
                                          /\ call[p].state.agent = a
                                          /\ heads'[s][a] = call[p].address
<1>1. Inv /\ Turns /\ [Next]_vars => [Mine]_vars
  <2> SUFFICES ASSUME Inv, Turns, [Next]_vars PROVE Mine
    OBVIOUS
  <2>1. CASE UNCHANGED heads
    BY <2>1
  <2>2. ASSUME NEW p \in Procs, Moves(p) PROVE Mine
    <3>1. heads \in [Stores -> [Agents -> Nat]] /\ StoreOf[p] \in Stores
      BY PlacementAssumption DEF Inv, TypeOK
    <3> QED
      BY <2>2, <3>1 DEF Moves
  <2> QED
    BY <2>1, <2>2, StepEffect DEF Effect, Silent, Puts, Appends
<1> QED
  BY <1>1, TurnsHold, PTL DEF Spec, HeadMovesForItsAgent

-----------------------------------------------------------------------------
(* The refinement *)

Entry(r) == [digest |-> r.digest, agent |-> r.agent, forkedFrom |-> r.forkedFrom]
Log(refs) == [i \in DOMAIN refs |-> Entry(refs[i])]
Entries == [digest : Nat, agent : Agents, forkedFrom : Nat]

LEMMA LogAppend ==
    ASSUME NEW refs \in Seq(Refs), NEW r \in Refs
    PROVE  /\ Log(Append(refs, r)) = Append(Log(refs), Entry(r))
           /\ Len(refs) + 1 \in DOMAIN Log(Append(refs, r))
           /\ Log(Append(refs, r))[Len(refs) + 1] = Entry(r)
<1>1. /\ Len(refs) \in Nat /\ DOMAIN refs = 1 .. Len(refs)
      /\ \A i \in 1 .. Len(refs) : Entry(refs[i]) \in Entries
      /\ Entry(r) \in Entries
  <2>1. \A x \in Refs : Entry(x) \in Entries
    BY DEF Entry, Entries, Refs
  <2>2. \A i \in 1 .. Len(refs) : refs[i] \in Refs
    BY ElementOfSeq
  <2> QED
    BY <2>1, <2>2, LenProperties
<1>2. /\ Log(refs) \in Seq(Entries) /\ Len(Log(refs)) = Len(refs)
      /\ \A i \in 1 .. Len(refs) : Log(refs)[i] = Entry(refs[i])
  BY <1>1 DEF Log
<1>3. /\ Append(refs, r) \in Seq(Refs) /\ Len(Append(refs, r)) = Len(refs) + 1
      /\ DOMAIN Append(refs, r) = 1 .. (Len(refs) + 1)
      /\ \A i \in 1 .. Len(refs) : Append(refs, r)[i] = refs[i]
      /\ Append(refs, r)[Len(refs) + 1] = r
  BY <1>1, AppendProperties, LenProperties
<1>4. /\ DOMAIN Log(Append(refs, r)) = 1 .. (Len(refs) + 1)
      /\ \A i \in 1 .. Len(refs) : Log(Append(refs, r))[i] = Entry(refs[i])
      /\ Log(Append(refs, r))[Len(refs) + 1] = Entry(r)
  BY <1>1, <1>3 DEF Log
<1>5. /\ Log(Append(refs, r)) \in Seq(Entries)
      /\ Len(Log(Append(refs, r))) = Len(refs) + 1
  <2>1. Log(Append(refs, r)) = [i \in 1 .. (Len(refs) + 1) |-> Entry(Append(refs, r)[i])]
    BY <1>3 DEF Log
  <2>2. \A i \in 1 .. (Len(refs) + 1) : Entry(Append(refs, r)[i]) \in Entries
    BY <1>1, <1>3
  <2> QED
    BY <1>1, <2>1, <2>2
<1>6. /\ Append(Log(refs), Entry(r)) \in Seq(Entries)
      /\ Len(Append(Log(refs), Entry(r))) = Len(refs) + 1
      /\ \A i \in 1 .. Len(refs) : Append(Log(refs), Entry(r))[i] = Log(refs)[i]
      /\ Append(Log(refs), Entry(r))[Len(refs) + 1] = Entry(r)
  BY <1>1, <1>2, AppendProperties
<1>7. \A i \in 1 .. (Len(refs) + 1) :
         Log(Append(refs, r))[i] = Append(Log(refs), Entry(r))[i]
  <2> TAKE i \in 1 .. (Len(refs) + 1)
  <2>1. CASE i \in 1 .. Len(refs)
    <3>1. Log(Append(refs, r))[i] = Entry(refs[i])
      BY <1>4, <2>1
    <3>2. Append(Log(refs), Entry(r))[i] = Entry(refs[i])
      BY <1>2, <1>6, <2>1
    <3> QED
      BY <3>1, <3>2
  <2>2. CASE i = Len(refs) + 1
    BY <1>4, <1>6, <2>2
  <2>3. Len(refs) \in Nat
    BY <1>1
  <2>4. i \in 1 .. Len(refs) \/ i = Len(refs) + 1
    BY <2>3
  <2> QED
    BY <2>1, <2>2, <2>4
<1>8. Log(Append(refs, r)) = Append(Log(refs), Entry(r))
  BY <1>5, <1>6, <1>7, SeqEqual
<1> QED
  BY <1>1, <1>4, <1>8

LogOf == [s \in Stores |-> [i \in DOMAIN index[s] |->
             [digest |-> index[s][i].digest, agent |-> index[s][i].agent,
              forkedFrom |-> index[s][i].forkedFrom]]]

LEMMA LogOfIs == \A s \in Stores : LogOf[s] = Log(index[s])
  BY DEF LogOf, Log, Entry

\* An object written is an object stored.
LEMMA PutsStores ==
    ASSUME Inv, NEW p \in Procs, Puts(p)
    PROVE  Ledger!Next
<1>1. StoreOf[p] \in Stores /\ stored \in [Stores -> SUBSET Nat]
  BY PlacementAssumption DEF Inv, TypeOK
<1> DEFINE d == Digest(call'[p].state)
<1>2. /\ stored' = [stored EXCEPT ![StoreOf[p]] = @ \cup {d}]
      /\ UNCHANGED <<index, heads>>
  BY DEF Puts
<1> HIDE DEF d
<1>3. d \in stored'[StoreOf[p]]
  BY <1>1, <1>2
<1>4. Ledger!Store(StoreOf[p], d)
  BY <1>2 DEF Ledger!Store
<1> QED
  BY <1>1, <1>3, <1>4 DEF Ledger!Next

\* An entry appended to the index is an entry recorded in the log.
LEMMA AppendsRecords ==
    ASSUME Inv, NEW p \in Procs, Appends(p)
    PROVE  Ledger!Next
<1> DEFINE s == StoreOf[p]
           ref == RefTo(call[p].address, call[p].state, call[p].label)
           n == Len(index[s]) + 1
<1>1. /\ s \in Stores /\ index \in [Stores -> Seq(Refs)] /\ index[s] \in Seq(Refs)
      /\ ref \in Refs /\ ref.digest \in stored[s] /\ ref.digest \notin Digests(index[s])
      /\ index' = [index EXCEPT ![s] = Append(index[s], ref)]
      /\ UNCHANGED <<stored, heads>>
  BY PlacementAssumption DEF Inv, TypeOK, Appends
<1> HIDE DEF ref
<1>2. /\ index'[s] = Append(index[s], ref)
      /\ \A r \in Stores \ {s} : index'[r] = index[r]
  BY <1>1
<1>3. /\ n \in DOMAIN LogOf'[s] /\ LogOf'[s][n] = Entry(ref)
      /\ LogOf'[s] = Append(LogOf[s], Entry(ref))
  <2>1. LogOf'[s] = Log(index'[s]) /\ LogOf[s] = Log(index[s])
    BY <1>1 DEF LogOf, Log, Entry
  <2> QED
    BY <1>1, <1>2, <2>1, LogAppend
<1>4. \A r \in Stores \ {s} : LogOf'[r] = LogOf[r]
  BY <1>2 DEF LogOf
<1>5. LogOf' = [LogOf EXCEPT ![s] = Append(LogOf[s], LogOf'[s][n])]
  BY <1>1, <1>3, <1>4 DEF LogOf
<1>6. LogOf'[s][n].digest = ref.digest
  BY <1>3 DEF Entry
<1>7. \A i \in DOMAIN LogOf[s] : LogOf[s][i].digest # ref.digest
  BY <1>1 DEF LogOf, Digests
<1> DEFINE e == LogOf'[s][n]
<1>8. Ledger!Record(s, e)
  <2>1. e.digest \in stored[s]
    BY <1>1, <1>6
  <2>2. \A i \in DOMAIN LogOf[s] : LogOf[s][i].digest # e.digest
    BY <1>6, <1>7
  <2>3. LogOf' = [LogOf EXCEPT ![s] = Append(LogOf[s], e)]
    BY <1>5
  <2> HIDE DEF e, s
  <2> QED
    BY <1>1, <2>1, <2>2, <2>3 DEF Ledger!Record, LogOf
<1>9. \E i \in DOMAIN LogOf'[s] : Ledger!Record(s, LogOf'[s][i])
  BY <1>3, <1>8 DEF Ledger!Record
<1> HIDE DEF e, s, n
<1> QED
  BY <1>1, <1>9 DEF Ledger!Next, LogOf

\* A head replaced is a tip moved to what an entry justifies.
LEMMA MovesTip ==
    ASSUME Inv, NEW p \in Procs, Moves(p)
    PROVE  Ledger!Next
<1> DEFINE s == StoreOf[p]
           a == call[p].state.agent
           d == call[p].address
<1>1. /\ s \in Stores /\ a \in Agents
      /\ heads' = [heads EXCEPT ![s][a] = d]
      /\ UNCHANGED <<stored, index>>
  BY PlacementAssumption DEF Moves
<1>2. PICK i \in DOMAIN index[s] :
         /\ index[s][i].agent = a
         /\ d \in {index[s][i].digest, index[s][i].forkedFrom}
  BY DEF Moves, Logged
<1> HIDE DEF a, d, s
<1>3. /\ i \in DOMAIN LogOf[s] /\ LogOf[s][i].agent = a
      /\ d \in {LogOf[s][i].digest, LogOf[s][i].forkedFrom}
  BY <1>1, <1>2 DEF LogOf
<1>4. Ledger!Move(s, a)
  BY <1>1, <1>3 DEF Ledger!Move, LogOf
<1> QED
  BY <1>1, <1>4 DEF Ledger!Next

\* ImplementsLedger: with one writer at a time, every verb of every program,
\* whole or cut short by a failed write or a crash, is a sequence of steps of
\* the ledger.
THEOREM StoreImplementsLedger ==
    ASSUME TakeTurns
    PROVE  Spec => ImplementsLedger
<1>1. Init => Ledger!Init
  BY DEF Init, Ledger!Init, None
<1>2. Inv /\ Turns /\ [Next]_vars => [Ledger!Next]_(Ledger!ledger)
  <2> SUFFICES ASSUME Inv, Turns, [Next]_vars
               PROVE  Ledger!Next \/ UNCHANGED Ledger!ledger
    OBVIOUS
  <2>1. CASE Silent
    BY <2>1 DEF Silent, Ledger!ledger
  <2>2. ASSUME NEW p \in Procs, Effect(p), ~Silent PROVE Ledger!Next
    BY <2>2, PutsStores, AppendsRecords, MovesTip DEF Effect
  <2> QED
    BY <2>1, <2>2, StepEffect
<1> QED
  BY <1>1, <1>2, TurnsHold, PTL DEF Spec, ImplementsLedger, Ledger!Spec

-----------------------------------------------------------------------------
(* Parents, whoever writes *)

\* Whatever has been hashed is an object of some store: put_state hashes what
\* it stores.
HashedStored == \A d \in DOMAIN documents : \E s \in Stores : d \in stored[s]

LEMMA HashedStep == Inv /\ HashedStored /\ [Next]_vars => HashedStored'
<1> SUFFICES ASSUME Inv, HashedStored, [Next]_vars PROVE HashedStored'
  OBVIOUS
<1>1. CASE UNCHANGED <<documents, stored>>
  BY <1>1 DEF HashedStored
<1>2. ASSUME NEW p \in Procs, NEW x \in Documents, PutDocument(p, x) PROVE HashedStored'
  <2>1. /\ Grows /\ Digest(x) \in stored'[StoreOf[p]] /\ StoreOf[p] \in Stores
        /\ DOMAIN documents' \subseteq DOMAIN documents \cup {Digest(x)}
    BY <1>2, PutGrows, PlacementAssumption DEF Inv
  <2> QED
    BY <2>1 DEF HashedStored, Grows
<1>3. ASSUME NEW p \in Procs, Continue(p) PROVE HashedStored'
  <2>1. CASE Put(p)
    <3>1. call[p].state \in Documents
      BY DEF Inv, TypeOK, Calls
    <3> QED
      BY <1>2, <2>1, <3>1 DEF Put
  <2>2. ASSUME NEW t \in Times, PutBranch(p, t) PROVE HashedStored'
    <3>1. /\ call[p].point \in DOMAIN documents /\ call[p].todo # <<>>
          /\ call[p].todo \in Seq(Names)
      BY <2>2 DEF PutBranch, Inv, TypeOK, Calls, ProcOK, ForkOK, Holds
    <3>2. Head(call[p].todo) \in Names
      BY <3>1
    <3>3. Branch(call[p].point, Head(call[p].todo), t) \in Documents
      BY <3>1, <3>2, BranchType DEF Inv, TypeOK
    <3> QED
      BY <1>2, <2>2, <3>3 DEF PutBranch
  <2> QED
    BY <1>1, <1>3, <2>1, <2>2
       DEF Continue, FindHead, ReadIndex, WriteIndex, ReadHeads, WriteHeads, disk
<1>4. ASSUME NEW p \in Procs, Invoke(p) PROVE HashedStored'
  <2>1. \A d \in DOMAIN documents : documents[d] \in Documents
    BY DEF Inv, TypeOK
  <2>2. agent[p] \in Documents
    BY DEF Inv, TypeOK
  <2>3. \A d \in stored[StoreOf[p]] : d \in DOMAIN documents
    BY PlacementAssumption DEF Inv, StoredKnown
  <2>4. ASSUME NEW labels \in LabelLists, NEW x \in Documents, BeginFork(p, x, labels)
        PROVE  HashedStored'
    BY <1>2, <2>4 DEF BeginFork
  <2>5. ASSUME NEW x \in Documents, NEW name, BeginRecord(p, x, name)
        PROVE  HashedStored'
    BY <1>2, <2>5 DEF BeginRecord
  <2>6. \A d \in DOMAIN documents, t \in Times :
           WithEvent(documents[d], Event("migrated", NoName, t)) \in Documents
    BY <2>1, WithEventType DEF EventTypes
  <2> QED
    BY <1>1, <1>4, <2>1, <2>2, <2>3, <2>4, <2>5, <2>6
       DEF Invoke, Import, Migrate, Step, Resume, BeginCheckpoint, disk
<1> QED
  BY <1>1, <1>3, <1>4 DEF Next, Fail, Crash, disk, vars

\* ParentStored: whoever writes, whatever is imported and wherever a verb was
\* cut short, the parent of a stored state is in some store.
THEOREM ParentsAreStored == Spec => []ParentStored
<1>1. Init => HashedStored
  BY DEF Init, HashedStored
<1>2. Inv /\ HashedStored => ParentStored
  <2> SUFFICES ASSUME Inv, HashedStored, NEW s \in Stores, NEW d \in stored[s],
                      documents[d].lineage.parent # None
               PROVE  \E other \in Stores : documents[d].lineage.parent \in stored[other]
    BY DEF ParentStored
  <2>1. d \in DOMAIN documents /\ documents \in Seq(Documents)
    BY DEF Inv, StoredKnown, TypeOK
  <2>2. documents[d].lineage.parent \in 1 .. (d - 1)
    BY <2>1 DEF Inv, LineageSound, LineageOf
  <2>3. documents[d].lineage.parent \in DOMAIN documents
    BY <2>1, <2>2
  <2> QED
    BY <2>3 DEF HashedStored
<1> QED
  BY <1>1, <1>2, HashedStep, InvHolds, PTL DEF Spec

=============================================================================
