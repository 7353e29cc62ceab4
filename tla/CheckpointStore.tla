--------------------------- MODULE CheckpointStore ---------------------------
(***************************************************************************)
(* The content-addressed checkpoint store (continuum/store.py) and the     *)
(* verbs that write to it (continuum/runtime.py and the import, migrate    *)
(* and resume commands of continuum/cli.py).                               *)
(*                                                                         *)
(* A process is one run of a program that holds an agent and works on one  *)
(* store.  A verb is not atomic: every file it reads or replaces is a step *)
(* of its own, so a crash, a failed write or another writer may come       *)
(* between any two of them.                                                *)
(*                                                                         *)
(* A content address is the position of a document in `documents', the     *)
(* table of every state document ever hashed: equal documents have equal   *)
(* addresses and different documents different ones.                       *)
(***************************************************************************)
EXTENDS Naturals, Sequences, Functions

CONSTANTS
    Procs,          \* programs that hold an agent and write to a store
    Agents,         \* values of identity.agent_id
    Stores,         \* .continuum directories
    Names,          \* labels given to forks and checkpoints
    NoName,         \* the empty label
    Times,          \* second-precision timestamps an event may carry
    StoreOf,        \* the store a process works on
    AgentOf,        \* the agent_id a process creates its agent with
    CheckpointNames,\* labels a checkpoint may be given
    LabelLists,     \* label sequences a fork may be asked for
    TakeTurns,      \* TRUE: one writer per store at a time (spec/store.md 5)
    Faults,         \* which of "fail" and "crash" may happen
    MaxEvents,      \* bound: events in the history of an agent
    MaxVerbs        \* bound: verbs begun in a behaviour

ASSUME PlacementAssumption ==
    /\ StoreOf \in [Procs -> Stores]
    /\ AgentOf \in [Procs -> Agents]

ASSUME LabelAssumption ==
    /\ NoName \notin Names
    /\ CheckpointNames \subseteq Names \cup {NoName}
    /\ LabelLists \subseteq Seq(Names)

ASSUME SettingAssumption ==
    /\ TakeTurns \in BOOLEAN
    /\ Faults \subseteq {"fail", "crash"}
    /\ MaxEvents \in Nat
    /\ MaxVerbs \in Nat

VARIABLES
    documents,      \* every state document ever hashed, in order of its address
    stored,         \* objects/: the addresses present in each store
    index,          \* refs/checkpoints.json of each store
    heads,          \* refs/heads.json of each store
    pc,             \* the next file operation of each process
    agent,          \* the state an adapter would export
    call,           \* the local variables of the verb in progress
    returned,       \* address returned by a checkpoint that has just completed
    verbs           \* verbs begun so far

vars == <<documents, stored, index, heads, pc, agent, call, returned, verbs>>
disk == <<documents, stored, index, heads>>

-----------------------------------------------------------------------------
(* Documents *)

None == 0

EventTypes == {"created", "step", "forked", "resumed", "migrated"}
Events == [type : EventTypes, name : Names \cup {NoName}, ts : Times]

Lineages == [parent : Nat, root : Nat, forkedFrom : Nat,
             forkLabel : Names \cup {NoName}, generation : Nat]

\* The event history stands for everything a document holds but its lineage.
Documents == [agent : Agents, events : Seq(Events), lineage : Lineages]

Labels == [kind : {"plain", "fork"}, name : Names \cup {NoName}]

Refs == [digest : Nat, agent : Agents, label : Labels,
         parent : Nat, forkedFrom : Nat]

NoLineage == [parent |-> None, root |-> None, forkedFrom |-> None,
              forkLabel |-> NoName, generation |-> 0]

Event(type, name, ts) == [type |-> type, name |-> name, ts |-> ts]

WithEvent(x, e) == [x EXCEPT !.events = Append(@, e)]

Fresh(a, t) == [agent |-> a, events |-> <<Event("created", NoName, t)>>,
                lineage |-> NoLineage]

\* core_digest compares everything but lineage.
SameCore(x, y) == x.agent = y.agent /\ x.events = y.events

Known(x) == \E d \in DOMAIN documents : documents[d] = x

Digest(x) == IF Known(x)
             THEN CHOOSE d \in DOMAIN documents : documents[d] = x
             ELSE Len(documents) + 1

\* previous.lineage.root or head
RootVia(d) == IF documents[d].lineage.root = None THEN d
              ELSE documents[d].lineage.root

\* Slip: the root is taken from the agent, which has none.
OwnRoot(x, d) ==
    [x EXCEPT !.lineage = [@ EXCEPT !.parent = d,
                           !.generation = documents[d].lineage.generation + 1]]

\* Slip: the generation of the head is kept.
SameGeneration(x, d) ==
    [x EXCEPT !.lineage = [@ EXCEPT !.parent = d, !.root = RootVia(d),
                           !.generation = documents[d].lineage.generation]]

ChildOf(x, d) ==
    [x EXCEPT !.lineage = [@ EXCEPT !.parent = d, !.root = RootVia(d),
                           !.generation = documents[d].lineage.generation + 1]]

Rootless(x) ==
    [x EXCEPT !.lineage = [@ EXCEPT !.parent = None, !.root = None,
                           !.generation = 0]]

\* Slip: the branch does not say where it forked from.
UnmarkedBranch(d, name, t) ==
    WithEvent([documents[d] EXCEPT !.lineage =
                  [parent |-> d, root |-> RootVia(d), forkedFrom |-> None,
                   forkLabel |-> name,
                   generation |-> documents[d].lineage.generation + 1]],
              Event("forked", name, t))

Branch(d, name, t) ==
    WithEvent([documents[d] EXCEPT !.lineage =
                  [parent |-> d, root |-> RootVia(d), forkedFrom |-> d,
                   forkLabel |-> name,
                   generation |-> documents[d].lineage.generation + 1]],
              Event("forked", name, t))

RefTo(d, x, label) ==
    [digest |-> d, agent |-> x.agent, label |-> label,
     parent |-> x.lineage.parent, forkedFrom |-> x.lineage.forkedFrom]

Digests(refs) == {refs[i].digest : i \in DOMAIN refs}

-----------------------------------------------------------------------------
(* Processes *)

PCs == {"idle", "find", "put", "branch", "readIndex", "writeIndex",
        "readHeads", "writeHeads"}

Verbs == {"none", "checkpoint", "fork", "restore", "record"}

Calls == [verb : Verbs, state : Documents, label : Labels, address : Nat,
          refs : Seq(Refs), tips : [Agents -> Nat], point : Nat,
          todo : Seq(Names)]

Plain(name) == [kind |-> "plain", name |-> name]

NoDocument == [agent |-> CHOOSE a \in Agents : TRUE, events |-> <<>>,
               lineage |-> NoLineage]

NoCall == [verb |-> "none", state |-> NoDocument, label |-> Plain(NoName),
           address |-> None, refs |-> <<>>, tips |-> [a \in Agents |-> None],
           point |-> None, todo |-> <<>>]

Init ==
    /\ documents = <<>>
    /\ stored = [s \in Stores |-> {}]
    /\ index = [s \in Stores |-> <<>>]
    /\ heads = [s \in Stores |-> [a \in Agents |-> None]]
    /\ pc = [p \in Procs |-> "idle"]
    /\ agent \in [Procs -> {Fresh(a, t) : a \in Agents, t \in Times}]
    /\ \A p \in Procs : agent[p].agent = AgentOf[p]
    /\ call = [p \in Procs |-> NoCall]
    /\ returned = [p \in Procs |-> None]
    /\ verbs = 0

Goto(p, l) == pc' = [pc EXCEPT ![p] = l]

Peers(p) == {q \in Procs \ {p} : StoreOf[q] = StoreOf[p]}

Begin(p) ==
    /\ pc[p] = "idle"
    /\ TakeTurns => \A q \in Peers(p) : pc[q] = "idle"
    /\ verbs < MaxVerbs
    /\ verbs' = verbs + 1
    /\ returned' = [returned EXCEPT ![p] = None]

End(p, d) ==
    /\ Goto(p, "idle")
    /\ call' = [call EXCEPT ![p] = NoCall]
    /\ returned' = [returned EXCEPT ![p] = d]

\* Slip: the state is hashed and never written.
HashOnly(p, x) ==
    /\ documents' = IF Known(x) THEN documents ELSE Append(documents, x)
    /\ UNCHANGED stored

\* put_state: an object that is already there is left alone.
PutDocument(p, x) ==
    /\ documents' = IF Known(x) THEN documents ELSE Append(documents, x)
    /\ stored' = [stored EXCEPT ![StoreOf[p]] = @ \cup {Digest(x)}]

-----------------------------------------------------------------------------
(* The agent moves on its own: one step of its plan. *)

Step(p, t) ==
    /\ pc[p] = "idle"
    /\ Len(agent[p].events) < MaxEvents
    /\ agent' = [agent EXCEPT ![p] = WithEvent(@, Event("step", NoName, t))]
    /\ returned' = [returned EXCEPT ![p] = None]
    /\ UNCHANGED <<disk, pc, call, verbs>>

\* resume of any state: one in a store, or one an image was written from.
Resume(p, d, t) ==
    /\ Begin(p)
    /\ Len(documents[d].events) < MaxEvents
    /\ agent' = [agent EXCEPT ![p] =
                    WithEvent(documents[d], Event("resumed", NoName, t))]
    /\ UNCHANGED <<disk, pc, call>>

-----------------------------------------------------------------------------
(* checkpoint: reads the head, and the index when nothing has changed. *)

BeginCheckpoint(p, name) ==
    /\ Begin(p)
    /\ LET x == agent[p]
           h == heads[StoreOf[p]][x.agent]
           known == h # None /\ h \in stored[StoreOf[p]]
           idle == known /\ SameCore(documents[h], x)
       IN /\ Goto(p, IF idle THEN "find" ELSE "put")
          /\ call' = [call EXCEPT ![p] =
                        [NoCall EXCEPT
                          !.verb = "checkpoint",
                          !.label = Plain(name),
                          !.state = IF known THEN ChildOf(x, h) ELSE Rootless(x),
                          !.address = h]]
    /\ UNCHANGED <<disk, agent>>

\* Slip: an unchanged agent is taken to be recorded.
TrustHead(p) ==
    /\ pc[p] = "find"
    /\ End(p, call[p].address)
    /\ UNCHANGED <<disk, agent, verbs>>

\* Slip: a head that is not recorded is recorded in place of the new state.
RecordHead(p) ==
    /\ pc[p] = "find"
    /\ IF call[p].address \in Digests(index[StoreOf[p]])
       THEN End(p, call[p].address)
       ELSE Goto(p, "readIndex") /\ UNCHANGED <<call, returned>>
    /\ UNCHANGED <<disk, agent, verbs>>

FindHead(p) ==
    /\ pc[p] = "find"
    /\ IF call[p].address \in Digests(index[StoreOf[p]])
       THEN End(p, call[p].address)
       ELSE Goto(p, "put") /\ UNCHANGED <<call, returned>>
    /\ UNCHANGED <<disk, agent, verbs>>

Put(p) ==
    /\ pc[p] = "put"
    /\ PutDocument(p, call[p].state)
    /\ call' = [call EXCEPT ![p].address = Digest(call[p].state)]
    /\ Goto(p, "readIndex")
    /\ UNCHANGED <<index, heads, agent, returned, verbs>>

-----------------------------------------------------------------------------
(* fork: the fork point is stored but not recorded, each branch is         *)
(* recorded in turn, and the head is put back to the fork point.           *)

\* Slip: the fork point is hashed and not stored.
ForkUnstored(p, x, labels) ==
    /\ Begin(p)
    /\ labels # <<>> /\ IsInjective(labels)
    /\ Len(x.events) < MaxEvents
    /\ HashOnly(p, x)
    /\ call' = [call EXCEPT ![p] =
                  [NoCall EXCEPT !.verb = "fork", !.state = x,
                                 !.point = Digest(x), !.todo = labels]]
    /\ Goto(p, "branch")
    /\ UNCHANGED <<index, heads, agent>>

BeginFork(p, x, labels) ==
    /\ Begin(p)
    /\ labels # <<>> /\ IsInjective(labels)
    /\ Len(x.events) < MaxEvents
    /\ PutDocument(p, x)
    /\ call' = [call EXCEPT ![p] =
                  [NoCall EXCEPT !.verb = "fork", !.state = x,
                                 !.point = Digest(x), !.todo = labels]]
    /\ Goto(p, "branch")
    /\ UNCHANGED <<index, heads, agent>>

PutBranch(p, t) ==
    /\ pc[p] = "branch"
    /\ LET name == Head(call[p].todo)
           x == Branch(call[p].point, name, t)
       IN /\ PutDocument(p, x)
          /\ call' = [call EXCEPT ![p].state = x,
                                  ![p].label = [kind |-> "fork", name |-> name],
                                  ![p].address = Digest(x),
                                  ![p].todo = Tail(@)]
    /\ Goto(p, "readIndex")
    /\ UNCHANGED <<index, heads, agent, returned, verbs>>

-----------------------------------------------------------------------------
(* import and migrate: record a state that already carries its lineage.    *)

BeginRecord(p, x, name) ==
    /\ Begin(p)
    /\ PutDocument(p, x)
    /\ call' = [call EXCEPT ![p] =
                  [NoCall EXCEPT !.verb = "record", !.state = x,
                                 !.label = Plain(name), !.address = Digest(x)]]
    /\ Goto(p, "readIndex")
    /\ UNCHANGED <<index, heads, agent>>

Import(p, d, name) == BeginRecord(p, documents[d], name)

Migrate(p, d, name, t) ==
    /\ Len(documents[d].events) < MaxEvents
    /\ BeginRecord(p, WithEvent(documents[d], Event("migrated", NoName, t)), name)

-----------------------------------------------------------------------------
(* record_checkpoint and set_head *)

\* Slip: a fork returns with the head on its last branch.
StayOnBranch(p) ==
    IF call[p].verb = "fork" /\ call[p].todo # <<>>
    THEN Goto(p, "branch") /\ UNCHANGED <<call, returned>>
    ELSE End(p, IF call[p].verb = "checkpoint" THEN call[p].address ELSE None)

\* Slip: a checkpoint returns the head it replaced.
ReturnParent(p) ==
    IF call[p].verb = "fork" /\ call[p].todo # <<>>
    THEN Goto(p, "branch") /\ UNCHANGED <<call, returned>>
    ELSE End(p, call[p].state.lineage.parent)

\* record_checkpoint has returned: what its caller does next.
Recorded(p) ==
    IF call[p].verb = "fork"
    THEN /\ IF call[p].todo # <<>>
            THEN Goto(p, "branch") /\ UNCHANGED call
            ELSE /\ Goto(p, "readHeads")
                 /\ call' = [call EXCEPT ![p].verb = "restore",
                                         ![p].address = call[p].point]
         /\ UNCHANGED returned
    ELSE End(p, IF call[p].verb = "checkpoint" THEN call[p].address ELSE None)

ReadIndex(p) ==
    /\ pc[p] = "readIndex"
    /\ IF call[p].address \in Digests(index[StoreOf[p]])
       THEN Recorded(p)
       ELSE /\ call' = [call EXCEPT ![p].refs = index[StoreOf[p]]]
            /\ Goto(p, "writeIndex")
            /\ UNCHANGED returned
    /\ UNCHANGED <<disk, agent, verbs>>

\* Slip: newest first.
PrependIndex(p) ==
    /\ pc[p] = "writeIndex"
    /\ index' = [index EXCEPT ![StoreOf[p]] =
                    <<RefTo(call[p].address, call[p].state, call[p].label)>>
                        \o call[p].refs]
    /\ call' = [call EXCEPT ![p].refs = <<>>]
    /\ Goto(p, "readHeads")
    /\ UNCHANGED <<documents, stored, heads, agent, returned, verbs>>

\* Slip: the entry describes the agent and not the state recorded.
IndexAgent(p) ==
    /\ pc[p] = "writeIndex"
    /\ index' = [index EXCEPT ![StoreOf[p]] =
                    Append(call[p].refs, RefTo(call[p].address, agent[p],
                                               call[p].label))]
    /\ call' = [call EXCEPT ![p].refs = <<>>]
    /\ Goto(p, "readHeads")
    /\ UNCHANGED <<documents, stored, heads, agent, returned, verbs>>

WriteIndex(p) ==
    /\ pc[p] = "writeIndex"
    /\ index' = [index EXCEPT ![StoreOf[p]] =
                    Append(call[p].refs, RefTo(call[p].address, call[p].state,
                                               call[p].label))]
    /\ call' = [call EXCEPT ![p].refs = <<>>]
    /\ Goto(p, "readHeads")
    /\ UNCHANGED <<documents, stored, heads, agent, returned, verbs>>

\* Slip: the heads of the other agents are not read back.
ForgetHeads(p) ==
    /\ pc[p] = "readHeads"
    /\ call' = [call EXCEPT ![p].tips = [a \in Agents |-> None]]
    /\ Goto(p, "writeHeads")
    /\ UNCHANGED <<disk, agent, returned, verbs>>

ReadHeads(p) ==
    /\ pc[p] = "readHeads"
    /\ call' = [call EXCEPT ![p].tips = heads[StoreOf[p]]]
    /\ Goto(p, "writeHeads")
    /\ UNCHANGED <<disk, agent, returned, verbs>>

WriteHeads(p) ==
    /\ pc[p] = "writeHeads"
    /\ heads' = [heads EXCEPT ![StoreOf[p]] =
                    [call[p].tips EXCEPT ![call[p].state.agent] = call[p].address]]
    /\ Recorded(p)
    /\ UNCHANGED <<documents, stored, index, agent, verbs>>

-----------------------------------------------------------------------------
(* Faults: an exception out of a file operation abandons the verb and      *)
(* keeps the agent; a crash loses both, and a new run makes a new agent.   *)

Fail(p) ==
    /\ "fail" \in Faults
    /\ pc[p] # "idle"
    /\ End(p, None)
    /\ UNCHANGED <<disk, agent, verbs>>

Crash(p, t) ==
    /\ "crash" \in Faults
    /\ End(p, None)
    /\ agent' = [agent EXCEPT ![p] = Fresh(AgentOf[p], t)]
    /\ UNCHANGED <<disk, verbs>>

-----------------------------------------------------------------------------

Continue(p) ==
    \/ FindHead(p)
    \/ Put(p)
    \/ \E t \in Times : PutBranch(p, t)
    \/ ReadIndex(p)
    \/ WriteIndex(p)
    \/ ReadHeads(p)
    \/ WriteHeads(p)

Invoke(p) ==
    \/ \E t \in Times : Step(p, t)
    \/ \E d \in DOMAIN documents, t \in Times : Resume(p, d, t)
    \/ \E name \in CheckpointNames : BeginCheckpoint(p, name)
    \/ \E labels \in LabelLists : BeginFork(p, agent[p], labels)
    \/ \E d \in stored[StoreOf[p]], labels \in LabelLists :
           BeginFork(p, documents[d], labels)
    \/ \E d \in DOMAIN documents, name \in CheckpointNames : Import(p, d, name)
    \/ \E d \in DOMAIN documents, name \in CheckpointNames, t \in Times :
           Migrate(p, d, name, t)

Next == \E p \in Procs :
    \/ Continue(p)
    \/ Invoke(p)
    \/ Fail(p)
    \/ \E t \in Times : Crash(p, t)

Spec == Init /\ [][Next]_vars

\* A verb is straight-line code: once called it runs until it returns.
FairSpec == Spec /\ \A p \in Procs : WF_vars(Continue(p))

-----------------------------------------------------------------------------
(* What the store keeps true whoever writes to it *)

\* Types: what is on disk and in the locals of a verb is made of whole records,
\* also after a verb was cut short.
TypeOK ==
    /\ documents \in Seq(Documents)
    /\ stored \in [Stores -> SUBSET Nat]
    /\ index \in [Stores -> Seq(Refs)]
    /\ heads \in [Stores -> [Agents -> Nat]]
    /\ pc \in [Procs -> PCs]
    /\ agent \in [Procs -> Documents]
    /\ call \in [Procs -> Calls]
    /\ returned \in [Procs -> Nat]
    /\ verbs \in Nat

RefOK(s, r) ==
    /\ r.digest \in stored[s] \cap DOMAIN documents
    /\ r = RefTo(r.digest, documents[r.digest], r.label)

\* Every index entry names an object of its store and repeats what that object
\* says of itself (record_checkpoint writes the object before the entry).
IndexFaithful ==
    \A s \in Stores : \A i \in DOMAIN index[s] : RefOK(s, index[s][i])

TipOK(s, a, d) ==
    d # None => /\ d \in stored[s] \cap DOMAIN documents
                /\ documents[d].agent = a

\* A head names an object of its store that is a state of that agent, whatever
\* writer, crash or lost update of heads.json came last (set_head).
HeadsStored ==
    \A s \in Stores, a \in Agents : TipOK(s, a, heads[s][a])

Unrepeated(refs) ==
    \A i, j \in DOMAIN refs : refs[i].digest = refs[j].digest => i = j

\* A state is recorded at most once (the membership test of record_checkpoint
\* and the index it then replaces are the same copy).
IndexUnique ==
    \A s \in Stores : Unrepeated(index[s])

LineageOf(x, below) ==
    LET l == x.lineage
    IN IF l.parent = None
       THEN l.root = None /\ l.generation = 0
       ELSE /\ l.parent \in below
            /\ l.root = RootVia(l.parent)
            /\ l.generation = documents[l.parent].lineage.generation + 1

\* The lineage a document claims agrees with the document it names as parent:
\* that one was hashed before it, is one generation up and has the same root
\* (checkpoint takes these from the head, fork from the state it is given).
LineageSound ==
    \A d \in DOMAIN documents : LineageOf(documents[d], 1 .. (d - 1))

\* No store holds a state whose parent exists in no store: a chain of parents
\* is cut only where an image crossed from one store to another.
ParentStored ==
    \A s \in Stores : \A d \in stored[s] :
        LET parent == documents[d].lineage.parent
        IN parent # None => \E other \in Stores : parent \in stored[other]

\* ancestry(d): the parents of d, newest first, up to one the store lacks.
Ancestry(s, d) ==
    LET walk[e \in DOMAIN documents] ==
          LET parent == documents[e].lineage.parent
          IN IF e \notin stored[s] \/ parent = None THEN <<e>>
             ELSE <<e>> \o walk[parent]
    IN walk[d]

\* Walking the parents of any stored state ends at the root it claims after as
\* many steps as its generation says, unless it leaves the store (ancestry).
AncestryReachesRoot ==
    \A s \in Stores : \A d \in stored[s] :
        LET chain == Ancestry(s, d)
            last == chain[Len(chain)]
        IN \/ last \notin stored[s]
           \/ /\ Len(chain) = documents[d].lineage.generation + 1
              /\ last = RootVia(d)

ReturnedOK(p) ==
    returned[p] # None =>
        /\ returned[p] \in stored[StoreOf[p]] \cap DOMAIN documents
        /\ SameCore(documents[returned[p]], agent[p])

\* The state a checkpoint call has returned is on disk and holds what its agent
\* held, however many writers there are and whatever failed before the call.
CheckpointDurable == \A p \in Procs : ReturnedOK(p)

-----------------------------------------------------------------------------
(* The inductive invariant behind the properties above: what a verb has    *)
(* read or stored so far stays true of the disk until the verb returns.    *)

StoredKnown == \A s \in Stores : stored[s] \subseteq DOMAIN documents

Holds(p, d) == d \in stored[StoreOf[p]] \cap DOMAIN documents

\* A fork knows its fork point, and there is a branch to make at "branch".
ForkOK(p) ==
    /\ call[p].verb \in {"fork", "restore"} =>
          Holds(p, call[p].point)
          /\ documents[call[p].point].agent = call[p].state.agent
    /\ pc[p] = "branch" => call[p].verb = "fork" /\ call[p].todo # <<>>

Recording == {"readIndex", "writeIndex", "readHeads", "writeHeads"}

\* From put_state on, the address in hand is that of the state in hand, except
\* when the head is put back to the fork point.
AddressOK(p) ==
    /\ pc[p] = "find" =>
          /\ Holds(p, call[p].address)
          /\ SameCore(documents[call[p].address], agent[p])
    /\ pc[p] \in {"find", "put"} => call[p].verb = "checkpoint"
    /\ pc[p] \in {"readIndex", "writeIndex"} => call[p].verb # "restore"
    /\ pc[p] \in Recording =>
          /\ Holds(p, call[p].address)
          /\ documents[call[p].address].agent = call[p].state.agent
          /\ call[p].verb # "restore" =>
                documents[call[p].address] = call[p].state

\* The copies of the index and of the heads about to be written back.
CopiesOK(p) ==
    /\ pc[p] = "writeIndex" =>
          /\ \A i \in DOMAIN call[p].refs : RefOK(StoreOf[p], call[p].refs[i])
          /\ Unrepeated(call[p].refs)
          /\ call[p].address \notin Digests(call[p].refs)
    /\ pc[p] = "writeHeads" =>
          \A a \in Agents : TipOK(StoreOf[p], a, call[p].tips[a])

\* States that are not stored yet: in the agent, or about to be put.
UnstoredSound(p) ==
    /\ LineageOf(agent[p], DOMAIN documents)
    /\ pc[p] \in {"find", "put"} => LineageOf(call[p].state, DOMAIN documents)

\* The state being recorded by a checkpoint is the agent's, which does not move
\* before the verb returns.
CheckpointOK(p) ==
    /\ pc[p] = "idle" => call[p].verb = "none"
    /\ call[p].verb = "checkpoint" => SameCore(call[p].state, agent[p])

ProcOK(p) ==
    /\ ForkOK(p)
    /\ AddressOK(p)
    /\ CopiesOK(p)
    /\ UnstoredSound(p)
    /\ CheckpointOK(p)

Inv ==
    /\ TypeOK
    /\ StoredKnown
    /\ IndexFaithful
    /\ IndexUnique
    /\ HeadsStored
    /\ LineageSound
    /\ CheckpointDurable
    /\ \A p \in Procs : ProcOK(p)

-----------------------------------------------------------------------------
(* What it keeps true for one writer per store *)

\* The state a checkpoint call has returned is in the index.
CheckpointIndexed ==
    \A p \in Procs : returned[p] # None =>
        returned[p] \in Digests(index[StoreOf[p]])

\* A head is a recorded state or the fork point of a recorded branch, also
\* after a verb was cut short (record_checkpoint writes the index first).
HeadRecorded ==
    \A s \in Stores, a \in Agents : heads[s][a] # None =>
        \E i \in DOMAIN index[s] :
            heads[s][a] \in {index[s][i].digest, index[s][i].forkedFrom}

\* No entry is ever dropped or changed by a later verb or by a retry.
IndexAppendOnly ==
    [][\A s \in Stores :
         /\ Len(index[s]) <= Len(index'[s])
         /\ SubSeq(index'[s], 1, Len(index[s])) = index[s]]_vars

\* Moving the head of one agent leaves the heads of the others alone (set_head
\* reads and replaces the heads of every agent).
HeadMovesForItsAgent ==
    [][\A s \in Stores, a \in Agents :
         heads'[s][a] # heads[s][a] =>
            \E p \in Procs : /\ pc[p] = "writeHeads"
                             /\ StoreOf[p] = s
                             /\ call[p].state.agent = a
                             /\ heads'[s][a] = call[p].address]_vars

\* A fork that is not interrupted ends with the head on its fork point, whatever
\* branches it recorded on the way.  A verb stores at most one document, and a
\* fork one more for each label.
ForkRestoresHead ==
    \A p \in Procs, d \in UNION {1 .. MaxVerbs * (1 + Len(l)) : l \in LabelLists} :
        (call[p].verb = "fork" /\ call[p].point = d) ~>
            /\ pc[p] = "idle"
            /\ d \in DOMAIN documents
            /\ heads[StoreOf[p]][documents[d].agent] = d

-----------------------------------------------------------------------------
(* What the documentation says and the code does not keep *)

\* runtime.py: "Checkpointing an agent that has not moved is free and produces
\* no new state": nothing is stored whose head holds the same work.
IdleCheckpointIsFree ==
    \A p \in Procs : pc[p] = "put" =>
        LET head == call[p].state.lineage.parent
        IN head # None => ~SameCore(documents[head], call[p].state)

-----------------------------------------------------------------------------
(* The contract of the store *)

Ledger == INSTANCE CheckpointLedger WITH
    objects <- stored,
    log <- [s \in Stores |-> [i \in DOMAIN index[s] |->
              [digest |-> index[s][i].digest, agent |-> index[s][i].agent,
               forkedFrom |-> index[s][i].forkedFrom]]],
    tip <- heads

\* With one writer per store every verb, whole or cut short, is a sequence of
\* steps of the ledger of spec/store.md.
ImplementsLedger == Ledger!Spec
=============================================================================
