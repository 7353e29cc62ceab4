--------------------------- MODULE LangGraphAdapter ---------------------------
(***************************************************************************)
(* LangGraph runtimes that run, export and import each other's states      *)
(* (continuum_langgraph/adapter.py and binding.py).  The thread of a       *)
(* checkpointer and what LangGraph does with it are external.              *)
(*                                                                         *)
(* Graphs run one node at a time.  A thread has three channels: `goal' and *)
(* `scratch' keep the last value written, `findings' appends.  Every node  *)
(* appends its own name, so findings is also the history of the graph.     *)
(***************************************************************************)
EXTENDS Sequences, FiniteSets, FiniteSetsExt, Functions, Naturals

CONSTANTS
    Hosts,          \* the runtimes, each an adapter with a saver of its own
    GraphOf,        \* the compiled graph of a host: nodes and edges
    Route(_, _, _, _), \* the node that follows one in a graph, for goal and findings
    Alphabet,       \* the names of all nodes, in sorted order
    Untidy,         \* nodes that leave an object without a JSON encoding
    Deleting,       \* hosts whose saver implements delete_thread
    Goals,          \* the initial inputs a host may be given
    GrantSets,      \* sets of granted capabilities
    Sufficient,     \* those that satisfy REQUIRED_CAPABILITIES
    OwnGrants,      \* what a new adapter grants itself
    Vias,           \* the adapters a state may be migrated to
    MaxImports,     \* bound: fallback threads of one host
    MaxFindings     \* bound: nodes run in one history

START == "__start__"
END == "__end__"
NoNode == "none"
NoGoal == "none"
NoGraph == [nodes |-> {}, edges |-> {}]

ASSUME AlphabetAssumption == Alphabet \in Seq(Range(Alphabet))

ASSUME ImportsAssumption == MaxImports \in Nat

ASSUME GrantsAssumption == Sufficient \subseteq GrantSets /\ OwnGrants \in Sufficient

ASSUME GraphsAssumption ==
    \A h \in Hosts :
        /\ GraphOf[h].nodes \subseteq Range(Alphabet) \ {START, END, NoNode}
        /\ GraphOf[h].edges \subseteq
             (GraphOf[h].nodes \cup {START}) \X (GraphOf[h].nodes \cup {END})

VARIABLES
    saver,          \* the threads of each host: 0 is its own, n its n-th #import
    adapter,        \* the object of each host
    image,          \* the state document in transit
    last            \* the last import, until something else happens

vars == <<saver, adapter, image, last>>

\* A thread that does not exist; its snapshot has no next node, as at the end.
\* step: the super-step LangGraph writes into the metadata of its checkpoints.
NoThread == [goal |-> NoGoal, findings |-> <<>>, scratch |-> "text",
             next |-> NoNode, seen |-> {}, step |-> 0]

\* A state of the native adapter: no channel values, no fingerprint.
Foreign == [agent |-> "native", granted |-> OwnGrants, hasValues |-> FALSE,
            graph |-> NoGraph]

NoImport == [outcome |-> "none"]

Init ==
    /\ saver = [h \in Hosts |-> [n \in 0 .. MaxImports |-> NoThread]]
    /\ adapter = [h \in Hosts |->
          [agent |-> h, granted |-> OwnGrants, thread |-> 0, started |-> FALSE,
           goal |-> NoGoal]]
    /\ image = Foreign
    /\ last = NoImport

Thread(h) == saver[h][adapter[h].thread]

-----------------------------------------------------------------------------
(* LangGraph: input, one super-step, update_state on an empty thread *)

Given(graph, goal) ==
    [NoThread EXCEPT !.goal = goal, !.scratch = "number",
                     !.next = Route(graph, START, goal, <<>>)]

\* The node writes its updates; its router, if any, sees them.
Ran(graph, t) ==
    LET findings == Append(t.findings, t.next)
    IN [goal |-> t.goal, findings |-> findings,
        scratch |-> IF t.next \in Untidy THEN "object" ELSE t.scratch,
        next |-> Route(graph, t.next, t.goal, findings), seen |-> t.seen \cup {t.next},
        step |-> t.step + 1]

\* Values are written as if `node' had just finished; without a node, as input.
\* The thread is empty unless it was not cleared, and an empty one counts its
\* steps from the beginning.
Updated(graph, t, values, node) ==
    LET findings == t.findings \o values.findings
    IN [goal |-> values.goal, findings |-> findings, scratch |-> values.scratch,
        next |-> Route(graph, IF node = NoNode THEN START ELSE node, values.goal,
                      findings),
        seen |-> t.seen \cup ({node} \ {NoNode}),
        step |-> IF t = NoThread THEN 0 ELSE t.step + 1]

-----------------------------------------------------------------------------
(* start and step *)

\* Seeds the graph without running it; bound: once for each host.
Start(h, goal) ==
    /\ adapter[h].goal = NoGoal
    /\ adapter' = [adapter EXCEPT ![h].goal = goal]
    /\ last' = NoImport
    /\ UNCHANGED <<saver, image>>

\* A node runs to its end or raises; the input is committed before the first
\* one.  A step that finds nothing to run, or no start, changes nothing.
Step(h, raises) ==
    LET a == adapter[h]
        t == IF a.started THEN Thread(h) ELSE Given(GraphOf[h], a.goal)
    IN /\ a.started \/ a.goal # NoGoal
       /\ t.next \in GraphOf[h].nodes
       /\ Len(t.findings) < MaxFindings
       /\ saver' = [saver EXCEPT ![h][a.thread] =
                       IF raises THEN t ELSE Ran(GraphOf[h], t)]
       /\ adapter' = [adapter EXCEPT ![h].started = TRUE]
       /\ last' = NoImport
       /\ UNCHANGED image

-----------------------------------------------------------------------------
(* export_state *)

\* _jsonable: what has no JSON encoding travels as its text.
Jsonable(value) == IF value = "object" THEN "text" ELSE value

Predecessors(graph, node) == {e[1] : e \in {d \in graph.edges : d[2] = node}} \ {START}

LastByName(nodes) == Alphabet[Max({i \in DOMAIN Alphabet : Alphabet[i] \in nodes})]

\* Slip: what ran is not looked at.
ResumeByTopology(graph, t) ==
    LET before == Predecessors(graph, t.next)
    IN IF t.next \notin graph.nodes \/ before = {} THEN NoNode
       ELSE LastByName(before)

\* _derive_resume_node and _executed_nodes.
ResumeNode(graph, t) ==
    LET before == Predecessors(graph, t.next)
        ran == before \cap t.seen
    IN IF t.next \notin graph.nodes \/ before = {} THEN NoNode
       ELSE IF Cardinality(before) = 1 THEN CHOOSE p \in before : TRUE
       ELSE IF ran = {} THEN NoNode
       ELSE LastByName(ran)

\* export_state, without the handles that change with the thread (thread_id,
\* checkpoint_id, pending task ids) and the metadata the step is taken from.
Document(h) ==
    LET t == Thread(h)
    IN [agent |-> adapter[h].agent, granted |-> adapter[h].granted, hasValues |-> TRUE,
        graph |-> GraphOf[h], step |-> t.step,
        values |-> [goal |-> t.goal, findings |-> t.findings,
                    scratch |-> Jsonable(t.scratch)],
        status |-> IF t.next \in GraphOf[h].nodes THEN "suspended" ELSE "completed",
        next |-> t.next, resume |-> ResumeNode(GraphOf[h], t)]

Export(h) ==
    /\ image' = Document(h)
    /\ last' = NoImport
    /\ UNCHANGED <<saver, adapter>>

\* migrate: the target decides the grants, and scratch state goes with a change
\* of adapter; the cursor stays.
Migrate(via, granted) ==
    /\ image' = [image EXCEPT !.granted = granted,
                              !.graph = IF via = "langgraph" THEN @ ELSE NoGraph]
    /\ last' = NoImport
    /\ UNCHANGED <<saver, adapter>>

-----------------------------------------------------------------------------
(* import_state *)

\* Capability, cursor and fingerprint; no fingerprint, no comparison.
Accepts(h, doc) ==
    doc.granted \in Sufficient /\ doc.hasValues /\ doc.graph \in {NoGraph, GraphOf[h]}

\* Slip: nothing is cleared.
NotCleared(h) == [threads |-> saver[h], thread |-> adapter[h].thread]

\* _clear_thread: the thread is deleted, or another one is taken.
Cleared(h) ==
    IF h \in Deleting
    THEN [threads |-> [saver[h] EXCEPT ![adapter[h].thread] = NoThread],
          thread |-> adapter[h].thread]
    ELSE [threads |-> saver[h], thread |-> adapter[h].thread + 1]

\* Slip: the adapter does not know that it has been started.
BecameUnstarted(a, thread, doc) ==
    [a EXCEPT !.thread = thread, !.agent = doc.agent, !.granted = doc.granted]

Became(a, thread, doc) ==
    [a EXCEPT !.thread = thread, !.started = TRUE, !.agent = doc.agent,
              !.granted = doc.granted]

\* touched: the import has changed the adapter or a thread of the host.
Record(h, outcome) ==
    last' = [outcome |-> outcome, host |-> h,
             touched |-> adapter'[h] # adapter[h] \/ saver'[h] # saver[h]]

Refused(h) ==
    /\ ~Accepts(h, image)
    /\ UNCHANGED <<saver, adapter>>
    /\ Record(h, "refused")

\* update_state raises for a node the graph does not have, after the clearing.
Broken(h) ==
    LET empty == Cleared(h)
    IN /\ Accepts(h, image)
       /\ image.resume \notin GraphOf[h].nodes \cup {NoNode}
       /\ saver' = [saver EXCEPT ![h] = empty.threads]
       /\ adapter' = [adapter EXCEPT ![h].thread = empty.thread]
       /\ Record(h, "raised")

Applied(h) ==
    LET empty == Cleared(h)
    IN /\ Accepts(h, image)
       /\ image.resume \in GraphOf[h].nodes \cup {NoNode}
       /\ saver' = [saver EXCEPT ![h] =
             [empty.threads EXCEPT ![empty.thread] =
                 Updated(GraphOf[h], @, image.values, image.resume)]]
       /\ adapter' = [adapter EXCEPT ![h] = Became(@, empty.thread, image)]
       /\ Record(h, "applied")

Import(h) ==
    /\ h \in Deleting \/ adapter[h].thread < MaxImports
    /\ Refused(h) \/ Broken(h) \/ Applied(h)
    /\ UNCHANGED image

Next ==
    \/ \E h \in Hosts : \/ \E goal \in Goals[h] : Start(h, goal)
                        \/ \E raises \in BOOLEAN : Step(h, raises)
                        \/ Export(h)
                        \/ Import(h)
    \/ \E via \in Vias, granted \in GrantSets : Migrate(via, granted)

Spec == Init /\ [][Next]_vars

-----------------------------------------------------------------------------
(* What an import keeps *)

\* Becoming a state that was suspended in the same graph and exporting again
\* gives that state, but its steps are counted from 0 in the new thread:
\* values are not appended to older ones, the grants and the agent are the
\* state's, the frontier is the same, and so is the node a next import would
\* impersonate.
RoundTripIsFixedPoint ==
    last.outcome = "applied" /\ image.status = "suspended"
        /\ image.graph = GraphOf[last.host] =>
            Document(last.host) = [image EXCEPT !.step = 0]

\* What the findings of a thread say ran is a walk of its graph by its routers
\* that ends at the frontier, however often it moved between runtimes. Only a
\* finished run begins again.
WalksTheGraph ==
    \A h \in Hosts : \A n \in DOMAIN saver[h] :
        LET t == saver[h][n]
            first == Route(GraphOf[h], START, t.goal, <<>>)
            walk == Append(t.findings, t.next)
            routed(i) == Route(GraphOf[h], walk[i], t.goal, SubSeq(walk, 1, i))
        IN t # NoThread =>
             /\ walk[1] = first
             /\ \A i \in DOMAIN t.findings :
                   \/ <<walk[i], walk[i + 1]>> \in GraphOf[h].edges
                        /\ walk[i + 1] = routed(i)
                   \/ routed(i) = END /\ walk[i + 1] = first

\* A runtime counts as started exactly when its thread exists: a next step goes
\* on with what was imported, it neither seeds it again nor runs into nothing.
StartedHasThread ==
    \A h \in Hosts : adapter[h].started <=> Thread(h) # NoThread

\* An import that raises has changed nothing (import_state: "All-or-nothing:
\* every precondition is checked before anything is written").
RaisesUntouched ==
    last.outcome \in {"refused", "raised"} => ~last.touched

-----------------------------------------------------------------------------
(* What the documentation says and the code does not keep *)

\* spec/adapters.md: "a state exported mid-task, imported elsewhere, resumes at
\* the same task".
ResumesAtItsTask ==
    last.outcome = "applied" /\ image.status = "suspended" =>
        Thread(last.host).next = image.next
=============================================================================
