--------------------------- MODULE LangGraphProofs ---------------------------
(***************************************************************************)
(* What an import of the LangGraph adapter keeps, for any graphs, routers  *)
(* and inputs, and any number of runtimes, exports, migrations and         *)
(* imports.                                                                *)
(***************************************************************************)
EXTENDS LangGraphAdapter, Induction

-----------------------------------------------------------------------------
(* What the theorems assume of the graphs *)

Inputs == {NoGoal} \cup UNION {Goals[h] : h \in Hosts}
Nodes == UNION {GraphOf[h].nodes : h \in Hosts}

Findings == Seq(Nodes)

\* A router goes along an edge.
Routed ==
    \A h \in Hosts : \A node \in GraphOf[h].nodes \cup {START} :
        \A goal \in Inputs, findings \in Findings :
            <<node, Route(GraphOf[h], node, goal, findings)>> \in GraphOf[h].edges

\* A state reaches no graph that lacks a node of the one it comes from, unless
\* a fingerprint says so.
Known ==
    \/ Vias \subseteq {"langgraph"}
    \/ \A g, h \in Hosts : GraphOf[g].nodes = GraphOf[h].nodes

-----------------------------------------------------------------------------
(* Types *)

Threads ==
    [goal : Inputs, findings : Findings, scratch : {"text", "number", "object"},
     next : Nodes \cup {END, NoNode}, seen : SUBSET Nodes, step : Nat]

Values == [goal : Inputs, findings : Findings, scratch : {"text", "number"}]

Adapters ==
    [agent : Hosts \cup {"native"}, granted : GrantSets, thread : 0 .. MaxImports,
     started : BOOLEAN, goal : Inputs]

Graphs == {NoGraph} \cup {GraphOf[h] : h \in Hosts}
Agents == {"native"} \cup Hosts

Foreigns ==
    [agent : Agents, granted : GrantSets, hasValues : {FALSE}, graph : Graphs]

Documents ==
    [agent : Agents, granted : GrantSets, hasValues : {TRUE}, graph : Graphs,
     step : Nat, values : Values, status : {"suspended", "completed"},
     next : Nodes \cup {END, NoNode}, resume : Nodes \cup {NoNode}]

TypeOK ==
    /\ saver \in [Hosts -> [0 .. MaxImports -> Threads]]
    /\ adapter \in [Hosts -> Adapters]
    /\ image \in Foreigns \cup Documents

\* A document names a node of the graph it was exported from, and that is the
\* graph it travels with unless a migration dropped it.
Sourced ==
    image.hasValues =>
        \E g \in Hosts :
            /\ image.resume \in GraphOf[g].nodes \cup {NoNode}
            /\ image.graph = GraphOf[g] \/ ~(Vias \subseteq {"langgraph"})

\* The fallback threads that come next are empty.
FreshAhead ==
    \A h \in Hosts : \A n \in 0 .. MaxImports :
        n > adapter[h].thread => saver[h][n] = NoThread

IInv == TypeOK /\ Sourced /\ FreshAhead /\ StartedHasThread

-----------------------------------------------------------------------------
(* The operators of the adapter *)

LEMMA LastIsOne ==
    ASSUME NEW S \in SUBSET Range(Alphabet), S # {}
    PROVE  LastByName(S) \in S
<1> DEFINE I == {i \in DOMAIN Alphabet : Alphabet[i] \in S}
           n == Len(Alphabet)
<1>1. n \in Nat /\ DOMAIN Alphabet = 1 .. n
  BY AlphabetAssumption
<1>2. I \in SUBSET (0 .. n) /\ I # {}
  BY <1>1 DEF Range
<1> HIDE DEF n, I
<1>3. \E k \in I : \A i \in I : i <= k
  BY <1>1, <1>2, Greatest
<1>4. \E k \in I : \A i \in I : k >= i
  <2>1. \A i \in I : i \in 0 .. n
    BY <1>2
  <2> QED
    BY <1>1, <1>3, <2>1
<1>5. Max(I) \in I
  BY <1>4 DEF Max
<1> QED
  BY <1>5 DEF I, LastByName

LEMMA PredecessorsIn ==
    ASSUME NEW h \in Hosts, NEW node
    PROVE  Predecessors(GraphOf[h], node) \subseteq GraphOf[h].nodes
BY GraphsAssumption DEF Predecessors

LEMMA ResumeIn ==
    ASSUME NEW h \in Hosts, NEW t
    PROVE  ResumeNode(GraphOf[h], t) \in GraphOf[h].nodes \cup {NoNode}
<1> DEFINE before == Predecessors(GraphOf[h], t.next)
           ran == before \cap t.seen
<1>1. before \subseteq GraphOf[h].nodes
  BY PredecessorsIn
<1>2. ran # {} => LastByName(ran) \in ran
  <2>1. ran \in SUBSET Range(Alphabet)
    BY <1>1, GraphsAssumption
  <2> HIDE DEF ran
  <2> QED
    BY <2>1, LastIsOne
<1>3. before # {} => (CHOOSE p \in before : TRUE) \in before
  OBVIOUS
<1> HIDE DEF before
<1> QED
  BY <1>1, <1>2, <1>3 DEF ResumeNode, before

LEMMA RouteIn ==
    ASSUME Routed, NEW h \in Hosts, NEW node \in GraphOf[h].nodes \cup {START},
           NEW goal \in Inputs, NEW findings \in Findings
    PROVE  /\ Route(GraphOf[h], node, goal, findings) \in GraphOf[h].nodes \cup {END}
           /\ Route(GraphOf[h], node, goal, findings) \in Nodes \cup {END}
           /\ Route(GraphOf[h], node, goal, findings) # NoNode
<1> DEFINE r == Route(GraphOf[h], node, goal, findings)
<1>1. <<node, r>> \in GraphOf[h].edges
  BY DEF Routed
<1>2. r \in GraphOf[h].nodes \cup {END}
  BY <1>1, GraphsAssumption
<1>3. NoNode \notin GraphOf[h].nodes /\ NoNode # END
  BY GraphsAssumption DEF NoNode, END
<1> QED
  BY <1>2, <1>3 DEF Nodes

LEMMA NodesOf == \A h \in Hosts : GraphOf[h].nodes \subseteq Nodes
BY DEF Nodes

\* The threads that a step, an input or an import writes.
LEMMA NoThreadType == NoThread \in Threads
BY DEF NoThread, Threads, Inputs, Findings

LEMMA GivenType ==
    ASSUME Routed, NEW h \in Hosts, NEW goal \in Inputs
    PROVE  Given(GraphOf[h], goal) \in Threads /\ Given(GraphOf[h], goal) # NoThread
<1> DEFINE r == Route(GraphOf[h], START, goal, <<>>)
<1>1. r \in Nodes \cup {END} /\ r # NoNode
  <2>1. <<>> \in Findings
    BY DEF Findings
  <2> QED
    BY <2>1, RouteIn
<1> HIDE DEF r
<1>2. Given(GraphOf[h], goal) =
         [goal |-> goal, findings |-> <<>>, scratch |-> "number", next |-> r, seen |-> {},
          step |-> 0]
  <2>1. Given(GraphOf[h], goal) =
           [NoThread EXCEPT !.goal = goal, !.scratch = "number", !.next = r]
    BY DEF Given, r
  <2> QED
    BY <2>1 DEF NoThread
<1> QED
  BY <1>1, <1>2 DEF Threads, Findings, NoThread

LEMMA RanType ==
    ASSUME Routed, NEW h \in Hosts, NEW t \in Threads, t.next \in GraphOf[h].nodes
    PROVE  Ran(GraphOf[h], t) \in Threads /\ Ran(GraphOf[h], t) # NoThread
<1> DEFINE f == Append(t.findings, t.next)
           r == Route(GraphOf[h], t.next, t.goal, f)
<1>1. t.next \in Nodes /\ t.findings \in Findings /\ t.goal \in Inputs
      /\ t.scratch \in {"text", "number", "object"} /\ t.seen \in SUBSET Nodes
      /\ t.step \in Nat
  BY NodesOf DEF Threads
<1>2. f \in Findings /\ f # <<>>
  BY <1>1 DEF Findings
<1>3. r \in Nodes \cup {END}
  BY <1>1, <1>2, RouteIn
<1> HIDE DEF f, r
<1>4. Ran(GraphOf[h], t) =
         [goal |-> t.goal, findings |-> f,
          scratch |-> IF t.next \in Untidy THEN "object" ELSE t.scratch,
          next |-> r, seen |-> t.seen \cup {t.next}, step |-> t.step + 1]
  BY DEF Ran, f, r
<1> QED
  BY <1>1, <1>2, <1>3, <1>4 DEF Threads, NoThread

LEMMA UpdatedType ==
    ASSUME Routed, NEW h \in Hosts, NEW t \in Threads, NEW values \in Values,
           NEW node \in GraphOf[h].nodes \cup {NoNode}
    PROVE  Updated(GraphOf[h], t, values, node) \in Threads
           /\ Updated(GraphOf[h], t, values, node) # NoThread
<1> DEFINE f == t.findings \o values.findings
           r == Route(GraphOf[h], IF node = NoNode THEN START ELSE node, values.goal, f)
           s == t.seen \cup ({node} \ {NoNode})
           k == IF t = NoThread THEN 0 ELSE t.step + 1
<1>1. t.findings \in Findings /\ t.seen \in SUBSET Nodes /\ k \in Nat
      /\ values.findings \in Findings /\ values.goal \in Inputs
      /\ values.scratch \in {"text", "number"}
  BY DEF Threads, Values
<1>2. f \in Findings
  BY <1>1 DEF Findings
<1>3. r \in Nodes \cup {END} /\ r # NoNode
  BY <1>1, <1>2, RouteIn
<1>4. s \in SUBSET Nodes
  BY <1>1, NodesOf
<1> HIDE DEF f, r, s, k
<1>5. Updated(GraphOf[h], t, values, node) =
         [goal |-> values.goal, findings |-> f, scratch |-> values.scratch,
          next |-> r, seen |-> s, step |-> k]
  BY DEF Updated, f, r, s, k
<1> QED
  BY <1>1, <1>2, <1>3, <1>4, <1>5 DEF Threads, NoThread

-----------------------------------------------------------------------------
(* The actions *)

LEMMA InitIInv == Init => IInv
<1> SUFFICES ASSUME Init PROVE IInv
  OBVIOUS
<1>1. saver \in [Hosts -> [0 .. MaxImports -> Threads]]
  BY NoThreadType DEF Init
<1>2. adapter \in [Hosts -> Adapters]
  BY ImportsAssumption, GrantsAssumption DEF Init, Adapters, Inputs
<1>3. image \in Foreigns /\ image.hasValues = FALSE
  BY GrantsAssumption DEF Init, Foreign, Foreigns, Agents, Graphs
<1>4. FreshAhead /\ StartedHasThread
  BY ImportsAssumption DEF Init, FreshAhead, StartedHasThread, Thread
<1> QED
  BY <1>1, <1>2, <1>3, <1>4 DEF IInv, TypeOK, Sourced

LEMMA ThreadType ==
    ASSUME TypeOK, NEW h \in Hosts
    PROVE  /\ adapter[h] \in Adapters /\ adapter[h].thread \in 0 .. MaxImports
           /\ saver[h] \in [0 .. MaxImports -> Threads]
           /\ Thread(h) \in Threads
BY DEF TypeOK, Adapters, Thread

\* One host moves: the invariant holds again if it does for that host.
LEMMA OneHost ==
    ASSUME TypeOK, FreshAhead, StartedHasThread, NEW h \in Hosts,
           NEW threads \in [0 .. MaxImports -> Threads], NEW a \in Adapters,
           saver' = [saver EXCEPT ![h] = threads],
           adapter' = [adapter EXCEPT ![h] = a],
           \A n \in 0 .. MaxImports : n > a.thread => threads[n] = NoThread,
           a.started <=> threads[a.thread] # NoThread
    PROVE  /\ saver' \in [Hosts -> [0 .. MaxImports -> Threads]]
           /\ adapter' \in [Hosts -> Adapters]
           /\ FreshAhead' /\ StartedHasThread'
<1>1. /\ saver' \in [Hosts -> [0 .. MaxImports -> Threads]]
      /\ adapter' \in [Hosts -> Adapters]
  BY DEF TypeOK
<1>2. /\ saver'[h] = threads /\ adapter'[h] = a
      /\ \A g \in Hosts \ {h} : saver'[g] = saver[g] /\ adapter'[g] = adapter[g]
  BY DEF TypeOK
<1>3. FreshAhead'
  <2> SUFFICES ASSUME NEW g \in Hosts, NEW n \in 0 .. MaxImports, n > adapter'[g].thread
               PROVE  saver'[g][n] = NoThread
    BY DEF FreshAhead
  <2>1. CASE g = h
    <3>1. n > a.thread /\ saver'[g] = threads
      BY <1>2, <2>1
    <3> QED
      BY <3>1
  <2>2. CASE g # h
    <3>1. n > adapter[g].thread /\ saver'[g] = saver[g]
      BY <1>2, <2>2
    <3> QED
      BY <3>1 DEF FreshAhead
  <2> QED
    BY <2>1, <2>2
<1>4. StartedHasThread'
  BY <1>2 DEF StartedHasThread, Thread
<1> QED
  BY <1>1, <1>3, <1>4

LEMMA StartIInv ==
    ASSUME IInv, NEW h \in Hosts, NEW goal \in Goals[h], Start(h, goal)
    PROVE  IInv'
<1> DEFINE a == [adapter[h] EXCEPT !.goal = goal]
<1>1. TypeOK /\ FreshAhead /\ StartedHasThread
  BY DEF IInv
<1>2. /\ adapter' = [adapter EXCEPT ![h] = a]
      /\ saver' = [saver EXCEPT ![h] = saver[h]]
  <2>1. adapter' = [adapter EXCEPT ![h].goal = goal] /\ saver' = saver
    BY DEF Start
  <2> QED
    BY <1>1, <2>1 DEF TypeOK
<1>3. a \in Adapters /\ a.thread = adapter[h].thread /\ a.started = adapter[h].started
  BY <1>1, ThreadType DEF Adapters, Inputs
<1>4. saver[h] \in [0 .. MaxImports -> Threads]
  BY <1>1, ThreadType
<1>5. a.started <=> saver[h][a.thread] # NoThread
  BY <1>1, <1>3 DEF StartedHasThread, Thread
<1>6. \A n \in 0 .. MaxImports : n > a.thread => saver[h][n] = NoThread
  BY <1>1, <1>3 DEF FreshAhead
<1> HIDE DEF a
<1>7. /\ saver' \in [Hosts -> [0 .. MaxImports -> Threads]]
      /\ adapter' \in [Hosts -> Adapters]
      /\ FreshAhead' /\ StartedHasThread'
  BY <1>1, <1>2, <1>3, <1>4, <1>5, <1>6, OneHost
<1>8. image' = image
  BY DEF Start
<1>9. TypeOK' /\ Sourced'
  BY <1>7, <1>8 DEF IInv, TypeOK, Sourced
<1> QED
  BY <1>7, <1>9 DEF IInv

LEMMA StepIInv ==
    ASSUME Routed, IInv, NEW h \in Hosts, NEW raises \in BOOLEAN, Step(h, raises)
    PROVE  IInv'
<1> DEFINE a == adapter[h]
           b == [a EXCEPT !.started = TRUE]
           t == IF a.started THEN Thread(h) ELSE Given(GraphOf[h], a.goal)
           u == IF raises THEN t ELSE Ran(GraphOf[h], t)
           threads == [saver[h] EXCEPT ![a.thread] = u]
<1>1. TypeOK /\ FreshAhead /\ StartedHasThread
  BY DEF IInv
<1>2. a \in Adapters /\ a.thread \in 0 .. MaxImports /\ saver[h] \in [0 .. MaxImports -> Threads]
  BY <1>1, ThreadType
<1>3. t \in Threads /\ t # NoThread
  <2>1. a.goal \in Inputs
    BY <1>2 DEF Adapters
  <2> QED
    BY <1>1, <2>1, ThreadType, GivenType DEF StartedHasThread
<1>4. u \in Threads /\ u # NoThread
  <2>1. t.next \in GraphOf[h].nodes
    BY DEF Step
  <2> HIDE DEF t
  <2> QED
    BY <1>3, <2>1, RanType
<1>5. /\ adapter' = [adapter EXCEPT ![h] = b]
      /\ saver' = [saver EXCEPT ![h] = threads]
  <2>1. /\ adapter' = [adapter EXCEPT ![h].started = TRUE]
        /\ saver' = [saver EXCEPT ![h][a.thread] = u]
    BY DEF Step
  <2> HIDE DEF u
  <2> QED
    BY <1>1, <2>1 DEF TypeOK
<1> HIDE DEF u, t
<1>6. b \in Adapters /\ b.thread = a.thread /\ b.started = TRUE
  BY <1>2 DEF Adapters
<1> HIDE DEF b
<1>7. /\ threads \in [0 .. MaxImports -> Threads] /\ threads[a.thread] = u
      /\ \A n \in 0 .. MaxImports : n # a.thread => threads[n] = saver[h][n]
  BY <1>2, <1>4
<1>8. \A n \in 0 .. MaxImports : n > b.thread => threads[n] = NoThread
  <2>1. \A n \in 0 .. MaxImports : n > a.thread => n # a.thread /\ saver[h][n] = NoThread
    BY <1>1, <1>2 DEF FreshAhead
  <2> HIDE DEF threads, a
  <2> QED
    BY <1>6, <1>7, <2>1
<1> HIDE DEF threads
<1>9. /\ saver' \in [Hosts -> [0 .. MaxImports -> Threads]]
      /\ adapter' \in [Hosts -> Adapters]
      /\ FreshAhead' /\ StartedHasThread'
  BY <1>1, <1>4, <1>5, <1>6, <1>7, <1>8, OneHost
<1>10. image' = image
  BY DEF Step
<1>11. TypeOK' /\ Sourced'
  BY <1>9, <1>10 DEF IInv, TypeOK, Sourced
<1> QED
  BY <1>9, <1>11 DEF IInv

LEMMA ExportIInv ==
    ASSUME IInv, NEW h \in Hosts, Export(h)
    PROVE  IInv'
<1> DEFINE t == Thread(h)
           r == ResumeNode(GraphOf[h], t)
           v == [goal |-> t.goal, findings |-> t.findings, scratch |-> Jsonable(t.scratch)]
<1>1. t \in Threads /\ adapter[h].agent \in Agents /\ adapter[h].granted \in GrantSets
  BY ThreadType DEF IInv, Adapters, Agents
<1>2. v \in Values
  BY <1>1 DEF Threads, Values, Jsonable
<1>3. r \in GraphOf[h].nodes \cup {NoNode} /\ r \in Nodes \cup {NoNode}
  BY ResumeIn, NodesOf
<1>4. t.next \in Nodes \cup {END, NoNode} /\ t.step \in Nat
  BY <1>1 DEF Threads
<1> HIDE DEF r, v, t
<1>5. Document(h) =
         [agent |-> adapter[h].agent, granted |-> adapter[h].granted, hasValues |-> TRUE,
          graph |-> GraphOf[h], step |-> t.step, values |-> v,
          status |-> IF t.next \in GraphOf[h].nodes THEN "suspended" ELSE "completed",
          next |-> t.next, resume |-> r]
  BY DEF Document, t, v, r
<1>6. image' \in Documents /\ image'.graph = GraphOf[h] /\ image'.resume = r
  BY <1>1, <1>2, <1>3, <1>4, <1>5 DEF Export, Documents, Graphs
<1>7. saver' = saver /\ adapter' = adapter
  BY DEF Export
<1>8. FreshAhead' /\ StartedHasThread'
  BY <1>7 DEF IInv, FreshAhead, StartedHasThread, Thread
<1>9. TypeOK' /\ Sourced'
  BY <1>3, <1>6, <1>7 DEF IInv, TypeOK, Sourced
<1> QED
  BY <1>8, <1>9 DEF IInv

LEMMA MigrateIInv ==
    ASSUME IInv, NEW via \in Vias, NEW granted \in GrantSets, Migrate(via, granted)
    PROVE  IInv'
<1> DEFINE graph == IF via = "langgraph" THEN image.graph ELSE NoGraph
<1>1. image' = [image EXCEPT !.granted = granted, !.graph = graph]
  BY DEF Migrate
<1>2. image \in Foreigns \cup Documents /\ graph \in Graphs
  BY DEF IInv, TypeOK, Foreigns, Documents, Graphs
<1>3. ~(Vias \subseteq {"langgraph"}) \/ graph = image.graph
  OBVIOUS
<1> HIDE DEF graph
<1>4. /\ image' \in Foreigns \cup Documents /\ image'.hasValues = image.hasValues
      /\ image'.graph = graph
      /\ image.hasValues => image'.resume = image.resume
  BY <1>1, <1>2 DEF Foreigns, Documents
<1>5. saver' = saver /\ adapter' = adapter
  BY DEF Migrate
<1>6. FreshAhead' /\ StartedHasThread'
  BY <1>5 DEF IInv, FreshAhead, StartedHasThread, Thread
<1>7. Sourced'
  BY <1>3, <1>4 DEF IInv, Sourced
<1>8. TypeOK'
  BY <1>4, <1>5 DEF IInv, TypeOK
<1> QED
  BY <1>6, <1>7, <1>8 DEF IInv

\* What is accepted names a node of the graph that accepts it.
LEMMA AcceptedIsKnown ==
    ASSUME Known, IInv, NEW h \in Hosts, Accepts(h, image)
    PROVE  image \in Documents /\ image.resume \in GraphOf[h].nodes \cup {NoNode}
<1>1. image.hasValues = TRUE /\ image \in Documents
  BY DEF Accepts, IInv, TypeOK, Foreigns, Documents
<1>2. PICK g \in Hosts :
         /\ image.resume \in GraphOf[g].nodes \cup {NoNode}
         /\ image.graph = GraphOf[g] \/ ~(Vias \subseteq {"langgraph"})
  BY <1>1 DEF IInv, Sourced
<1>3. CASE Vias \subseteq {"langgraph"}
  <2>1. GraphOf[g] \in {NoGraph, GraphOf[h]}
    BY <1>2, <1>3 DEF Accepts
  <2>2. NoGraph.nodes = {}
    BY DEF NoGraph
  <2> QED
    BY <1>1, <1>2, <2>1, <2>2
<1>4. CASE \A f, k \in Hosts : GraphOf[f].nodes = GraphOf[k].nodes
  BY <1>1, <1>2, <1>4
<1> QED
  BY <1>3, <1>4 DEF Known

LEMMA ClearedType ==
    ASSUME IInv, NEW h \in Hosts, h \in Deleting \/ adapter[h].thread < MaxImports
    PROVE  LET empty == Cleared(h)
           IN /\ empty.threads \in [0 .. MaxImports -> Threads]
              /\ empty.thread \in 0 .. MaxImports
              /\ \A n \in 0 .. MaxImports : n >= empty.thread => empty.threads[n] = NoThread
              /\ h \in Deleting => empty.thread = adapter[h].thread
<1> DEFINE k == adapter[h].thread
<1>1. k \in 0 .. MaxImports /\ saver[h] \in [0 .. MaxImports -> Threads] /\ MaxImports \in Nat
  BY ThreadType, ImportsAssumption DEF IInv
<1>2. \A n \in 0 .. MaxImports : n > k => saver[h][n] = NoThread
  BY DEF IInv, FreshAhead
<1>3. CASE h \in Deleting
  <2> DEFINE threads == [saver[h] EXCEPT ![k] = NoThread]
  <2>1. Cleared(h) = [threads |-> threads, thread |-> k]
    BY <1>3 DEF Cleared
  <2>2. threads \in [0 .. MaxImports -> Threads]
    BY <1>1, NoThreadType
  <2>3. ASSUME NEW n \in 0 .. MaxImports, n >= k PROVE threads[n] = NoThread
    BY <1>1, <1>2, <2>3
  <2> HIDE DEF threads, k
  <2> QED
    BY <1>1, <2>1, <2>2, <2>3 DEF k
<1>4. CASE h \notin Deleting
  <2>1. Cleared(h) = [threads |-> saver[h], thread |-> k + 1]
    BY <1>4 DEF Cleared
  <2>2. k + 1 \in 0 .. MaxImports
    BY <1>1, <1>4
  <2>3. \A n \in 0 .. MaxImports : n >= k + 1 => n > k
    BY <1>1
  <2> HIDE DEF k
  <2> QED
    BY <1>1, <1>2, <1>4, <2>1, <2>2, <2>3
<1> QED
  BY <1>3, <1>4

LEMMA AppliedIInv ==
    ASSUME Routed, Known, IInv, NEW h \in Hosts,
           h \in Deleting \/ adapter[h].thread < MaxImports,
           Applied(h), image' = image
    PROVE  IInv'
<1> DEFINE empty == Cleared(h)
           n == empty.thread
           u == Updated(GraphOf[h], empty.threads[n], image.values, image.resume)
           threads == [empty.threads EXCEPT ![n] = u]
           b == Became(adapter[h], n, image)
<1>1. TypeOK /\ FreshAhead /\ StartedHasThread /\ adapter[h] \in Adapters
  BY ThreadType DEF IInv
<1>2. /\ empty.threads \in [0 .. MaxImports -> Threads] /\ n \in 0 .. MaxImports
      /\ \A k \in 0 .. MaxImports : k >= n => empty.threads[k] = NoThread
  BY ClearedType
<1>3. /\ image \in Documents /\ image.resume \in GraphOf[h].nodes \cup {NoNode}
      /\ image.values \in Values /\ image.agent \in Agents /\ image.granted \in GrantSets
  BY AcceptedIsKnown DEF Applied, Documents
<1>4. /\ saver' = [saver EXCEPT ![h] = threads]
      /\ adapter' = [adapter EXCEPT ![h] = b]
  BY DEF Applied
<1> HIDE DEF empty
<1>5. u \in Threads /\ u # NoThread
  <2>1. empty.threads[n] \in Threads
    BY <1>2
  <2> QED
    BY <1>3, <2>1, UpdatedType
<1> HIDE DEF u, n
<1>6. b \in Adapters /\ b.thread = n /\ b.started = TRUE
  <2>1. b = [adapter[h] EXCEPT !.thread = n, !.started = TRUE, !.agent = image.agent,
                              !.granted = image.granted]
    BY DEF Became
  <2> HIDE DEF b
  <2> QED
    BY <1>1, <1>2, <1>3, <2>1 DEF Adapters, Agents
<1> HIDE DEF b
<1>7. /\ threads \in [0 .. MaxImports -> Threads] /\ threads[n] = u
      /\ \A k \in 0 .. MaxImports : k # n => threads[k] = empty.threads[k]
  BY <1>2, <1>5
<1> HIDE DEF threads
<1>8. \A k \in 0 .. MaxImports : k > b.thread => threads[k] = NoThread
  <2>1. \A k \in 0 .. MaxImports : k > n => k >= n /\ k # n
    BY <1>2
  <2> QED
    BY <1>2, <1>6, <1>7, <2>1
<1>9. /\ saver' \in [Hosts -> [0 .. MaxImports -> Threads]]
      /\ adapter' \in [Hosts -> Adapters]
      /\ FreshAhead' /\ StartedHasThread'
  BY <1>1, <1>4, <1>5, <1>6, <1>7, <1>8, OneHost
<1>10. TypeOK' /\ Sourced'
  BY <1>9 DEF IInv, TypeOK, Sourced
<1> QED
  BY <1>9, <1>10 DEF IInv

LEMMA RefusedIInv ==
    ASSUME IInv, NEW h \in Hosts, Refused(h), image' = image
    PROVE  IInv'
<1>1. saver' = saver /\ adapter' = adapter
  BY DEF Refused
<1> QED
  BY <1>1 DEF IInv, FreshAhead, StartedHasThread, Thread, TypeOK, Sourced

LEMMA NextIInv ==
    ASSUME Routed, Known
    PROVE  IInv /\ [Next]_vars => IInv'
<1> SUFFICES ASSUME IInv, [Next]_vars PROVE IInv'
  OBVIOUS
<1>1. ASSUME NEW h \in Hosts, NEW goal \in Goals[h], Start(h, goal) PROVE IInv'
  BY <1>1, StartIInv
<1>2. ASSUME NEW h \in Hosts, NEW raises \in BOOLEAN, Step(h, raises) PROVE IInv'
  BY <1>2, StepIInv
<1>3. ASSUME NEW h \in Hosts, Export(h) PROVE IInv'
  BY <1>3, ExportIInv
<1>4. ASSUME NEW h \in Hosts, Import(h) PROVE IInv'
  <2>1. (h \in Deleting \/ adapter[h].thread < MaxImports) /\ image' = image
    BY <1>4 DEF Import
  <2>2. CASE Refused(h)
    BY <2>1, <2>2, RefusedIInv
  <2>3. ~Broken(h)
    BY AcceptedIsKnown DEF Broken
  <2>4. CASE Applied(h)
    BY <2>1, <2>4, AppliedIInv
  <2> QED
    BY <1>4, <2>2, <2>3, <2>4 DEF Import
<1>5. ASSUME NEW via \in Vias, NEW granted \in GrantSets, Migrate(via, granted) PROVE IInv'
  BY <1>5, MigrateIInv
<1>6. CASE UNCHANGED vars
  <2>1. saver' = saver /\ adapter' = adapter /\ image' = image
    BY <1>6 DEF vars
  <2> QED
    BY <2>1 DEF IInv, FreshAhead, StartedHasThread, Thread, TypeOK, Sourced
<1> QED
  BY <1>1, <1>2, <1>3, <1>4, <1>5, <1>6 DEF Next

-----------------------------------------------------------------------------
(* The theorems *)

\* The inductive invariant: types, where a document in transit comes from, and
\* that the fallback threads still to be taken are empty.
THEOREM AdapterInvariant ==
    ASSUME Routed, Known
    PROVE  Spec => []IInv
BY InitIInv, NextIInv, PTL DEF Spec

\* StartedHasThread: a runtime is started exactly when its thread exists,
\* whatever it runs, exports, imports or refuses.
THEOREM StartedRuntimesHaveThreads ==
    ASSUME Routed, Known
    PROVE  Spec => []StartedHasThread
<1>1. IInv => StartedHasThread
  BY DEF IInv
<1> QED
  BY <1>1, AdapterInvariant, PTL

-----------------------------------------------------------------------------
(* Resuming at the frontier *)

\* The routers of a node's predecessors agree on when to go there: a node has
\* one predecessor, or edges without a condition join in it.
Agreeing ==
    \A h \in Hosts, goal \in Inputs, findings \in Findings : \A d, e \in GraphOf[h].edges :
        /\ d[2] = e[2] /\ d[2] # END
        /\ Route(GraphOf[h], d[1], goal, findings) = d[2]
        => Route(GraphOf[h], e[1], goal, findings) = d[2]

\* What ran last, or the input, has led to the frontier of a thread.
Led(g, t) ==
    \E p \in (t.seen \cap g.nodes) \cup {START} :
        Route(g, p, t.goal, t.findings) = t.next

\* What export_state says of a thread.
Shows(doc, g, t) ==
    /\ doc.values = [goal |-> t.goal, findings |-> t.findings, scratch |-> Jsonable(t.scratch)]
    /\ doc.status = IF t.next \in g.nodes THEN "suspended" ELSE "completed"
    /\ doc.next = t.next
    /\ doc.resume = ResumeNode(g, t)

ThreadsLed ==
    \A h \in Hosts : \A n \in 0 .. MaxImports :
        saver[h][n] # NoThread => Led(GraphOf[h], saver[h][n])

Origin ==
    image.hasValues =>
        \E g \in Hosts, t \in Threads :
            /\ t = NoThread \/ Led(GraphOf[g], t)
            /\ image.graph \in {NoGraph, GraphOf[g]}
            /\ Shows(image, GraphOf[g], t)

LEMMA NotNoGraph ==
    ASSUME Routed
    PROVE  \A h \in Hosts : GraphOf[h] # NoGraph
<1> SUFFICES ASSUME NEW h \in Hosts, GraphOf[h] = NoGraph PROVE FALSE
  OBVIOUS
<1>1. \E r : <<START, r>> \in GraphOf[h].edges
  <2>1. NoGoal \in Inputs /\ <<>> \in Findings
    BY DEF Inputs, Findings
  <2> QED
    BY <2>1 DEF Routed
<1>2. GraphOf[h].edges = {}
  BY DEF NoGraph
<1> QED
  BY <1>1, <1>2

\* Whatever predecessor is impersonated, its router leads to the frontier.
LEMMA Resumes ==
    ASSUME Routed, Agreeing, NEW h \in Hosts, NEW t \in Threads, Led(GraphOf[h], t),
           t.next \in GraphOf[h].nodes
    PROVE  LET r == ResumeNode(GraphOf[h], t)
           IN Route(GraphOf[h], IF r = NoNode THEN START ELSE r, t.goal, t.findings) = t.next
<1> DEFINE G == GraphOf[h]
           r == ResumeNode(G, t)
           before == Predecessors(G, t.next)
           ran == before \cap t.seen
<1>1. PICK p \in (t.seen \cap G.nodes) \cup {START} : Route(G, p, t.goal, t.findings) = t.next
  BY DEF Led
<1>0. t.goal \in Inputs /\ t.findings \in Findings
  BY DEF Threads
<1>2. <<p, t.next>> \in G.edges
  BY <1>0, <1>1 DEF Routed
<1>3. t.next # END
  BY GraphsAssumption
<1>4. ASSUME NEW q, <<q, t.next>> \in G.edges
      PROVE  Route(G, q, t.goal, t.findings) = t.next
  <2> DEFINE d == <<p, t.next>>
             e == <<q, t.next>>
  <2>1. d \in G.edges /\ e \in G.edges /\ d[1] = p /\ d[2] = t.next /\ e[1] = q /\ e[2] = t.next
    BY <1>2, <1>4
  <2> HIDE DEF d, e, G
  <2>2. Route(G, d[1], t.goal, t.findings) = d[2]
    BY <1>1, <2>1
  <2> USE DEF G
  <2>3. Route(GraphOf[h], e[1], t.goal, t.findings) = d[2]
    BY <1>0, <1>3, <2>1, <2>2 DEF Agreeing
  <2> QED
    BY <2>1, <2>3
<1>5. \A q \in before : <<q, t.next>> \in G.edges /\ q # NoNode
  <2> SUFFICES ASSUME NEW q \in before PROVE <<q, t.next>> \in G.edges /\ q # NoNode
    OBVIOUS
  <2>1. PICK e \in G.edges : e[2] = t.next /\ e[1] = q
    BY DEF Predecessors
  <2>2. e = <<e[1], e[2]>>
    BY <2>1, GraphsAssumption
  <2>3. q \in G.nodes
    BY PredecessorsIn
  <2> QED
    BY <2>1, <2>2, <2>3, GraphsAssumption
<1>6. p # START => p \in ran
  <2> SUFFICES ASSUME p # START PROVE p \in ran
    OBVIOUS
  <2>1. p \in {e[1] : e \in {d \in G.edges : d[2] = t.next}}
    BY <1>2
  <2> QED
    BY <1>1, <2>1 DEF Predecessors
<1>7. ran # {} => LastByName(ran) \in ran
  <2>1. ran \in SUBSET Range(Alphabet)
    BY PredecessorsIn, GraphsAssumption
  <2> HIDE DEF ran
  <2> QED
    BY <2>1, LastIsOne
<1>8. before # {} => (CHOOSE q \in before : TRUE) \in before
  OBVIOUS
<1>9. r \in before \/ (r = NoNode /\ ran = {})
  <2>1. ran \subseteq before
    OBVIOUS
  <2> HIDE DEF before
  <2> QED
    BY <1>7, <1>8, <2>1 DEF ResumeNode, before
<1> HIDE DEF ran, before, r
<1>10. CASE r \in before
  BY <1>4, <1>5, <1>10 DEF r
<1>11. CASE r = NoNode /\ ran = {}
  <2>1. p = START
    BY <1>6, <1>11
  <2> QED
    BY <1>1, <1>11, <2>1 DEF r
<1> QED
  BY <1>9, <1>10, <1>11

\* A thread written by an input, a node or an import is led to.
LEMMA GivenLed ==
    ASSUME NEW h \in Hosts, NEW goal
    PROVE  Led(GraphOf[h], Given(GraphOf[h], goal))
BY DEF Led, Given, NoThread

LEMMA RanLed ==
    ASSUME NEW h \in Hosts, NEW t, t.next \in GraphOf[h].nodes
    PROVE  Led(GraphOf[h], Ran(GraphOf[h], t))
BY DEF Led, Ran

LEMMA UpdatedLed ==
    ASSUME NEW h \in Hosts, NEW t, NEW values, NEW node \in GraphOf[h].nodes \cup {NoNode}
    PROVE  Led(GraphOf[h], Updated(GraphOf[h], t, values, node))
BY GraphsAssumption DEF Led, Updated

\* The one thread a step writes, and the one an import writes.
StepWrites(h, raises, t) ==
    /\ t \in Threads /\ t.next \in GraphOf[h].nodes
    /\ \/ t = Given(GraphOf[h], adapter[h].goal)
       \/ t # NoThread /\ t = saver[h][adapter[h].thread]
    /\ saver' = [saver EXCEPT ![h] = [saver[h] EXCEPT ![adapter[h].thread] =
                    IF raises THEN t ELSE Ran(GraphOf[h], t)]]

ImportWrites(h, threads, n) ==
    /\ n \in 0 .. MaxImports /\ threads \in [0 .. MaxImports -> Threads]
    /\ \A k \in 0 .. MaxImports : threads[k] \in {NoThread, saver[h][k]}
    /\ saver' = [saver EXCEPT ![h] = [threads EXCEPT ![n] =
                    Updated(GraphOf[h], NoThread, image.values, image.resume)]]
    /\ adapter' = [adapter EXCEPT ![h] = Became(adapter[h], n, image)]

LEMMA StepFacts ==
    ASSUME Routed, IInv, NEW h \in Hosts, NEW raises \in BOOLEAN, Step(h, raises)
    PROVE  \E t : StepWrites(h, raises, t)
<1> DEFINE a == adapter[h]
           t == IF a.started THEN Thread(h) ELSE Given(GraphOf[h], a.goal)
           u == IF raises THEN t ELSE Ran(GraphOf[h], t)
<1>1. TypeOK /\ StartedHasThread /\ a \in Adapters
  BY ThreadType DEF IInv
<1>2. t \in Threads
  <2>1. a.goal \in Inputs
    BY <1>1 DEF Adapters
  <2> QED
    BY <1>1, <2>1, ThreadType, GivenType
<1>3. t.next \in GraphOf[h].nodes
  BY DEF Step
<1>4. t = Given(GraphOf[h], adapter[h].goal) \/ (t # NoThread /\ t = saver[h][adapter[h].thread])
  BY <1>1 DEF StartedHasThread, Thread
<1>5. saver' = [saver EXCEPT ![h] = [saver[h] EXCEPT ![a.thread] = u]]
  <2>1. saver' = [saver EXCEPT ![h][a.thread] = u]
    BY DEF Step
  <2> HIDE DEF u
  <2> QED
    BY <1>1, <2>1 DEF TypeOK
<1> HIDE DEF t
<1>6. StepWrites(h, raises, t)
  BY <1>2, <1>3, <1>4, <1>5 DEF StepWrites
<1> QED
  BY <1>6

LEMMA ImportFacts ==
    ASSUME IInv, NEW h \in Hosts,
           h \in Deleting \/ adapter[h].thread < MaxImports, Applied(h)
    PROVE  \E threads, n : ImportWrites(h, threads, n)
<1> DEFINE threads == Cleared(h).threads
           n == Cleared(h).thread
<1>1. /\ n \in 0 .. MaxImports /\ threads \in [0 .. MaxImports -> Threads]
      /\ \A k \in 0 .. MaxImports : k >= n => threads[k] = NoThread
  BY ClearedType
<1>2. threads[n] = NoThread
  <2>1. n >= n
    BY <1>1
  <2> QED
    BY <1>1, <2>1
<1>3. \A k \in 0 .. MaxImports : threads[k] \in {NoThread, saver[h][k]}
  <2>1. saver[h] \in [0 .. MaxImports -> Threads]
    BY ThreadType DEF IInv
  <2> QED
    BY <2>1 DEF Cleared
<1>4. /\ saver' = [saver EXCEPT ![h] = [threads EXCEPT ![n] =
             Updated(GraphOf[h], threads[n], image.values, image.resume)]]
      /\ adapter' = [adapter EXCEPT ![h] = Became(adapter[h], n, image)]
  BY DEF Applied
<1> HIDE DEF threads, n
<1>5. ImportWrites(h, threads, n)
  BY <1>1, <1>2, <1>3, <1>4 DEF ImportWrites
<1> QED
  BY <1>5

\* What holds of every thread holds again if it does for the one written.
LEMMA StepKeeps ==
    ASSUME TypeOK, NEW S, \A g \in Hosts : \A k \in 0 .. MaxImports : saver[g][k] \in S[g],
           NEW h \in Hosts, NEW raises \in BOOLEAN, NEW t, StepWrites(h, raises, t),
           (IF raises THEN t ELSE Ran(GraphOf[h], t)) \in S[h]
    PROVE  \A g \in Hosts : \A k \in 0 .. MaxImports : saver'[g][k] \in S[g]
<1> DEFINE u == IF raises THEN t ELSE Ran(GraphOf[h], t)
<1>1. saver' = [saver EXCEPT ![h] = [saver[h] EXCEPT ![adapter[h].thread] = u]]
  BY DEF StepWrites
<1>2. saver \in [Hosts -> [0 .. MaxImports -> Threads]] /\ u \in S[h]
  BY DEF TypeOK
<1> HIDE DEF u
<1>3. ASSUME NEW g \in Hosts, NEW k \in 0 .. MaxImports PROVE saver'[g][k] \in S[g]
  <2>1. CASE g # h
    BY <1>1, <1>2, <2>1
  <2>2. CASE g = h
    BY <1>1, <1>2, <2>2
  <2> QED
    BY <2>1, <2>2
<1> QED
  BY <1>3

LEMMA ImportKeeps ==
    ASSUME TypeOK, NEW S, \A g \in Hosts : \A k \in 0 .. MaxImports : saver[g][k] \in S[g],
           NEW h \in Hosts, NEW threads, NEW n, ImportWrites(h, threads, n), NoThread \in S[h],
           Updated(GraphOf[h], NoThread, image.values, image.resume) \in S[h]
    PROVE  \A g \in Hosts : \A k \in 0 .. MaxImports : saver'[g][k] \in S[g]
<1> DEFINE u == Updated(GraphOf[h], NoThread, image.values, image.resume)
<1>1. /\ saver' = [saver EXCEPT ![h] = [threads EXCEPT ![n] = u]]
      /\ threads \in [0 .. MaxImports -> Threads]
      /\ \A k \in 0 .. MaxImports : threads[k] \in {NoThread, saver[h][k]}
  BY DEF ImportWrites
<1>2. saver \in [Hosts -> [0 .. MaxImports -> Threads]] /\ u \in S[h]
  BY DEF TypeOK
<1> HIDE DEF u
<1>3. ASSUME NEW g \in Hosts, NEW k \in 0 .. MaxImports PROVE saver'[g][k] \in S[g]
  <2>1. CASE g # h
    BY <1>1, <1>2, <2>1
  <2>2. CASE g = h
    <3>1. threads[k] \in S[g]
      BY <1>1, <2>2
    <3> QED
      BY <1>1, <1>2, <2>2, <3>1
  <2> QED
    BY <2>1, <2>2
<1> QED
  BY <1>3

Resumable == ThreadsLed /\ Origin

LedThreads == [h \in Hosts |-> {t \in Threads : t # NoThread => Led(GraphOf[h], t)}]

LEMMA LedIs ==
    ASSUME TypeOK
    PROVE  ThreadsLed <=> \A h \in Hosts : \A n \in 0 .. MaxImports : saver[h][n] \in LedThreads[h]
BY DEF ThreadsLed, TypeOK, LedThreads

LEMMA InitResumable == Init => Resumable
<1> SUFFICES ASSUME Init PROVE Resumable
  OBVIOUS
<1>1. image.hasValues = FALSE /\ \A h \in Hosts : \A n \in 0 .. MaxImports : saver[h][n] = NoThread
  BY DEF Init, Foreign
<1> QED
  BY <1>1 DEF Resumable, ThreadsLed, Origin

LEMMA NextResumable ==
    ASSUME Routed, Known
    PROVE  IInv /\ Resumable /\ [Next]_vars => Resumable'
<1> SUFFICES ASSUME IInv, Resumable, [Next]_vars PROVE Resumable'
  OBVIOUS
<1>1. TypeOK /\ TypeOK' /\ ThreadsLed /\ Origin
  BY NextIInv DEF IInv, Resumable
<1>2. \A h \in Hosts : \A n \in 0 .. MaxImports : saver[h][n] \in LedThreads[h]
  BY <1>1, LedIs
<1>3. \A h \in Hosts : NoThread \in LedThreads[h]
  BY NoThreadType DEF LedThreads
<1>4. ASSUME \A h \in Hosts : \A n \in 0 .. MaxImports : saver'[h][n] \in LedThreads[h]
      PROVE  ThreadsLed'
  BY <1>1, <1>4 DEF ThreadsLed, LedThreads
<1>5. ASSUME NEW h \in Hosts, NEW goal \in Goals[h], Start(h, goal) PROVE Resumable'
  <2>1. saver' = saver /\ image' = image
    BY <1>5 DEF Start
  <2> QED
    BY <1>1, <2>1 DEF Resumable, ThreadsLed, Origin
<1>6. ASSUME NEW h \in Hosts, NEW raises \in BOOLEAN, Step(h, raises) PROVE Resumable'
  <2>1. PICK t : StepWrites(h, raises, t)
    BY <1>6, StepFacts
  <2> DEFINE u == IF raises THEN t ELSE Ran(GraphOf[h], t)
  <2>2. t \in Threads /\ t.next \in GraphOf[h].nodes
    BY <2>1 DEF StepWrites
  <2>3. Led(GraphOf[h], t)
    <3>1. adapter[h].thread \in 0 .. MaxImports
      BY <1>1, ThreadType
    <3> QED
      BY <1>1, <2>1, <3>1, GivenLed DEF StepWrites, ThreadsLed
  <2>4. u \in LedThreads[h]
    BY <2>2, <2>3, RanType, RanLed DEF LedThreads
  <2>5. \A g \in Hosts : \A n \in 0 .. MaxImports : saver'[g][n] \in LedThreads[g]
    BY <1>1, <1>2, <2>1, <2>4, StepKeeps
  <2>6. ThreadsLed'
    BY <1>4, <2>5
  <2>7. image' = image
    BY <1>6 DEF Step
  <2> QED
    BY <1>1, <2>6, <2>7 DEF Resumable, Origin
<1>7. ASSUME NEW h \in Hosts, Export(h) PROVE Resumable'
  <2> DEFINE t == Thread(h)
             G == GraphOf[h]
  <2>1. saver' = saver /\ image' = Document(h)
    BY <1>7 DEF Export
  <2>2. t \in Threads /\ (t = NoThread \/ Led(G, t))
    BY <1>1, ThreadType DEF ThreadsLed, Thread
  <2> HIDE DEF t
  <2>3. Shows(image', G, t) /\ image'.graph = G
    BY <2>1 DEF Shows, Document, t
  <2>4. Origin'
    BY <2>2, <2>3 DEF Origin
  <2> QED
    BY <1>1, <2>1, <2>4 DEF Resumable, ThreadsLed
<1>8. ASSUME NEW h \in Hosts, Import(h) PROVE Resumable'
  <2>1. (h \in Deleting \/ adapter[h].thread < MaxImports) /\ image' = image
    BY <1>8 DEF Import
  <2>2. Origin'
    BY <1>1, <2>1 DEF Origin
  <2>3. CASE Refused(h)
    <3>1. saver' = saver
      BY <2>3 DEF Refused
    <3> QED
      BY <1>1, <2>2, <3>1 DEF Resumable, ThreadsLed
  <2>4. ~Broken(h)
    BY AcceptedIsKnown DEF Broken
  <2>5. CASE Applied(h)
    <3> DEFINE u == Updated(GraphOf[h], NoThread, image.values, image.resume)
    <3>1. PICK threads, n : ImportWrites(h, threads, n)
      BY <2>1, <2>5, ImportFacts
    <3>2. image.values \in Values /\ image.resume \in GraphOf[h].nodes \cup {NoNode}
      BY <2>5, AcceptedIsKnown DEF Applied, Documents
    <3>3. u \in LedThreads[h]
      <4>1. u \in Threads /\ Led(GraphOf[h], u)
        BY <3>2, NoThreadType, UpdatedType, UpdatedLed
      <4> QED
        BY <4>1 DEF LedThreads
    <3>4. \A g \in Hosts : \A k \in 0 .. MaxImports : saver'[g][k] \in LedThreads[g]
      BY <1>1, <1>2, <1>3, <3>1, <3>3, ImportKeeps
    <3> QED
      BY <1>4, <2>2, <3>4 DEF Resumable
  <2> QED
    BY <1>8, <2>3, <2>4, <2>5 DEF Import
<1>9. ASSUME NEW via \in Vias, NEW granted \in GrantSets, Migrate(via, granted) PROVE Resumable'
  <2> DEFINE graph == IF via = "langgraph" THEN image.graph ELSE NoGraph
  <2>1. /\ saver' = saver
        /\ image' = [image EXCEPT !.granted = granted, !.graph = graph]
    BY <1>9 DEF Migrate
  <2>2. image \in Foreigns \cup Documents /\ graph \in {NoGraph, image.graph}
    BY <1>1 DEF TypeOK
  <2> HIDE DEF graph
  <2>3. /\ image'.hasValues = image.hasValues
        /\ image'.graph = graph
        /\ image.hasValues => \A g, t : Shows(image, g, t) => Shows(image', g, t)
    BY <2>1, <2>2 DEF Foreigns, Documents, Shows
  <2>4. Origin'
    BY <1>1, <2>2, <2>3 DEF Origin
  <2> QED
    BY <1>1, <2>1, <2>4 DEF Resumable, ThreadsLed
<1>10. CASE UNCHANGED vars
  <2>1. saver' = saver /\ image' = image
    BY <1>10 DEF vars
  <2> QED
    BY <1>1, <2>1 DEF Resumable, ThreadsLed, Origin
<1> QED
  BY <1>5, <1>6, <1>7, <1>8, <1>9, <1>10 DEF Next

-----------------------------------------------------------------------------
(* The round trip *)

LEMMA EmptyBefore ==
    ASSUME NEW E, NEW f \in Seq(E)
    PROVE  <<>> \o f = f
OBVIOUS

\* The thread that an import leaves.
LEMMA ImportedThread ==
    ASSUME TypeOK, NEW h \in Hosts, NEW threads, NEW n, ImportWrites(h, threads, n),
           image \in Documents, image.resume \in GraphOf[h].nodes \cup {NoNode}
    PROVE  LET node == IF image.resume = NoNode THEN START ELSE image.resume
               next == Route(GraphOf[h], node, image.values.goal, image.values.findings)
           IN /\ Thread(h)' = Updated(GraphOf[h], NoThread, image.values, image.resume)
              /\ Thread(h)' = [goal |-> image.values.goal, findings |-> image.values.findings,
                               scratch |-> image.values.scratch, next |-> next,
                               seen |-> {image.resume} \ {NoNode}, step |-> 0]
              /\ adapter'[h].agent = image.agent /\ adapter'[h].granted = image.granted
<1> DEFINE v == image.values
           u == Updated(GraphOf[h], NoThread, v, image.resume)
           node == IF image.resume = NoNode THEN START ELSE image.resume
           next == Route(GraphOf[h], node, v.goal, v.findings)
           moved == [threads EXCEPT ![n] = u]
           b == Became(adapter[h], n, image)
<1>1. /\ saver' = [saver EXCEPT ![h] = moved]
      /\ adapter' = [adapter EXCEPT ![h] = b]
      /\ n \in 0 .. MaxImports /\ threads \in [0 .. MaxImports -> Threads]
  BY DEF ImportWrites
<1>2. saver \in [Hosts -> [0 .. MaxImports -> Threads]] /\ adapter \in [Hosts -> Adapters]
      /\ adapter[h] \in Adapters
  BY DEF TypeOK
<1>3. b.thread = n /\ b.agent = image.agent /\ b.granted = image.granted
  BY <1>2 DEF Became, Adapters
<1>4. moved[n] = u
  BY <1>1
<1>5. <<>> \o v.findings = v.findings
  <2>1. v.findings \in Seq(Nodes)
    BY DEF Documents, Values, Findings
  <2> QED
    BY <2>1, EmptyBefore
<1>6. u = [goal |-> v.goal, findings |-> v.findings, scratch |-> v.scratch, next |-> next,
           seen |-> {image.resume} \ {NoNode}, step |-> 0]
  <2>1. NoThread.findings = <<>> /\ NoThread.seen = {}
    BY DEF NoThread
  <2> HIDE DEF v
  <2>2. u = [goal |-> v.goal, findings |-> NoThread.findings \o v.findings,
             scratch |-> v.scratch,
             next |-> Route(GraphOf[h], node, v.goal, NoThread.findings \o v.findings),
             seen |-> NoThread.seen \cup ({image.resume} \ {NoNode}), step |-> 0]
    BY DEF Updated
  <2>3. NoThread.findings \o v.findings = v.findings
    BY <1>5, <2>1
  <2> HIDE DEF u
  <2>4. NoThread.seen \cup ({image.resume} \ {NoNode}) = {image.resume} \ {NoNode}
    BY <2>1
  <2> QED
    BY <2>2, <2>3, <2>4
<1> HIDE DEF u, moved, b
<1>7. Thread(h)' = u /\ adapter'[h].agent = image.agent /\ adapter'[h].granted = image.granted
  BY <1>1, <1>2, <1>3, <1>4 DEF Thread
<1> QED
  BY <1>6, <1>7 DEF u

LEMMA ResumesAgain ==
    ASSUME NEW h \in Hosts, NEW t, NEW u,
           u.next = t.next, u.seen = {ResumeNode(GraphOf[h], t)} \ {NoNode}
    PROVE  ResumeNode(GraphOf[h], u) = ResumeNode(GraphOf[h], t)
<1> DEFINE G == GraphOf[h]
           r == ResumeNode(G, t)
           before == Predecessors(G, t.next)
           ran == before \cap t.seen
<1>1. before \subseteq G.nodes /\ NoNode \notin before
  BY PredecessorsIn, GraphsAssumption
<1>2. CASE t.next \notin G.nodes \/ before = {} \/ Cardinality(before) = 1
  BY <1>2 DEF ResumeNode
<1>3. CASE ~(t.next \notin G.nodes \/ before = {} \/ Cardinality(before) = 1)
  <2>1. /\ r = IF ran = {} THEN NoNode ELSE LastByName(ran)
        /\ ResumeNode(G, u) = IF before \cap u.seen = {} THEN NoNode
                              ELSE LastByName(before \cap u.seen)
    BY <1>3 DEF ResumeNode
  <2>2. CASE ran = {}
    <3>1. r = NoNode
      BY <2>1, <2>2
    <3>2. u.seen = {}
      BY <3>1
    <3> QED
      BY <2>1, <3>1, <3>2
  <2>3. CASE ran # {}
    <3>1. ran \in SUBSET Range(Alphabet)
      BY <1>1, GraphsAssumption
    <3>2. LastByName(ran) \in ran
      <4> HIDE DEF ran
      <4> QED
        BY <2>3, <3>1, LastIsOne
    <3>3. r \in before /\ r # NoNode
      BY <1>1, <2>1, <2>3, <3>2
    <3>4. before \cap u.seen = {r}
      BY <3>3
    <3>5. {r} \in SUBSET Range(Alphabet)
      BY <1>1, <3>3, GraphsAssumption
    <3> HIDE DEF r
    <3>6. LastByName({r}) \in {r}
      BY <3>5, LastIsOne
    <3> QED
      BY <2>1, <3>4, <3>6 DEF r
  <2> QED
    BY <2>2, <2>3
<1> QED
  BY <1>2, <1>3

\* An import of a suspended state keeps the frontier.
LEMMA FrontierKept ==
    ASSUME Routed, Agreeing, Origin, image \in Documents, NEW h \in Hosts,
           image.graph = GraphOf[h], image.next \in GraphOf[h].nodes
    PROVE  LET node == IF image.resume = NoNode THEN START ELSE image.resume
           IN Route(GraphOf[h], node, image.values.goal, image.values.findings) = image.next
<1>1. PICK g \in Hosts, t \in Threads :
         /\ t = NoThread \/ Led(GraphOf[g], t)
         /\ image.graph \in {NoGraph, GraphOf[g]}
         /\ Shows(image, GraphOf[g], t)
  BY DEF Origin, Documents
<1>2. GraphOf[g] = GraphOf[h]
  BY <1>1, NotNoGraph
<1>3. /\ image.values.goal = t.goal /\ image.values.findings = t.findings
      /\ image.next = t.next /\ image.resume = ResumeNode(GraphOf[h], t)
  BY <1>1, <1>2 DEF Shows
<1>4. t # NoThread
  <2>1. NoThread.next = NoNode /\ NoNode \notin GraphOf[h].nodes
    BY GraphsAssumption DEF NoThread
  <2> QED
    BY <1>3, <2>1
<1>5. Led(GraphOf[h], t)
  BY <1>1, <1>2, <1>4
<1> QED
  BY <1>3, <1>5, Resumes

LEMMA AppliedRoundTrip ==
    ASSUME Routed, Known, Agreeing, IInv, Resumable, NEW h \in Hosts,
           h \in Deleting \/ adapter[h].thread < MaxImports,
           Applied(h), image.status = "suspended", image.graph = GraphOf[h]
    PROVE  Document(h)' = [image EXCEPT !.step = 0]
<1>1. TypeOK /\ Origin
  BY DEF IInv, Resumable
<1>2. PICK threads, n : ImportWrites(h, threads, n)
  BY ImportFacts
<1>3. /\ image \in Documents /\ image.resume \in GraphOf[h].nodes \cup {NoNode}
  BY AcceptedIsKnown DEF Applied
<1>4. PICK g \in Hosts, t \in Threads :
         image.graph \in {NoGraph, GraphOf[g]} /\ Shows(image, GraphOf[g], t)
  BY <1>1, <1>3 DEF Origin, Documents
<1>5. GraphOf[g] = GraphOf[h]
  BY <1>4, NotNoGraph
<1>6. /\ image.values = [goal |-> t.goal, findings |-> t.findings,
                         scratch |-> Jsonable(t.scratch)]
      /\ t.next \in GraphOf[h].nodes /\ image.next = t.next
      /\ image.resume = ResumeNode(GraphOf[h], t)
  BY <1>4, <1>5 DEF Shows
<1> DEFINE u == Thread(h)'
<1>7. /\ u.goal = image.values.goal /\ u.findings = image.values.findings
      /\ u.scratch = image.values.scratch /\ u.next = image.next
      /\ u.seen = {image.resume} \ {NoNode} /\ u.step = 0
      /\ adapter'[h].agent = image.agent /\ adapter'[h].granted = image.granted
  <2>1. LET node == IF image.resume = NoNode THEN START ELSE image.resume
        IN Route(GraphOf[h], node, image.values.goal, image.values.findings) = image.next
    BY <1>1, <1>3, <1>6, FrontierKept
  <2> HIDE DEF u
  <2> QED
    BY <1>1, <1>2, <1>3, <2>1, ImportedThread DEF u
<1>8. ResumeNode(GraphOf[h], u) = image.resume
  <2> HIDE DEF u
  <2> QED
    BY <1>6, <1>7, ResumesAgain
<1>9. Jsonable(u.scratch) = image.values.scratch
  BY <1>6, <1>7 DEF Jsonable
<1>10. Document(h)' =
          [agent |-> adapter'[h].agent, granted |-> adapter'[h].granted, hasValues |-> TRUE,
           graph |-> GraphOf[h], step |-> u.step,
           values |-> [goal |-> u.goal, findings |-> u.findings,
                       scratch |-> Jsonable(u.scratch)],
           status |-> IF u.next \in GraphOf[h].nodes THEN "suspended" ELSE "completed",
           next |-> u.next, resume |-> ResumeNode(GraphOf[h], u)]
  BY DEF Document
<1> HIDE DEF u
<1>11. [goal |-> u.goal, findings |-> u.findings, scratch |-> Jsonable(u.scratch)]
          = image.values
  BY <1>6, <1>7, <1>9
<1>12. Document(h)' =
          [agent |-> image.agent, granted |-> image.granted, hasValues |-> image.hasValues,
           graph |-> image.graph, step |-> 0, values |-> image.values,
           status |-> image.status,
           next |-> image.next, resume |-> image.resume]
  BY <1>3, <1>6, <1>7, <1>8, <1>10, <1>11 DEF Documents
<1> QED
  BY <1>3, <1>12 DEF Documents

LEMMA InitRoundTrip == Init => RoundTripIsFixedPoint
BY DEF Init, NoImport, RoundTripIsFixedPoint

LEMMA NextRoundTrip ==
    ASSUME Routed, Known, Agreeing
    PROVE  IInv /\ Resumable /\ RoundTripIsFixedPoint /\ [Next]_vars => RoundTripIsFixedPoint'
<1> SUFFICES ASSUME IInv, Resumable, RoundTripIsFixedPoint, [Next]_vars
             PROVE  RoundTripIsFixedPoint'
  OBVIOUS
<1>1. ASSUME last' = NoImport PROVE RoundTripIsFixedPoint'
  BY <1>1 DEF RoundTripIsFixedPoint, NoImport
<1>2. ASSUME NEW h \in Hosts, Import(h) PROVE RoundTripIsFixedPoint'
  <2>1. (h \in Deleting \/ adapter[h].thread < MaxImports) /\ image' = image
    BY <1>2 DEF Import
  <2>2. CASE Refused(h)
    BY <2>2 DEF Refused, Record, RoundTripIsFixedPoint
  <2>3. ~Broken(h)
    BY AcceptedIsKnown DEF Broken
  <2>4. CASE Applied(h)
    <3>1. last'.host = h
      BY <2>4 DEF Applied, Record
    <3>2. image.status = "suspended" /\ image.graph = GraphOf[h] =>
             Document(h)' = [image EXCEPT !.step = 0]
      BY <2>1, <2>4, AppliedRoundTrip
    <3> QED
      BY <2>1, <3>1, <3>2 DEF RoundTripIsFixedPoint, Document, Thread
  <2> QED
    BY <1>2, <2>2, <2>3, <2>4 DEF Import
<1>3. CASE UNCHANGED vars
  <2>1. saver' = saver /\ adapter' = adapter /\ image' = image /\ last' = last
    BY <1>3 DEF vars
  <2> QED
    BY <2>1 DEF RoundTripIsFixedPoint, Document, Thread
<1>4. CASE Next
  <2>1. last' = NoImport \/ \E h \in Hosts : Import(h)
    BY <1>4 DEF Next, Start, Step, Export, Migrate
  <2> QED
    BY <1>1, <1>2, <2>1
<1> QED
  BY <1>3, <1>4

\* The second inductive invariant: every thread was led to where it is, and so
\* was the thread behind the document in transit.
THEOREM ThreadsAreLed ==
    ASSUME Routed, Known
    PROVE  Spec => [](IInv /\ Resumable)
<1>1. Init => IInv /\ Resumable
  BY InitIInv, InitResumable
<1>2. IInv /\ Resumable /\ [Next]_vars => (IInv /\ Resumable)'
  BY NextIInv, NextResumable
<1> QED
  BY <1>1, <1>2, PTL DEF Spec

\* RoundTripIsFixedPoint: becoming a suspended state of the same graph and
\* exporting again gives that state, with its steps counted from 0, where the
\* routers into a node agree.
THEOREM RoundTripsAreFixedPoints ==
    ASSUME Routed, Known, Agreeing
    PROVE  Spec => []RoundTripIsFixedPoint
BY InitRoundTrip, NextRoundTrip, ThreadsAreLed, PTL DEF Spec

-----------------------------------------------------------------------------
(* Walks *)

\* Where the input goes does not depend on what nodes have written.
EntryFixed ==
    \A h \in Hosts, goal \in Inputs, findings \in Findings :
        Route(GraphOf[h], START, goal, findings) = Route(GraphOf[h], START, goal, <<>>)

First(g, goal) == Route(g, START, goal, <<>>)

\* From a node to what came after it: by its router, or over again.
Passes(g, goal, node, history, after) ==
    LET routed == Route(g, node, goal, history)
    IN \/ <<node, after>> \in g.edges /\ after = routed
       \/ routed = END /\ after = First(g, goal)

\* findings is a walk of the graph that ends at the frontier.
Follows(g, goal, findings, frontier) ==
    LET after(i) == IF i = Len(findings) THEN frontier ELSE findings[i + 1]
    IN /\ IF findings = <<>> THEN frontier = First(g, goal)
          ELSE findings[1] = First(g, goal)
       /\ \A i \in 1 .. Len(findings) :
             Passes(g, goal, findings[i], SubSeq(findings, 1, i), after(i))

LEMMA AppendFacts ==
    ASSUME NEW E, NEW s \in Seq(E), NEW x
    PROVE  LET w == Append(s, x)
           IN /\ Len(s) \in Nat /\ DOMAIN s = 1 .. Len(s)
              /\ s = <<>> <=> Len(s) = 0
              /\ Len(w) = Len(s) + 1 /\ w[Len(s) + 1] = x
              /\ \A i \in 1 .. Len(s) : w[i] = s[i]
              /\ \A i \in 1 .. Len(s) : SubSeq(w, 1, i) = SubSeq(s, 1, i)
              /\ SubSeq(w, 1, Len(s) + 1) = w
<1> DEFINE F == E \cup {x}
           w == Append(s, x)
           n == Len(s)
<1>1. s \in Seq(F) /\ x \in F
  OBVIOUS
<1> HIDE DEF F
<1>2. /\ n \in Nat /\ DOMAIN s = 1 .. n /\ (s = <<>> <=> n = 0)
      /\ w \in Seq(F) /\ Len(w) = n + 1 /\ w[n + 1] = x
      /\ \A i \in 1 .. n : w[i] = s[i]
  BY <1>1
<1> HIDE DEF w
<1>3. ASSUME NEW i \in 1 .. n PROVE SubSeq(w, 1, i) = SubSeq(s, 1, i)
  <2>1. i \in Nat /\ i <= n /\ i <= n + 1
    BY <1>2
  <2>2. /\ SubSeq(w, 1, i) \in Seq(F) /\ Len(SubSeq(w, 1, i)) = i
        /\ \A k \in 1 .. i : SubSeq(w, 1, i)[k] = w[k]
    BY <1>2, <2>1
  <2>3. /\ SubSeq(s, 1, i) \in Seq(F) /\ Len(SubSeq(s, 1, i)) = i
        /\ \A k \in 1 .. i : SubSeq(s, 1, i)[k] = s[k]
    BY <1>1, <2>1
  <2>4. \A k \in 1 .. i : w[k] = s[k]
    BY <1>2, <2>1
  <2> QED
    BY <2>1, <2>2, <2>3, <2>4
<1>4. SubSeq(w, 1, n + 1) = w
  <2>1. SubSeq(w, 1, Len(w)) = w
    BY <1>2
  <2> QED
    BY <1>2, <2>1
<1> QED
  BY <1>2, <1>3, <1>4 DEF w

\* The property says of a thread that it follows its graph.
LEMMA WalkIs ==
    ASSUME NEW h \in Hosts, NEW t \in Threads
    PROVE  LET first == Route(GraphOf[h], START, t.goal, <<>>)
               walk == Append(t.findings, t.next)
               routed(i) == Route(GraphOf[h], walk[i], t.goal, SubSeq(walk, 1, i))
           IN Follows(GraphOf[h], t.goal, t.findings, t.next) =>
                 /\ walk[1] = first
                 /\ \A i \in DOMAIN t.findings :
                       \/ <<walk[i], walk[i + 1]>> \in GraphOf[h].edges
                            /\ walk[i + 1] = routed(i)
                       \/ routed(i) = END /\ walk[i + 1] = first
<1> DEFINE f == t.findings
           n == Len(f)
           G == GraphOf[h]
           first == Route(G, START, t.goal, <<>>)
           walk == Append(f, t.next)
           routed(i) == Route(G, walk[i], t.goal, SubSeq(walk, 1, i))
           after(i) == IF i = n THEN t.next ELSE f[i + 1]
<1> SUFFICES ASSUME Follows(G, t.goal, f, t.next)
             PROVE  /\ walk[1] = first
                    /\ \A i \in DOMAIN f :
                          \/ <<walk[i], walk[i + 1]>> \in G.edges /\ walk[i + 1] = routed(i)
                          \/ routed(i) = END /\ walk[i + 1] = first
  OBVIOUS
<1>1. /\ n \in Nat /\ DOMAIN f = 1 .. n /\ (f = <<>> <=> n = 0)
      /\ walk[n + 1] = t.next
      /\ \A i \in 1 .. n : walk[i] = f[i] /\ SubSeq(walk, 1, i) = SubSeq(f, 1, i)
  <2>1. f \in Seq(Nodes)
    BY DEF Threads, Findings
  <2> HIDE DEF f
  <2> QED
    BY <2>1, AppendFacts
<1> HIDE DEF walk, f, G
<1>2. walk[1] = first
  <2>1. CASE f = <<>>
    <3>1. n + 1 = 1
      BY <1>1, <2>1
    <3> QED
      BY <1>1, <2>1, <3>1 DEF Follows, First
  <2>2. CASE f # <<>>
    <3>1. 1 \in 1 .. n
      BY <1>1, <2>2
    <3> QED
      BY <1>1, <2>2, <3>1 DEF Follows, First
  <2> QED
    BY <2>1, <2>2
<1>3. ASSUME NEW i \in DOMAIN f
      PROVE  \/ <<walk[i], walk[i + 1]>> \in G.edges /\ walk[i + 1] = routed(i)
             \/ routed(i) = END /\ walk[i + 1] = first
  <2>1. i \in 1 .. n
    BY <1>1
  <2>2. Passes(G, t.goal, f[i], SubSeq(f, 1, i), after(i))
    BY <2>1 DEF Follows
  <2>3. walk[i + 1] = after(i)
    <3>1. CASE i = n
      BY <1>1, <3>1
    <3>2. CASE i # n
      <4>1. i + 1 \in 1 .. n
        BY <1>1, <2>1, <3>2
      <4> QED
        BY <1>1, <3>2, <4>1
    <3> QED
      BY <3>1, <3>2
  <2>4. walk[i] = f[i] /\ SubSeq(walk, 1, i) = SubSeq(f, 1, i)
    BY <1>1, <2>1
  <2> HIDE DEF after
  <2> QED
    BY <2>2, <2>3, <2>4 DEF Passes, First
<1> QED
  BY <1>2, <1>3 DEF f

\* One more node.
LEMMA RanFollows ==
    ASSUME Routed, NEW h \in Hosts, NEW t \in Threads, t.next \in GraphOf[h].nodes,
           Follows(GraphOf[h], t.goal, t.findings, t.next)
    PROVE  LET u == Ran(GraphOf[h], t)
           IN Follows(GraphOf[h], u.goal, u.findings, u.next)
<1> DEFINE G == GraphOf[h]
           f == t.findings
           n == Len(f)
           w == Append(f, t.next)
           r == Route(G, t.next, t.goal, w)
           after(i) == IF i = n THEN t.next ELSE f[i + 1]
           later(i) == IF i = Len(w) THEN r ELSE w[i + 1]
<1>1. LET u == Ran(G, t) IN u.goal = t.goal /\ u.findings = w /\ u.next = r
  BY DEF Ran
<1>2. /\ n \in Nat /\ (f = <<>> <=> n = 0)
      /\ Len(w) = n + 1 /\ w[n + 1] = t.next /\ SubSeq(w, 1, n + 1) = w
      /\ \A i \in 1 .. n : w[i] = f[i] /\ SubSeq(w, 1, i) = SubSeq(f, 1, i)
  <2>1. f \in Seq(Nodes)
    BY DEF Threads, Findings
  <2> HIDE DEF f
  <2> QED
    BY <2>1, AppendFacts
<1>3. <<t.next, r>> \in G.edges
  <2>1. w \in Findings /\ t.goal \in Inputs
    BY NodesOf DEF Threads, Findings
  <2> HIDE DEF w
  <2> QED
    BY <2>1 DEF Routed
<1>4. w # <<>>
  <2>1. Len(<<>>) = 0
    OBVIOUS
  <2> HIDE DEF w, n
  <2> QED
    BY <1>2, <2>1
<1> HIDE DEF w, f, G, r
<1>5. w[1] = First(G, t.goal)
  <2>1. CASE f = <<>>
    <3>1. n + 1 = 1
      BY <1>2, <2>1
    <3> QED
      BY <1>2, <2>1, <3>1 DEF Follows, f, G
  <2>2. CASE f # <<>>
    <3>1. 1 \in 1 .. n
      BY <1>2, <2>2
    <3>2. f[1] = First(G, t.goal)
      BY <2>2 DEF Follows, f, G
    <3> QED
      BY <1>2, <3>1, <3>2
  <2> QED
    BY <2>1, <2>2
<1>6. ASSUME NEW i \in 1 .. Len(w)
      PROVE  Passes(G, t.goal, w[i], SubSeq(w, 1, i), later(i))
  <2>1. CASE i = n + 1
    <3>1. later(i) = r /\ w[i] = t.next /\ SubSeq(w, 1, i) = w
      BY <1>2, <2>1
    <3> HIDE DEF later
    <3>2. r = Route(G, t.next, t.goal, w)
      BY DEF r
    <3> QED
      BY <1>3, <3>1, <3>2 DEF Passes
  <2>2. CASE i # n + 1
    <3>1. i \in 1 .. n /\ i # Len(w)
      BY <1>2, <2>2
    <3>2. Passes(G, t.goal, f[i], SubSeq(f, 1, i), after(i))
      BY <3>1 DEF Follows, f, G
    <3>3. later(i) = after(i)
      <4>1. CASE i = n
        BY <1>2, <3>1, <4>1
      <4>2. CASE i # n
        <5>1. i + 1 \in 1 .. n
          BY <1>2, <3>1, <4>2
        <5> QED
          BY <1>2, <3>1, <4>2, <5>1
      <4> QED
        BY <4>1, <4>2
    <3> HIDE DEF later, after
    <3> QED
      BY <1>2, <3>1, <3>2, <3>3
  <2> QED
    BY <2>1, <2>2
<1>7. Follows(G, t.goal, w, r)
  <2> HIDE DEF n
  <2> QED
    BY <1>4, <1>5, <1>6 DEF Follows
<1> QED
  BY <1>1, <1>7 DEF G

\* A finished run that is imported begins again.
LEMMA FinishedFollows ==
    ASSUME NEW h \in Hosts, NEW goal, NEW f \in Findings, NEW frontier,
           frontier \notin GraphOf[h].nodes,
           Follows(GraphOf[h], goal, f, frontier)
    PROVE  Follows(GraphOf[h], goal, f, First(GraphOf[h], goal))
<1> DEFINE G == GraphOf[h]
           n == Len(f)
           first == First(G, goal)
           after(i) == IF i = n THEN frontier ELSE f[i + 1]
           later(i) == IF i = n THEN first ELSE f[i + 1]
<1>1. ASSUME NEW i \in 1 .. n
      PROVE  Passes(G, goal, f[i], SubSeq(f, 1, i), later(i))
  <2>1. Passes(G, goal, f[i], SubSeq(f, 1, i), after(i))
    BY DEF Follows
  <2>2. CASE i # n
    BY <2>1, <2>2
  <2>3. CASE i = n
    <3>1. <<f[i], frontier>> \in G.edges => frontier = END
      BY GraphsAssumption
    <3>2. Route(G, f[i], goal, SubSeq(f, 1, i)) = END
      BY <2>1, <2>3, <3>1 DEF Passes
    <3> QED
      BY <2>3, <3>2 DEF Passes
  <2> QED
    BY <2>2, <2>3
<1>2. IF f = <<>> THEN first = First(G, goal) ELSE f[1] = First(G, goal)
  BY DEF Follows
<1> HIDE DEF first
<1> QED
  BY <1>1, <1>2 DEF Follows, first

LEMMA EmptyFollows ==
    ASSUME NEW h \in Hosts, NEW goal
    PROVE  Follows(GraphOf[h], goal, <<>>, First(GraphOf[h], goal))
<1>1. 1 .. Len(<<>>) = {}
  OBVIOUS
<1> QED
  BY <1>1 DEF Follows

LEMMA GivenFollows ==
    ASSUME NEW h \in Hosts, NEW goal
    PROVE  LET u == Given(GraphOf[h], goal)
           IN Follows(GraphOf[h], u.goal, u.findings, u.next)
<1>1. LET u == Given(GraphOf[h], goal)
      IN u.goal = goal /\ u.findings = <<>> /\ u.next = First(GraphOf[h], goal)
  BY DEF Given, NoThread, First
<1> QED
  BY <1>1, EmptyFollows

FollowsThread(h, t) == Follows(GraphOf[h], t.goal, t.findings, t.next)

FollowingThreads == [h \in Hosts |-> {t \in Threads : t # NoThread => FollowsThread(h, t)}]

ThreadsFollow ==
    \A h \in Hosts : \A n \in 0 .. MaxImports : saver[h][n] \in FollowingThreads[h]

\* The document in transit is of an empty thread or of a walk.
ImageFollows ==
    image.hasValues =>
        \E g \in Hosts :
            /\ image.graph = GraphOf[g]
            /\ \/ image.next = NoNode /\ image.values.findings = <<>>
               \/ Follows(GraphOf[g], image.values.goal, image.values.findings, image.next)

LEMMA AppliedFollows ==
    ASSUME Routed, Known, Agreeing, EntryFixed, IInv, Resumable, ImageFollows,
           NEW h \in Hosts, Applied(h)
    PROVE  LET u == Updated(GraphOf[h], NoThread, image.values, image.resume)
           IN u \in Threads /\ FollowsThread(h, u)
<1> DEFINE G == GraphOf[h]
           v == image.values
           node == IF image.resume = NoNode THEN START ELSE image.resume
           next == Route(G, node, v.goal, v.findings)
           u == Updated(G, NoThread, v, image.resume)
<1>1. /\ image \in Documents /\ image.resume \in G.nodes \cup {NoNode}
      /\ image.graph \in {NoGraph, G}
  BY AcceptedIsKnown DEF Applied, Accepts
<1>2. v \in Values /\ v.findings \in Findings
  BY <1>1 DEF Documents, Values
<1>3. image.graph = G
  <2>1. \E g \in Hosts : image.graph = GraphOf[g]
    BY <1>1 DEF ImageFollows, Documents
  <2> QED
    BY <1>1, <2>1, NotNoGraph
<1>4. /\ u \in Threads /\ u.goal = v.goal /\ u.findings = v.findings /\ u.next = next
  <2>1. <<>> \o v.findings = v.findings
    BY <1>2, EmptyBefore DEF Findings
  <2>2. u \in Threads
    BY <1>1, <1>2, NoThreadType, UpdatedType
  <2>3. NoThread.findings = <<>>
    BY DEF NoThread
  <2>4. u.goal = v.goal /\ u.findings = NoThread.findings \o v.findings
        /\ u.next = Route(G, node, v.goal, NoThread.findings \o v.findings)
    BY DEF Updated
  <2> HIDE DEF u, v
  <2> QED
    BY <2>1, <2>2, <2>3, <2>4
<1>5. /\ image.next = NoNode /\ v.findings = <<>>
      \/ Follows(G, v.goal, v.findings, image.next)
  <2>1. PICK g \in Hosts :
           /\ image.graph = GraphOf[g]
           /\ \/ image.next = NoNode /\ v.findings = <<>>
              \/ Follows(GraphOf[g], v.goal, v.findings, image.next)
    BY <1>1 DEF ImageFollows, Documents
  <2> QED
    BY <1>3, <2>1
<1>6. CASE image.next \in G.nodes
  <2>1. next = image.next
    BY <1>1, <1>3, <1>6, FrontierKept DEF Resumable
  <2>2. image.next # NoNode
    BY <1>6, GraphsAssumption
  <2>3. Follows(G, v.goal, v.findings, next)
    BY <1>5, <2>1, <2>2
  <2> HIDE DEF u, next
  <2> QED
    BY <1>4, <2>3 DEF FollowsThread, u
<1>7. CASE image.next \notin G.nodes
  <2>1. image.resume = NoNode
    <3>1. PICK g \in Hosts, t \in Threads :
             image.graph \in {NoGraph, GraphOf[g]} /\ Shows(image, GraphOf[g], t)
      BY <1>1 DEF Resumable, Origin, Documents
    <3>2. image.next = t.next /\ image.resume = ResumeNode(G, t)
      BY <1>3, <3>1, NotNoGraph DEF Shows
    <3> QED
      BY <1>7, <3>2 DEF ResumeNode
  <2>2. next = First(G, v.goal)
    <3>1. v.goal \in Inputs
      BY <1>2 DEF Values
    <3> QED
      BY <1>2, <2>1, <3>1 DEF EntryFixed, First
  <2>3. Follows(G, v.goal, v.findings, next)
    <3>1. CASE v.findings = <<>>
      BY <2>2, <3>1, EmptyFollows
    <3>2. CASE v.findings # <<>>
      BY <1>2, <1>5, <1>7, <2>2, <3>2, FinishedFollows
    <3> QED
      BY <3>1, <3>2
  <2> HIDE DEF u, next
  <2> QED
    BY <1>4, <2>3 DEF FollowsThread, u
<1> QED
  BY <1>4, <1>6, <1>7

WInv == IInv /\ Resumable /\ ThreadsFollow /\ ImageFollows

LEMMA InitWInv == Init => WInv
<1> SUFFICES ASSUME Init PROVE WInv
  OBVIOUS
<1>1. image.hasValues = FALSE /\ \A h \in Hosts : \A n \in 0 .. MaxImports : saver[h][n] = NoThread
  BY DEF Init, Foreign
<1>2. ThreadsFollow
  BY <1>1, NoThreadType DEF ThreadsFollow, FollowingThreads
<1> QED
  BY <1>1, <1>2, InitIInv, InitResumable DEF WInv, ImageFollows

LEMMA NextWInv ==
    ASSUME Routed, Agreeing, EntryFixed, Vias \subseteq {"langgraph"}
    PROVE  WInv /\ [Next]_vars => WInv'
<1> SUFFICES ASSUME WInv, [Next]_vars PROVE WInv'
  OBVIOUS
<1>1. Known /\ IInv /\ Resumable /\ ThreadsFollow /\ ImageFollows /\ TypeOK
  BY DEF Known, WInv, IInv
<1>2. IInv' /\ Resumable'
  BY <1>1, NextIInv, NextResumable
<1>3. \A h \in Hosts : NoThread \in FollowingThreads[h]
  BY NoThreadType DEF FollowingThreads
<1>4. SUFFICES ThreadsFollow' /\ ImageFollows'
  BY <1>2 DEF WInv
<1>5. ASSUME NEW h \in Hosts, NEW goal \in Goals[h], Start(h, goal)
      PROVE  ThreadsFollow' /\ ImageFollows'
  <2>1. saver' = saver /\ image' = image
    BY <1>5 DEF Start
  <2> QED
    BY <1>1, <2>1 DEF ThreadsFollow, ImageFollows
<1>6. ASSUME NEW h \in Hosts, NEW raises \in BOOLEAN, Step(h, raises)
      PROVE  ThreadsFollow' /\ ImageFollows'
  <2>1. PICK t : StepWrites(h, raises, t)
    BY <1>1, <1>6, StepFacts
  <2> DEFINE u == IF raises THEN t ELSE Ran(GraphOf[h], t)
  <2>2. t \in Threads /\ t.next \in GraphOf[h].nodes
    BY <2>1 DEF StepWrites
  <2>3. FollowsThread(h, t)
    <3>1. adapter[h].thread \in 0 .. MaxImports
      BY <1>1, ThreadType
    <3>2. t # NoThread /\ t = saver[h][adapter[h].thread] => FollowsThread(h, t)
      BY <1>1, <3>1 DEF ThreadsFollow, FollowingThreads
    <3>3. t = Given(GraphOf[h], adapter[h].goal) => FollowsThread(h, t)
      BY GivenFollows DEF FollowsThread
    <3> QED
      BY <2>1, <3>2, <3>3 DEF StepWrites
  <2>4. u \in FollowingThreads[h]
    <3>1. u \in Threads
      BY <2>2, RanType
    <3>2. FollowsThread(h, u)
      BY <2>2, <2>3, RanFollows DEF FollowsThread
    <3> HIDE DEF u
    <3> QED
      BY <3>1, <3>2 DEF FollowingThreads
  <2>5. ThreadsFollow'
    <3>1. \A g \in Hosts : \A n \in 0 .. MaxImports : saver'[g][n] \in FollowingThreads[g]
      BY <1>1, <2>1, <2>4, StepKeeps DEF ThreadsFollow
    <3> QED
      BY <3>1 DEF ThreadsFollow
  <2>6. image' = image
    BY <1>6 DEF Step
  <2> QED
    BY <1>1, <2>5, <2>6 DEF ImageFollows
<1>7. ASSUME NEW h \in Hosts, Export(h) PROVE ThreadsFollow' /\ ImageFollows'
  <2> DEFINE t == Thread(h)
  <2>1. saver' = saver /\ image' = Document(h)
    BY <1>7 DEF Export
  <2>2. t = NoThread \/ FollowsThread(h, t)
    BY <1>1, ThreadType DEF ThreadsFollow, FollowingThreads, Thread
  <2>3. NoThread.next = NoNode /\ NoThread.findings = <<>>
    BY DEF NoThread
  <2> HIDE DEF t
  <2>4. /\ image'.graph = GraphOf[h] /\ image'.next = t.next
        /\ image'.values.goal = t.goal /\ image'.values.findings = t.findings
    BY <2>1 DEF Document, t
  <2>5. ImageFollows'
    BY <2>2, <2>3, <2>4 DEF ImageFollows, FollowsThread
  <2> QED
    BY <1>1, <2>1, <2>5 DEF ThreadsFollow
<1>8. ASSUME NEW h \in Hosts, Import(h) PROVE ThreadsFollow' /\ ImageFollows'
  <2>1. (h \in Deleting \/ adapter[h].thread < MaxImports) /\ image' = image
    BY <1>8 DEF Import
  <2>2. ImageFollows'
    BY <1>1, <2>1 DEF ImageFollows
  <2>3. CASE Refused(h)
    <3>1. saver' = saver
      BY <2>3 DEF Refused
    <3> QED
      BY <1>1, <2>2, <3>1 DEF ThreadsFollow
  <2>4. ~Broken(h)
    BY <1>1, AcceptedIsKnown DEF Broken
  <2>5. CASE Applied(h)
    <3> DEFINE u == Updated(GraphOf[h], NoThread, image.values, image.resume)
    <3>1. PICK threads, n : ImportWrites(h, threads, n)
      BY <1>1, <2>1, <2>5, ImportFacts
    <3>2. u \in FollowingThreads[h]
      <4>1. u \in Threads /\ FollowsThread(h, u)
        BY <1>1, <2>5, AppliedFollows
      <4> HIDE DEF u
      <4> QED
        BY <4>1 DEF FollowingThreads
    <3>3. \A g \in Hosts : \A k \in 0 .. MaxImports : saver'[g][k] \in FollowingThreads[g]
      BY <1>1, <1>3, <3>1, <3>2, ImportKeeps DEF ThreadsFollow
    <3> QED
      BY <2>2, <3>3 DEF ThreadsFollow
  <2> QED
    BY <1>8, <2>3, <2>4, <2>5 DEF Import
<1>9. ASSUME NEW via \in Vias, NEW granted \in GrantSets, Migrate(via, granted)
      PROVE  ThreadsFollow' /\ ImageFollows'
  <2>1. saver' = saver /\ image' = [image EXCEPT !.granted = granted, !.graph = image.graph]
    BY <1>9 DEF Migrate
  <2>2. image \in Foreigns \cup Documents
    BY <1>1 DEF TypeOK
  <2>3. /\ image'.hasValues = image.hasValues /\ image'.graph = image.graph
        /\ image.hasValues => image'.next = image.next /\ image'.values = image.values
    BY <2>1, <2>2 DEF Foreigns, Documents
  <2> QED
    BY <1>1, <2>1, <2>3 DEF ThreadsFollow, ImageFollows
<1>10. CASE UNCHANGED vars
  <2>1. saver' = saver /\ image' = image
    BY <1>10 DEF vars
  <2> QED
    BY <1>1, <2>1 DEF ThreadsFollow, ImageFollows
<1> QED
  BY <1>5, <1>6, <1>7, <1>8, <1>9, <1>10 DEF Next

\* WalksTheGraph: however often a run moves between runtimes, its findings are
\* a walk of its graph by its routers, where the routers into a node agree, the
\* entry is fixed and states move with their fingerprints.
THEOREM RunsAreWalks ==
    ASSUME Routed, Agreeing, EntryFixed, Vias \subseteq {"langgraph"}
    PROVE  Spec => []WalksTheGraph
<1>1. WInv => WalksTheGraph
  <2> SUFFICES ASSUME WInv PROVE WalksTheGraph
    OBVIOUS
  <2>1. \A h \in Hosts : saver[h] \in [0 .. MaxImports -> Threads]
    BY DEF WInv, IInv, TypeOK
  <2>2. ASSUME NEW h \in Hosts, NEW n \in DOMAIN saver[h], saver[h][n] # NoThread
        PROVE  LET t == saver[h][n]
               IN t \in Threads /\ Follows(GraphOf[h], t.goal, t.findings, t.next)
    <3>1. saver[h][n] \in FollowingThreads[h]
      BY <2>1 DEF WInv, ThreadsFollow
    <3> QED
      BY <2>2, <3>1 DEF FollowingThreads, FollowsThread
  <2> QED
    BY <2>2, WalkIs DEF WalksTheGraph
<1>2. Spec => []WInv
  BY InitWInv, NextWInv, PTL DEF Spec
<1> QED
  BY <1>1, <1>2, PTL
=============================================================================
