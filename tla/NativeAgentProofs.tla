-------------------------- MODULE NativeAgentProofs --------------------------
(***************************************************************************)
(* Safety of the review agent for any processes, workspaces, policies,     *)
(* models and number of commands, whatever crashes.                        *)
(***************************************************************************)
EXTENDS NativeAgent, SequenceTheorems, TLAPS

-----------------------------------------------------------------------------
(* The plan and its parts *)

LEMMA PlanFacts ==
    /\ Plan \in Seq(Stages) /\ Len(Plan) = 5
    /\ \A n \in 1 .. 5 : Plan[n] \in Stages
    /\ Plan[4] = "report" /\ Plan[5] = "review"
    /\ \A n \in 1 .. 3 : Plan[n] \notin Written
    /\ Stages = {"scan", "extract", "rank", "report", "review"}
<1>1. Stages = {"scan", "extract", "rank", "report", "review"}
  <2>1. Stages = {Plan[i] : i \in 1 .. 5}
    BY DEF Stages, ToSet, Plan
  <2> QED
    BY <2>1 DEF Plan
<1> QED
  BY <1>1 DEF Plan, Written

LEMMA PlanSplits ==
    ASSUME NEW n \in 0 .. 5
    PROVE  /\ SubSeq(Plan, 1, n) \in Seq(Stages) /\ SubSeq(Plan, n + 1, 5) \in Seq(Stages)
           /\ SubSeq(Plan, 1, n) \o SubSeq(Plan, n + 1, 5) = Plan
           /\ Len(SubSeq(Plan, 1, n)) = n
           /\ SubSeq(Plan, n + 1, 5) = <<>> <=> n = 5
           /\ n < 5 => Head(SubSeq(Plan, n + 1, 5)) = Plan[n + 1]
<1>1. SubSeq(Plan, 1, n) \in Seq(Stages) /\ SubSeq(Plan, n + 1, 5) \in Seq(Stages)
  BY PlanFacts, SubSeqProperties
<1>2. Len(SubSeq(Plan, 1, n)) = n /\ Len(SubSeq(Plan, n + 1, 5)) = 5 - n
  BY PlanFacts, SubSeqProperties
<1>3. SubSeq(Plan, 1, n) \o SubSeq(Plan, n + 1, 5) = Plan
  <2>1. SubSeq(Plan, 1, n) \o SubSeq(Plan, n + 1, 5) = SubSeq(Plan, 1, 5)
    BY PlanFacts, ConcatAdjacentSubSeq
  <2>2. SubSeq(Plan, 1, 5) = Plan
    BY PlanFacts, SubSeqFull
  <2> QED
    BY <2>1, <2>2
<1>4. n < 5 => Head(SubSeq(Plan, n + 1, 5)) = Plan[n + 1]
  BY PlanFacts, <1>1, <1>2, SubSeqProperties
<1>5. SubSeq(Plan, n + 1, 5) = <<>> <=> n = 5
  <2>1. SubSeq(Plan, n + 1, 5) = <<>> <=> Len(SubSeq(Plan, n + 1, 5)) = 0
    BY <1>1, EmptySeq
  <2> QED
    BY <1>2, <2>1
<1> QED
  BY <1>1, <1>2, <1>3, <1>4, <1>5

-----------------------------------------------------------------------------
(* Types *)

Contents == {NoArtifact} \cup (Policies \X Policies \X Models)

StateType ==
    [step : 0 .. 5, status : {"suspended", "running", "completed"},
     task : Stages \cup {"complete"}, completed : Seq(Stages), pending : Seq(Stages),
     params : Params, model : Models \cup {NoModel}, granted : GrantSets,
     history : Seq(Policies), artifacts : [Written -> Contents]]

AgentType ==
    [state : StateType, policy : Policies, label : Models, own : SUBSET Written]

Types ==
    /\ pc \in [Procs -> PCs]
    /\ command \in [Procs -> {"run", "resume"}]
    /\ runtime \in [Procs -> AgentType]
    /\ saved \in SUBSET StateType
    /\ files \in [Workspaces -> [Written -> Contents]]

-----------------------------------------------------------------------------
(* The inductive invariant *)

\* Where a state is, said once: everything else about its position follows.
Position(s) ==
    /\ s.completed = SubSeq(Plan, 1, s.step)
    /\ s.pending = SubSeq(Plan, s.step + 1, 5)
    /\ Len(s.history) = s.step
    /\ s.task = IF s.step = 5 THEN "complete" ELSE Plan[s.step + 1]
    /\ s.status = "completed" <=> s.step = 5

\* A rejected policy is the only one that is not taken over.
Taken(agent) == agent.state.params \in Policies => agent.policy = agent.state.params

\* What a running command has saved of the state it is in.
SavedBehind(p) ==
    LET s == runtime[p].state
    IN /\ pc[p] \in {"work", "wrote", "done"} =>
             \E t \in saved : t.history = s.history /\ t.step = s.step
       /\ pc[p] = "save" =>
             \E t \in saved, policy \in Policies :
                s.history = Append(t.history, policy) /\ s.step = t.step + 1

\* No two processes share a workspace.
NoneShared == \A p, q \in Procs : WorkspaceOf[p] = WorkspaceOf[q] => p = q

\* An object never writes an artifact twice, and the file it has just written
\* is what it will record.
OnDisk(p) ==
    LET agent == runtime[p]
        disk == files[WorkspaceOf[p]]
    IN /\ "report" \in agent.own => agent.state.step >= 4
       /\ "review" \in agent.own => agent.state.step >= 5
       /\ \A id \in agent.own : disk[id] = agent.state.artifacts[id]
       /\ pc[p] = "wrote" => disk[Stage(agent.state)] = Content(agent)

AgentOK(p) ==
    /\ Position(runtime[p].state)
    /\ pc[p] # "none" => Taken(runtime[p])
    /\ pc[p] \in {"work", "wrote"} => runtime[p].state.step < 5
    /\ pc[p] = "wrote" => Stage(runtime[p].state) \in Written
    /\ command[p] = "run" => SavedBehind(p)
    /\ NoneShared => OnDisk(p)

IInv ==
    /\ Types
    /\ \A s \in saved : Position(s)
    /\ \A p \in Procs : AgentOK(p)

-----------------------------------------------------------------------------
(* States *)

LEMMA InitialStateOK ==
    ASSUME NEW policy \in Params, NEW model \in Models
    PROVE  /\ InitialState(policy, model) \in StateType
           /\ Position(InitialState(policy, model))
<1>1. SubSeq(Plan, 1, 0) = <<>>
  BY SubSeqEmpty
<1>2. SubSeq(Plan, 1, 5) = Plan
  BY PlanFacts, SubSeqFull
<1>3. Head(Plan) = Plan[1]
  BY PlanFacts
<1> QED
  BY <1>1, <1>2, <1>3, PlanFacts, PlaceAssumption
  DEF InitialState, StateType, Position, Params, Contents

\* One more stage has run.
LEMMA AdvanceOK ==
    ASSUME NEW s \in StateType, Position(s), s.step < 5, NEW policy \in Policies
    PROVE  /\ Advance(s, policy) \in StateType
           /\ Position(Advance(s, policy))
           /\ Advance(s, policy).step = s.step + 1
           /\ Advance(s, policy).history = Append(s.history, policy)
           /\ Advance(s, policy).params = s.params
           /\ Advance(s, policy).artifacts = s.artifacts
<1> DEFINE n == s.step + 1
           t == Advance(s, policy)
<1>1. n \in 1 .. 5 /\ n \in 0 .. 5
  BY DEF StateType
<1>2. /\ SubSeq(Plan, 1, n) \in Seq(Stages)
      /\ SubSeq(Plan, n + 1, 5) \in Seq(Stages)
  BY <1>1, PlanSplits
<1>3. /\ Append(s.history, policy) \in Seq(Policies)
      /\ Len(Append(s.history, policy)) = n
  BY AppendProperties DEF StateType, Position
<1>4. t = [s EXCEPT !.step = n,
                     !.status = IF n >= 5 THEN "completed" ELSE "running",
                     !.task = IF n >= 5 THEN "complete" ELSE Plan[n + 1],
                     !.completed = SubSeq(Plan, 1, n),
                     !.pending = SubSeq(Plan, n + 1, 5),
                     !.history = Append(s.history, policy)]
  BY PlanFacts DEF Advance, StateType
<1>5. /\ t.step = n
      /\ t.status = IF n >= 5 THEN "completed" ELSE "running"
      /\ t.task = IF n >= 5 THEN "complete" ELSE Plan[n + 1]
      /\ t.completed = SubSeq(Plan, 1, n) /\ t.pending = SubSeq(Plan, n + 1, 5)
      /\ t.params = s.params /\ t.model = s.model /\ t.granted = s.granted
      /\ t.history = Append(s.history, policy) /\ t.artifacts = s.artifacts
  BY <1>4 DEF StateType
<1>6. t = [step |-> t.step, status |-> t.status, task |-> t.task,
              completed |-> t.completed, pending |-> t.pending, params |-> t.params,
              model |-> t.model, granted |-> t.granted, history |-> t.history,
              artifacts |-> t.artifacts]
  BY <1>4 DEF StateType
<1>7. t = Advance(s, policy)
  OBVIOUS
<1> HIDE DEF t
<1>8. t \in StateType
  <2>1. IF n >= 5 THEN TRUE ELSE Plan[n + 1] \in Stages
    BY <1>1, PlanFacts
  <2> QED
    BY <1>1, <1>2, <1>3, <1>5, <1>6, <2>1 DEF StateType
<1>9. Position(t)
  <2>1. t.status = "completed" <=> t.step = 5
    BY <1>1, <1>5, <1>6
  <2>2. t.task = IF t.step = 5 THEN "complete" ELSE Plan[t.step + 1]
    BY <1>1, <1>5, <1>6
  <2> QED
    BY <1>1, <1>3, <1>5, <1>6, <2>1, <2>2 DEF Position
<1> QED
  BY <1>5, <1>7, <1>8, <1>9

-----------------------------------------------------------------------------
(* Steps *)

\* A step of one process says nothing about the others.
LEMMA OthersKept ==
    ASSUME IInv, Types', NEW p \in Procs,
           \A q \in Procs \ {p} : /\ runtime'[q] = runtime[q]
                                  /\ pc'[q] = pc[q] /\ command'[q] = command[q],
           saved \subseteq saved', \A s \in saved' : Position(s),
           NoneShared => \A q \in Procs \ {p} :
                            files'[WorkspaceOf[q]] = files[WorkspaceOf[q]],
           AgentOK(p)'
    PROVE  IInv'
<1>1. ASSUME NEW q \in Procs \ {p} PROVE AgentOK(q)'
  <2>1. AgentOK(q) /\ runtime'[q] = runtime[q] /\ pc'[q] = pc[q] /\ command'[q] = command[q]
    BY DEF IInv
  <2>2. command'[q] = "run" => SavedBehind(q)'
    BY <2>1 DEF AgentOK, SavedBehind
  <2>3. NoneShared => OnDisk(q)'
    BY <2>1 DEF AgentOK, OnDisk
  <2> QED
    BY <2>1, <2>2, <2>3 DEF AgentOK, NoneShared
<1> QED
  BY <1>1 DEF IInv

\* An agent with another state that has written other artifacts.
LEMMA AgentFields ==
    ASSUME NEW agent \in AgentType, NEW s \in StateType, NEW own \in SUBSET Written,
           NEW later, later = [agent EXCEPT !.state = s, !.own = own]
    PROVE  /\ later \in AgentType
           /\ later.state = s /\ later.own = own
           /\ later.policy = agent.policy /\ later.label = agent.label
  BY DEF AgentType

\* The agent after a step of the plan, whatever it has written.
LEMMA SteppedOK ==
    ASSUME IInv, NEW p \in Procs, pc[p] \in {"work", "wrote"},
           NEW s \in StateType, Position(s), s.step < 5,
           s.step = runtime[p].state.step, s.history = runtime[p].state.history,
           s.params = runtime[p].state.params,
           NEW own \in SUBSET Written,
           LET after == Advance(s, runtime[p].policy)
           IN /\ runtime' = [runtime EXCEPT ![p] =
                               [@ EXCEPT !.state = after, !.own = own]]
              /\ AfterStep(p, after)
              /\ NoneShared => /\ "report" \in own => after.step >= 4
                               /\ "review" \in own => after.step >= 5
                               /\ \A id \in own :
                                     files[WorkspaceOf[p]][id] = s.artifacts[id],
           UNCHANGED <<command, saved, files>>
    PROVE  IInv'
<1> DEFINE after == Advance(s, runtime[p].policy)
<1>1. runtime[p] \in AgentType /\ AgentOK(p) /\ runtime[p].policy \in Policies
  BY DEF IInv, Types, AgentType
<1>2. /\ after \in StateType /\ Position(after) /\ after.step = s.step + 1
      /\ after.history = Append(s.history, runtime[p].policy)
      /\ after.params = s.params /\ after.artifacts = s.artifacts
  BY <1>1, AdvanceOK
<1>3. /\ runtime' = [runtime EXCEPT ![p] = [@ EXCEPT !.state = after, !.own = own]]
      /\ AfterStep(p, after)
  OBVIOUS
<1> HIDE DEF after
<1>4. /\ runtime'[p].state = after /\ runtime'[p].own = own
      /\ runtime'[p].policy = runtime[p].policy /\ runtime'[p].label = runtime[p].label
      /\ runtime'[p] \in AgentType
  <2>1. runtime'[p] = [runtime[p] EXCEPT !.state = after, !.own = own]
    BY <1>3 DEF IInv, Types
  <2>2. runtime[p] \in AgentType /\ after \in StateType /\ own \in SUBSET Written
    BY <1>1, <1>2
  <2>3. \A later : later = [runtime[p] EXCEPT !.state = after, !.own = own] =>
           /\ later \in AgentType
           /\ later.state = after /\ later.own = own
           /\ later.policy = runtime[p].policy /\ later.label = runtime[p].label
    BY <2>2, AgentFields
  <2> QED
    BY <2>1, <2>3
<1>5. /\ pc'[p] = IF command[p] = "run" \/ Finished(after) THEN "save" ELSE "work"
      /\ Finished(after) <=> after.step >= 5
  BY <1>3, PlanFacts DEF AfterStep, Become, Finished, IInv, Types
<1>6. Types'
  BY <1>2, <1>3, <1>4, <1>5 DEF IInv, Types, AfterStep, Become, PCs
<1>7. AgentOK(p)'
  <2>1. Position(after) /\ Taken(runtime'[p])
    BY <1>1, <1>2, <1>4 DEF AgentOK, Taken
  <2>2. pc'[p] \in {"work", "wrote"} => after.step < 5 /\ pc'[p] = "work"
    BY <1>2, <1>5 DEF StateType
  <2>3. command'[p] = "run" => SavedBehind(p)'
    <3> SUFFICES ASSUME command[p] = "run" PROVE SavedBehind(p)'
      OBVIOUS
    <3>1. PICK t \in saved : t.history = s.history /\ t.step = s.step
      BY <1>1 DEF AgentOK, SavedBehind
    <3>2. pc'[p] = "save" /\ saved' = saved
      BY <1>5
    <3>3. after.history = Append(t.history, runtime[p].policy) /\ after.step = t.step + 1
      BY <1>2, <3>1
    <3> QED
      BY <1>1, <1>4, <3>2, <3>3 DEF SavedBehind
  <2>4. NoneShared => OnDisk(p)'
    BY <1>2, <1>4, <1>5 DEF OnDisk, after
  <2> QED
    BY <1>4, <2>1, <2>2, <2>3, <2>4 DEF AgentOK, NoneShared
<1>8. \A q \in Procs \ {p} : runtime'[q] = runtime[q] /\ pc'[q] = pc[q]
  BY <1>3 DEF IInv, Types, AfterStep, Become
<1> QED
  BY <1>6, <1>7, <1>8, OthersKept DEF IInv

LEMMA ThinkStep ==
    ASSUME IInv, NEW p \in Procs, Think(p)
    PROVE  IInv'
<1> DEFINE agent == runtime[p]
<1>1. agent \in AgentType /\ AgentOK(p) /\ agent.state \in StateType
  BY DEF IInv, Types, AgentType
<1>2. pc[p] = "work" /\ agent.state.step < 5 /\ Position(agent.state)
  BY <1>1 DEF AgentOK, Think
<1>3. runtime' = [runtime EXCEPT ![p] = [@ EXCEPT !.state = Advance(agent.state, agent.policy),
                                                 !.own = agent.own]]
  BY <1>1 DEF Think, AgentType, IInv, Types
<1>4. NoneShared => LET after == Advance(agent.state, agent.policy)
                    IN /\ "report" \in agent.own => after.step >= 4
                       /\ "review" \in agent.own => after.step >= 5
                       /\ \A id \in agent.own :
                             files[WorkspaceOf[p]][id] = agent.state.artifacts[id]
  <2>1. Advance(agent.state, agent.policy).step = agent.state.step + 1
    BY <1>1, <1>2, AdvanceOK DEF AgentType
  <2> QED
    BY <1>1, <2>1 DEF AgentOK, OnDisk, StateType
<1> QED
  BY <1>1, <1>2, <1>3, <1>4, SteppedOK DEF Think, AgentType

\* What a written stage puts into its file.
LEMMA ContentOK ==
    ASSUME NEW agent \in AgentType, Position(agent.state), agent.state.step < 5,
           Stage(agent.state) \in Written
    PROVE  Content(agent) \in Contents /\ agent.state.step >= 3
<1>1. agent.state \in StateType /\ agent.policy \in Policies /\ agent.label \in Models
  BY DEF AgentType
<1>2. agent.state.step \in 3 .. 4
  BY <1>1, PlanFacts DEF Stage, StateType
<1>3. agent.state.history \in Seq(Policies) /\ Len(agent.state.history) >= 3
  BY <1>1, <1>2 DEF StateType, Position
<1>4. agent.state.history[3] \in Policies
  BY <1>3, ElementOfSeq
<1> QED
  BY <1>1, <1>2, <1>4 DEF Content, Contents

LEMMA WriteFileStep ==
    ASSUME IInv, NEW p \in Procs, WriteFile(p)
    PROVE  IInv'
<1> DEFINE agent == runtime[p]
           stage == Stage(agent.state)
<1>1. agent \in AgentType /\ AgentOK(p) /\ agent.state \in StateType
  BY DEF IInv, Types, AgentType
<1>2. /\ pc[p] = "work" /\ agent.state.step < 5 /\ Position(agent.state)
      /\ stage \in Written
  BY <1>1 DEF AgentOK, WriteFile
<1>3. Content(agent) \in Contents
  BY <1>1, <1>2, ContentOK
<1>4. /\ files' = [files EXCEPT ![WorkspaceOf[p]][stage] = Content(agent)]
      /\ pc' = [pc EXCEPT ![p] = "wrote"] /\ pc'[p] = "wrote"
      /\ UNCHANGED <<command, runtime, saved>>
  BY DEF WriteFile, Become, IInv, Types
<1>5. WorkspaceOf[p] \in Workspaces /\ files[WorkspaceOf[p]] \in [Written -> Contents]
  BY PlaceAssumption DEF IInv, Types
<1>6. files'[WorkspaceOf[p]] = [files[WorkspaceOf[p]] EXCEPT ![stage] = Content(agent)]
  BY <1>4, <1>5 DEF IInv, Types
<1>7. Types'
  BY <1>2, <1>3, <1>4, <1>5 DEF IInv, Types, PCs
<1>8. AgentOK(p)'
  <2>1. command'[p] = "run" => SavedBehind(p)'
    BY <1>1, <1>2, <1>4 DEF AgentOK, SavedBehind
  <2>2. NoneShared => OnDisk(p)'
    <3>1. NoneShared => stage \notin agent.own
      <4>1. agent.state.step = 3 => stage = "report"
        BY PlanFacts DEF Stage
      <4>2. agent.state.step = 4 => stage = "review"
        BY PlanFacts DEF Stage
      <4>3. agent.state.step \in 3 .. 4
        BY <1>1, <1>2, ContentOK DEF StateType
      <4> QED
        BY <1>1, <4>1, <4>2, <4>3 DEF AgentOK, OnDisk
    <3>2. NoneShared => \A id \in agent.own :
             files'[WorkspaceOf[p]][id] = agent.state.artifacts[id]
      BY <1>1, <1>5, <1>6, <3>1 DEF AgentOK, OnDisk, AgentType
    <3>3. files'[WorkspaceOf[p]][stage] = Content(agent)
      BY <1>2, <1>5, <1>6
    <3> QED
      BY <1>1, <1>4, <3>2, <3>3 DEF AgentOK, OnDisk
  <2> QED
    BY <1>1, <1>2, <1>4, <2>1, <2>2 DEF AgentOK, NoneShared
<1>9. \A q \in Procs \ {p} : pc'[q] = pc[q]
  BY <1>4 DEF IInv, Types
<1>10. NoneShared => \A q \in Procs \ {p} :
         files'[WorkspaceOf[q]] = files[WorkspaceOf[q]]
  BY <1>4, PlaceAssumption DEF NoneShared, IInv, Types
<1> QED
  BY <1>4, <1>7, <1>8, <1>9, <1>10, OthersKept DEF IInv

\* The state with a written artifact.
LEMMA RecordedOK ==
    ASSUME NEW s \in StateType, Position(s), NEW stage \in Written, NEW c \in Contents,
           NEW later, later = [s EXCEPT !.artifacts[stage] = c]
    PROVE  /\ later \in StateType /\ Position(later)
           /\ later.step = s.step /\ later.history = s.history
           /\ later.params = s.params
           /\ later.artifacts = [s.artifacts EXCEPT ![stage] = c]
<1>1. /\ later.step = s.step /\ later.status = s.status /\ later.task = s.task
      /\ later.completed = s.completed /\ later.pending = s.pending
      /\ later.history = s.history /\ later.params = s.params
      /\ later.artifacts = [s.artifacts EXCEPT ![stage] = c]
  BY DEF StateType
<1>2. later \in StateType
  BY DEF StateType
<1> QED
  BY <1>1, <1>2 DEF Position

LEMMA RecordArtifactStep ==
    ASSUME IInv, NEW p \in Procs, RecordArtifact(p)
    PROVE  IInv'
<1> DEFINE agent == runtime[p]
           stage == Stage(agent.state)
           s == [agent.state EXCEPT !.artifacts[stage] = Content(agent)]
           own == agent.own \cup {stage}
<1>1. agent \in AgentType /\ AgentOK(p) /\ agent.state \in StateType
      /\ agent.policy \in Policies /\ agent.own \in SUBSET Written
  BY DEF IInv, Types, AgentType
<1>2. /\ pc[p] = "wrote" /\ agent.state.step < 5 /\ Position(agent.state)
      /\ stage \in Written
  BY <1>1 DEF AgentOK, RecordArtifact
<1>3. Content(agent) \in Contents /\ agent.state.step >= 3
  BY <1>1, <1>2, ContentOK
<1>4. /\ s \in StateType /\ Position(s)
      /\ s.step = agent.state.step /\ s.history = agent.state.history
      /\ s.params = agent.state.params
      /\ s.artifacts = [agent.state.artifacts EXCEPT ![stage] = Content(agent)]
  <2>1. \A later : later = s =>
           /\ later \in StateType /\ Position(later)
           /\ later.step = agent.state.step /\ later.history = agent.state.history
           /\ later.params = agent.state.params
           /\ later.artifacts = [agent.state.artifacts EXCEPT ![stage] = Content(agent)]
    BY <1>1, <1>2, <1>3, RecordedOK
  <2> QED
    BY <2>1
<1>5. /\ runtime' = [runtime EXCEPT ![p] = [@ EXCEPT !.state = Advance(s, agent.policy),
                                                   !.own = own]]
      /\ AfterStep(p, Advance(s, agent.policy))
      /\ UNCHANGED <<command, saved, files>>
  BY DEF RecordArtifact
<1> HIDE DEF s
<1>6. Advance(s, agent.policy).step = s.step + 1
  BY <1>1, <1>2, <1>4, AdvanceOK
<1>7. NoneShared => /\ "report" \in own => Advance(s, agent.policy).step >= 4
                    /\ "review" \in own => Advance(s, agent.policy).step >= 5
                    /\ \A id \in own : files[WorkspaceOf[p]][id] = s.artifacts[id]
  <2>1. agent.state.step \in 3 .. 4
    BY <1>1, <1>2, <1>3 DEF StateType
  <2>2. stage = "review" => agent.state.step = 4
    BY <2>1, PlanFacts DEF Stage
  <2>3. NoneShared => \A id \in own : files[WorkspaceOf[p]][id] = s.artifacts[id]
    <3>1. agent.state.artifacts \in [Written -> Contents]
      BY <1>1 DEF StateType
    <3>2. s.artifacts[stage] = Content(agent)
      BY <1>2, <1>4, <3>1
    <3>3. \A id \in agent.own : id # stage => s.artifacts[id] = agent.state.artifacts[id]
      BY <1>1, <1>4, <3>1
    <3> QED
      BY <1>1, <1>2, <3>2, <3>3 DEF AgentOK, OnDisk
  <2>4. NoneShared => ("review" \in agent.own => agent.state.step >= 5)
    BY <1>1 DEF AgentOK, OnDisk
  <2> QED
    BY <1>2, <1>4, <1>6, <2>1, <2>2, <2>3, <2>4
<1>8. own \in SUBSET Written
  BY <1>1, <1>2
<1> HIDE DEF own
<1> QED
  BY <1>2, <1>4, <1>5, <1>7, <1>8, SteppedOK

\* Adopting a state: its policy is taken over unless it is a rejected one, and
\* nothing is taken over of a state without sufficient grants.
LEMMA ImportedOK ==
    ASSUME NEW agent \in AgentType, NEW s \in StateType, Taken(agent)
    PROVE  /\ Imported(agent, s) \in AgentType
           /\ Imported(agent, s).state = IF s.granted \in Sufficient THEN s ELSE agent.state
           /\ Imported(agent, s).own = agent.own
           /\ Taken(Imported(agent, s))
<1> DEFINE state == IF s.granted \in Sufficient THEN s ELSE agent.state
           policy == IF Refuses(s) THEN agent.policy ELSE s.params
           label == IF Refuses(s) \/ s.model = NoModel THEN agent.label ELSE s.model
           later == Imported(agent, s)
<1>1. later = [agent EXCEPT !.state = state, !.policy = policy, !.label = label]
  BY DEF Imported, AgentType
<1>2. s.params \in Params /\ s.model \in Models \cup {NoModel}
  BY DEF StateType
<1>3. state \in StateType /\ policy \in Policies /\ label \in Models
  BY <1>2 DEF AgentType, Refuses, Params
<1>4. /\ later \in AgentType /\ later.state = state /\ later.own = agent.own
      /\ later.policy = policy
  BY <1>1, <1>3 DEF AgentType
<1>5. state.params \in Policies => policy = state.params
  BY <1>2, PlaceAssumption DEF Taken, Refuses, Params
<1> QED
  BY <1>4, <1>5 DEF Taken

LEMMA ReconfigureStep ==
    ASSUME IInv, NEW p \in Procs, NEW params \in Params, NEW granted \in GrantSets,
           Reconfigure(p, params, granted)
    PROVE  IInv'
<1> DEFINE agent == runtime[p]
           t == [agent.state EXCEPT !.params = params, !.granted = granted]
           s == IF t.granted \in Sufficient THEN t ELSE agent.state
<1>1. agent \in AgentType /\ AgentOK(p) /\ agent.state \in StateType
  BY DEF IInv, Types, AgentType
<1>2. /\ s \in StateType /\ s.step = agent.state.step /\ s.history = agent.state.history
      /\ s.artifacts = agent.state.artifacts /\ s.completed = agent.state.completed
      /\ s.pending = agent.state.pending /\ s.task = agent.state.task
      /\ s.status = agent.state.status
  BY <1>1 DEF StateType
<1>3. t \in StateType /\ Position(s)
  BY <1>1, <1>2 DEF AgentOK, Position, StateType
<1>4. /\ pc[p] = "work"
      /\ runtime' = [runtime EXCEPT ![p] = Imported(agent, t)]
      /\ UNCHANGED <<pc, command, saved, files>>
  BY DEF Reconfigure
<1> HIDE DEF t
<1>5. /\ runtime'[p] \in AgentType /\ runtime'[p].state = s
      /\ runtime'[p].own = agent.own /\ Taken(runtime'[p])
  <2>1. runtime'[p] = Imported(agent, t)
    BY <1>4 DEF IInv, Types
  <2>2. Taken(agent)
    BY <1>1, <1>4 DEF AgentOK
  <2> QED
    BY <1>1, <1>3, <2>1, <2>2, ImportedOK
<1> HIDE DEF s
<1>6. Types'
  BY <1>4, <1>5 DEF IInv, Types
<1>7. AgentOK(p)'
  <2>1. command'[p] = "run" => SavedBehind(p)'
    BY <1>1, <1>2, <1>4, <1>5 DEF AgentOK, SavedBehind
  <2>2. NoneShared => OnDisk(p)'
    BY <1>1, <1>2, <1>4, <1>5 DEF AgentOK, OnDisk
  <2> QED
    BY <1>1, <1>2, <1>3, <1>4, <1>5, <2>1, <2>2 DEF AgentOK, NoneShared
<1>8. \A q \in Procs \ {p} : runtime'[q] = runtime[q]
  BY <1>4 DEF IInv, Types
<1> QED
  BY <1>4, <1>6, <1>7, <1>8, OthersKept DEF IInv

\* A command has made an agent: it has written nothing yet.
LEMMA MadeOK ==
    ASSUME IInv, NEW p \in Procs, NEW agent \in AgentType, NEW l \in PCs \ {"wrote"},
           NEW name \in {"run", "resume"},
           Position(agent.state), Taken(agent), agent.own = {},
           l = "work" => agent.state.step < 5,
           name = "run" => l \in {"none", "initial"},
           runtime' = [runtime EXCEPT ![p] = agent],
           pc' = [pc EXCEPT ![p] = l],
           command' = [command EXCEPT ![p] = name],
           UNCHANGED <<saved, files>>
    PROVE  IInv'
<1>1. runtime'[p] = agent /\ pc'[p] = l /\ command'[p] = name
  BY DEF IInv, Types
<1>2. Types'
  BY DEF IInv, Types
<1>3. AgentOK(p)'
  <2>1. command'[p] = "run" => SavedBehind(p)'
    BY <1>1 DEF SavedBehind
  <2>2. OnDisk(p)'
    BY <1>1 DEF OnDisk
  <2> QED
    BY <1>1, <2>1, <2>2 DEF AgentOK, NoneShared
<1>4. \A q \in Procs \ {p} : /\ runtime'[q] = runtime[q] /\ pc'[q] = pc[q]
                             /\ command'[q] = command[q]
  BY DEF IInv, Types
<1> QED
  BY <1>2, <1>3, <1>4, OthersKept DEF IInv

\* An agent as its constructor leaves it.
LEMMA FreshOK ==
    ASSUME NEW label \in Models
    PROVE  /\ Agent(label) \in AgentType /\ Agent(label).own = {}
           /\ Taken(Agent(label)) /\ Position(Agent(label).state)
<1>1. /\ InitialState(DefaultPolicy, label) \in StateType
      /\ Position(InitialState(DefaultPolicy, label))
  BY InitialStateOK, PlaceAssumption DEF Params
<1>2. InitialState(DefaultPolicy, label).params = DefaultPolicy
  BY DEF InitialState
<1> HIDE DEF InitialState
<1> QED
  BY <1>1, <1>2, PlaceAssumption DEF Agent, AgentType, Taken

LEMMA NoAgentOK ==
    NoAgent \in AgentType /\ NoAgent.own = {} /\ Taken(NoAgent) /\ Position(NoAgent.state)
  BY FreshOK, PlaceAssumption DEF NoAgent

\* The agent of a command has adopted a state, or the command has ended.
LEMMA AdoptsOK ==
    ASSUME IInv, NEW p \in Procs, NEW name \in {"run", "resume"},
           NEW agent \in AgentType, agent.own = {}, Taken(agent),
           NEW s \in StateType, Position(s),
           NEW l \in PCs \ {"wrote"}, l = "work" => s.step < 5,
           name = "run" => l \in {"none", "initial"},
           Adopts(p, agent, s, l), Start(p, name), UNCHANGED <<saved, files>>
    PROVE  IInv'
<1>1. command' = [command EXCEPT ![p] = name]
  BY DEF Start
<1>2. CASE ~Refuses(s) /\ runtime' = [runtime EXCEPT ![p] = Imported(agent, s)]
           /\ Become(p, l)
  <2>1. /\ Imported(agent, s) \in AgentType /\ Imported(agent, s).state = s
        /\ Imported(agent, s).own = {} /\ Taken(Imported(agent, s))
    BY <1>2, ImportedOK DEF Refuses
  <2> QED
    BY <1>1, <1>2, <2>1, MadeOK DEF Become
<1>3. CASE runtime' = [runtime EXCEPT ![p] = NoAgent] /\ Become(p, "none")
  <2>1. "none" \in PCs \ {"wrote"}
    BY DEF PCs
  <2> QED
    BY <1>1, <1>3, <2>1, NoAgentOK, MadeOK DEF Become
<1> QED
  BY <1>2, <1>3 DEF Adopts

LEMMA RunStep ==
    ASSUME IInv, NEW p \in Procs, NEW params \in Params, NEW model \in Models,
           Run(p, params, model)
    PROVE  IInv'
<1>1. /\ Agent(model) \in AgentType /\ Agent(model).own = {} /\ Taken(Agent(model))
      /\ InitialState(params, model) \in StateType
      /\ Position(InitialState(params, model))
  BY FreshOK, InitialStateOK
<1>2. "initial" \in PCs \ {"wrote"}
  BY DEF PCs
<1> QED
  BY <1>1, <1>2, AdoptsOK DEF Run

LEMMA PreparedOK ==
    ASSUME NEW s \in StateType, Position(s), NEW params \in Params,
           NEW model \in Models \cup {NoModel}, NEW granted \in GrantSets
    PROVE  /\ Prepared(s, params, model, granted) \in StateType
           /\ Position(Prepared(s, params, model, granted))
           /\ Prepared(s, params, model, granted).step = s.step
<1> DEFINE t == Prepared(s, params, model, granted)
<1>1. t = [s EXCEPT !.params = params, !.model = model, !.granted = granted,
              !.status = IF s.status \in {"suspended", "blocked"} THEN "running"
                                                                  ELSE s.status]
  BY DEF Prepared, StateType
<1>2. /\ t.step = s.step /\ t.task = s.task /\ t.completed = s.completed
      /\ t.pending = s.pending /\ t.history = s.history
      /\ t.status = IF s.status \in {"suspended", "blocked"} THEN "running" ELSE s.status
  BY <1>1 DEF StateType
<1>3. t \in StateType
  BY <1>1 DEF StateType
<1> HIDE DEF t
<1>4. Position(t)
  BY <1>2 DEF Position, StateType
<1> QED
  BY <1>2, <1>3, <1>4 DEF t

LEMMA ResumeStep ==
    ASSUME IInv, NEW p \in Procs, NEW state \in saved, NEW params \in Params,
           NEW model \in Models \cup {NoModel}, NEW granted \in GrantSets,
           NEW drive \in BOOLEAN,
           Resume(p, state, params, model, granted, drive)
    PROVE  IInv'
<1> DEFINE s == Prepared(state, params, model, granted)
           l == IF drive /\ ~Finished(state) THEN "work" ELSE "save"
<1>1. s \in StateType /\ Position(s) /\ s.step = state.step
  BY PreparedOK DEF IInv, Types
<1>2. Start(p, "resume") /\ Adopts(p, NoAgent, s, l) /\ UNCHANGED <<saved, files>>
  BY DEF Resume
<1>3. l \in PCs \ {"wrote"} /\ (l = "work" => s.step < 5)
  <2>1. state.step \in 0 .. 5
    BY DEF IInv, Types, StateType
  <2>2. Finished(state) <=> state.step >= 5
    BY PlanFacts DEF Finished
  <2> QED
    BY <1>1, <2>1, <2>2 DEF PCs
<1> HIDE DEF s, l
<1> QED
  BY <1>1, <1>2, <1>3, NoAgentOK, AdoptsOK

LEMMA SaveStep ==
    ASSUME IInv, NEW p \in Procs, NEW stop \in BOOLEAN, Save(p, stop)
    PROVE  IInv'
<1> DEFINE agent == runtime[p]
<1>1. agent \in AgentType /\ AgentOK(p) /\ agent.state \in StateType
  BY DEF IInv, Types, AgentType
<1>2. /\ saved' = saved \cup {agent.state}
      /\ UNCHANGED <<command, runtime, files>>
      /\ pc'[p] \in {"work", "done"}
      /\ pc'[p] = "work" => agent.state.step < 5
      /\ \A q \in Procs \ {p} : pc'[q] = pc[q]
      /\ pc' \in [Procs -> PCs]
      /\ pc[p] # "none"
  BY <1>1, PlanFacts DEF Save, Become, Finished, IInv, Types, StateType, PCs
<1>3. Types'
  BY <1>1, <1>2 DEF IInv, Types
<1>4. AgentOK(p)'
  <2>1. command'[p] = "run" => SavedBehind(p)'
    BY <1>2 DEF SavedBehind
  <2>2. NoneShared => OnDisk(p)'
    BY <1>1, <1>2 DEF AgentOK, OnDisk
  <2> QED
    BY <1>1, <1>2, <2>1, <2>2 DEF AgentOK, NoneShared
<1>5. \A s \in saved' : Position(s)
  BY <1>1, <1>2 DEF AgentOK, IInv
<1> QED
  BY <1>2, <1>3, <1>4, <1>5, OthersKept

LEMMA CrashStep ==
    ASSUME IInv, NEW p \in Procs, Crash(p)
    PROVE  IInv'
<1>1. /\ runtime' = [runtime EXCEPT ![p] = NoAgent]
      /\ pc' = [pc EXCEPT ![p] = "none"]
      /\ command' = [command EXCEPT ![p] = command[p]]
      /\ UNCHANGED <<saved, files>> /\ command[p] \in {"run", "resume"}
  BY DEF Crash, Become, IInv, Types
<1>2. "none" \in PCs \ {"wrote"}
  BY DEF PCs
<1> QED
  BY <1>1, <1>2, NoAgentOK, MadeOK

-----------------------------------------------------------------------------
(* The theorems *)

LEMMA InitOK == Init => IInv
<1> SUFFICES ASSUME Init PROVE IInv
  OBVIOUS
<1>1. Types
  BY NoAgentOK DEF Init, Types, PCs, Contents
<1>2. ASSUME NEW p \in Procs PROVE AgentOK(p)
  <2>1. runtime[p] = NoAgent /\ pc[p] = "none"
    BY DEF Init
  <2> QED
    BY <2>1, NoAgentOK DEF AgentOK, SavedBehind, OnDisk
<1> QED
  BY <1>1, <1>2 DEF IInv, Init

LEMMA StepOK == IInv /\ [Next]_vars => IInv'
<1> SUFFICES ASSUME IInv, [Next]_vars PROVE IInv'
  OBVIOUS
<1>1. CASE UNCHANGED vars
  BY <1>1 DEF vars, IInv, Types, AgentOK, SavedBehind, OnDisk
<1>2. ASSUME NEW p \in Procs, Continue(p) PROVE IInv'
  BY <1>2, ThinkStep, WriteFileStep, RecordArtifactStep, SaveStep DEF Continue
<1>3. ASSUME NEW p \in Procs, NEW params \in Params, NEW granted \in GrantSets,
             Reconfigure(p, params, granted)
      PROVE  IInv'
  BY <1>3, ReconfigureStep
<1>4. ASSUME NEW p \in Procs, NEW params \in Params, NEW model \in Models,
             Run(p, params, model)
      PROVE  IInv'
  BY <1>4, RunStep
<1>5. ASSUME NEW p \in Procs, NEW state \in saved, NEW params \in Params,
             NEW model \in Models \cup {NoModel}, NEW granted \in GrantSets,
             NEW drive \in BOOLEAN,
             Resume(p, state, params, model, granted, drive)
      PROVE  IInv'
  BY <1>5, ResumeStep
<1>6. ASSUME NEW p \in Procs, Crash(p) PROVE IInv'
  BY <1>6, CrashStep
<1> QED
  BY <1>1, <1>2, <1>3, <1>4, <1>5, <1>6 DEF Next

\* The inductive invariant holds in every state of every behaviour.
THEOREM AgentInvariant == Spec => []IInv
<1> QED
  BY InitOK, StepOK, PTL DEF Spec

\* PositionAgrees, for any processes, policies, models and number of commands:
\* no sequence of runs, resumes, reconfigurations and crashes leaves a state,
\* live or saved, whose execution record (step, task, completed and pending
\* tasks, status, history) disagrees with itself.
THEOREM PositionsAgree == Spec => []PositionAgrees
<1>1. IInv => PositionAgrees
  <2> SUFFICES ASSUME IInv, NEW s \in States
               PROVE  /\ s.completed \o s.pending = Plan
                      /\ Len(s.completed) = s.step /\ Len(s.history) = s.step
                      /\ s.task = IF s.pending = <<>> THEN "complete" ELSE Head(s.pending)
                      /\ s.status = "completed" <=> s.pending = <<>>
    BY DEF PositionAgrees
  <2>1. s \in StateType /\ Position(s)
    BY DEF States, IInv, Types, AgentType, AgentOK
  <2>2. s.step \in 0 .. 5
    BY <2>1 DEF StateType
  <2>3. /\ s.completed \o s.pending = Plan /\ Len(s.completed) = s.step
        /\ s.pending = <<>> <=> s.step = 5
        /\ s.step < 5 => Head(s.pending) = Plan[s.step + 1]
    <3>1. s.completed = SubSeq(Plan, 1, s.step) /\ s.pending = SubSeq(Plan, s.step + 1, 5)
      BY <2>1 DEF Position
    <3>2. \A n \in 0 .. 5 :
             /\ SubSeq(Plan, 1, n) \o SubSeq(Plan, n + 1, 5) = Plan
             /\ Len(SubSeq(Plan, 1, n)) = n
             /\ SubSeq(Plan, n + 1, 5) = <<>> <=> n = 5
             /\ n < 5 => Head(SubSeq(Plan, n + 1, 5)) = Plan[n + 1]
      BY PlanSplits
    <3> QED
      BY <2>2, <3>1, <3>2
  <2>4. /\ Len(s.history) = s.step
        /\ s.task = IF s.step = 5 THEN "complete" ELSE Plan[s.step + 1]
        /\ s.status = "completed" <=> s.step = 5
    BY <2>1 DEF Position
  <2>5. s.task = IF s.pending = <<>> THEN "complete" ELSE Head(s.pending)
    <3>1. CASE s.step = 5
      BY <2>3, <2>4, <3>1
    <3>2. CASE s.step < 5
      <4>1. s.pending # <<>> /\ s.step # 5
        BY <2>2, <2>3, <3>2
      <4>2. s.task = Plan[s.step + 1] /\ Head(s.pending) = Plan[s.step + 1]
        BY <2>3, <2>4, <3>2, <4>1
      <4> QED
        BY <4>1, <4>2
    <3> QED
      BY <2>2, <3>1, <3>2
  <2> QED
    BY <2>3, <2>4, <2>5
<1> QED
  BY <1>1, AgentInvariant, PTL

\* PolicyIsTheStates: whatever is resumed or reconfigured, an agent works under
\* the policy its state carries unless from_params has rejected that policy.
THEOREM PoliciesAreTheStates == Spec => []PolicyIsTheStates
<1>1. IInv => PolicyIsTheStates
  BY DEF IInv, AgentOK, Taken, PolicyIsTheStates, Live
<1> QED
  BY <1>1, AgentInvariant, PTL

LEMMA PrefixByElements ==
    ASSUME NEW S, NEW a \in Seq(S), NEW b \in Seq(S), Len(a) <= Len(b),
           \A i \in 1 .. Len(a) : a[i] = b[i]
    PROVE  IsPrefix(a, b)
<1>1. Len(a) \in Nat /\ Len(b) \in Nat
  BY LenProperties
<1>2. SubSeq(a, 1, Len(a)) = a
  BY SubSeqFull
<1>3. /\ SubSeq(b, 1, Len(a)) \in Seq(S)
      /\ Len(SubSeq(b, 1, Len(a))) = Len(a)
      /\ \A i \in 1 .. Len(a) : SubSeq(b, 1, Len(a))[i] = b[i]
  <2>1. \A i \in 1 .. Len(a) : b[i] \in S
    BY <1>1, ElementOfSeq
  <2> QED
    BY <1>1, <2>1, SubSeqProperties
<1>4. SubSeq(b, 1, Len(a)) = a
  BY <1>3, SeqEqual
<1> QED
  BY <1>2, <1>4 DEF IsPrefix

\* CrashLosesOneStep: at every point of a run where its process may die, a state
\* at most one step behind is among the checkpoints, however many commands of
\* however many processes came before.
THEOREM CrashesLoseOneStep == Spec => []CrashLosesOneStep
<1>1. IInv => CrashLosesOneStep
  <2> SUFFICES ASSUME IInv, NEW p \in Procs, Live(p), command[p] = "run"
               PROVE  \E t \in saved : /\ IsPrefix(t.history, runtime[p].state.history)
                                       /\ t.step + 1 >= runtime[p].state.step
    BY DEF CrashLosesOneStep
  <2> DEFINE s == runtime[p].state
  <2>1. s \in StateType /\ SavedBehind(p)
    BY DEF IInv, Types, AgentType, AgentOK
  <2>2. \A t \in saved : t \in StateType
    BY DEF IInv, Types
  <2>3. CASE pc[p] = "save"
    <3>1. PICK t \in saved, policy \in Policies :
             s.history = Append(t.history, policy) /\ s.step = t.step + 1
      BY <2>1, <2>3 DEF SavedBehind
    <3>2. t.history \in Seq(Policies) /\ s.history \in Seq(Policies) /\ t.step \in Nat
      <4>1. t \in StateType /\ s \in StateType
        BY <2>1, <2>2
      <4> HIDE DEF s
      <4> QED
        BY <4>1 DEF StateType
    <3>3. /\ Len(t.history) <= Len(s.history)
          /\ \A i \in 1 .. Len(t.history) : t.history[i] = s.history[i]
      BY <3>1, <3>2, AppendProperties, LenProperties
    <3>4. IsPrefix(t.history, s.history)
      BY <3>2, <3>3, PrefixByElements
    <3> QED
      BY <3>1, <3>2, <3>4
  <2>4. CASE pc[p] # "save"
    <3>1. pc[p] \in {"work", "wrote", "done"}
      BY <2>4 DEF Live, IInv, Types, PCs
    <3>2. PICK t \in saved : t.history = s.history /\ t.step = s.step
      BY <2>1, <3>1 DEF SavedBehind
    <3>3. t.history \in Seq(Policies) /\ t.step \in Nat
      BY <2>2 DEF StateType
    <3>4. IsPrefix(t.history, s.history)
      BY <3>2, <3>3, LenProperties, PrefixByElements
    <3> QED
      BY <3>2, <3>3, <3>4
  <2> QED
    BY <2>3, <2>4
<1> QED
  BY <1>1, AgentInvariant, PTL

\* OwnArtifactsOnDisk, when no two processes share a workspace: what a living
\* agent has written is on disk with the content its state records.  (Branches
\* of a fork in one workspace overwrite each other's files.)
THEOREM OwnArtifactsStay ==
    ASSUME NoneShared
    PROVE  Spec => []OwnArtifactsOnDisk
<1>1. IInv => OwnArtifactsOnDisk
  BY DEF IInv, AgentOK, OnDisk, OwnArtifactsOnDisk
<1> QED
  BY <1>1, AgentInvariant, PTL

=============================================================================
