----------------------------- MODULE NativeAgent -----------------------------
(***************************************************************************)
(* The reference review agent (continuum/adapters/native.py) driven by the *)
(* run and resume commands of continuum/cli.py.  An agent lives in a       *)
(* process and dies with it; its checkpoints and the artifact files of its *)
(* workspace stay.  What a stage computes is told apart only by the policy *)
(* and the model label it ran under, since the corpus does not change.     *)
(***************************************************************************)
EXTENDS Naturals, Sequences, SequencesExt

CONSTANTS
    Procs,          \* processes that run a command
    Workspaces,     \* directories with a corpus and an artifacts directory
    WorkspaceOf,    \* the workspace of a process
    Policies,       \* review policies from_params accepts
    BadPolicies,    \* provider.params it rejects
    DefaultPolicy,  \* ReviewPolicy(), which it also makes of empty parameters
    Models,         \* model labels
    DefaultModel,   \* the label of an agent built without one
    NoModel,        \* the empty model name, as a migration may leave it
    GrantSets,      \* sets of granted capabilities
    Sufficient,     \* those that satisfy REQUIRED_CAPABILITIES
    OwnGrants,      \* what a new agent grants itself
    MaxCommands     \* bound: commands and imports in a behaviour

ASSUME PlaceAssumption ==
    /\ WorkspaceOf \in [Procs -> Workspaces]
    /\ Policies \cap BadPolicies = {}
    /\ DefaultPolicy \in Policies
    /\ DefaultModel \in Models /\ NoModel \notin Models
    /\ Sufficient \subseteq GrantSets /\ OwnGrants \in Sufficient

VARIABLES
    pc,             \* where the command of each process is
    command,        \* "run" or "resume"
    runtime,        \* the agent object of each process
    saved,          \* the states checkpointed so far
    files,          \* the artifact files of each workspace
    commands        \* commands and imports so far

vars == <<pc, command, runtime, saved, files, commands>>

Plan == <<"scan", "extract", "rank", "report", "review">>
Written == {"report", "review"}     \* the stages that write an artifact
NoArtifact == <<>>

Stages == ToSet(Plan)
Params == Policies \cup BadPolicies
PCs == {"none", "initial", "work", "wrote", "save", "done"}

\* history: the policy each completed stage ran under (the event history).
InitialState(policy, model) ==
    [step |-> 0, status |-> "suspended", task |-> Head(Plan), completed |-> <<>>,
     pending |-> Plan, params |-> policy, model |-> model, granted |-> OwnGrants,
     history |-> <<>>, artifacts |-> [id \in Written |-> NoArtifact]]

\* An agent as the constructor leaves it when it is given a label and no policy.
\* own: the artifacts this object has written.
Agent(label) ==
    [state |-> InitialState(DefaultPolicy, label), policy |-> DefaultPolicy,
     label |-> label, own |-> {}]

NoAgent == Agent(DefaultModel)

Init ==
    /\ pc = [p \in Procs |-> "none"]
    /\ command = [p \in Procs |-> "run"]
    /\ runtime = [p \in Procs |-> NoAgent]
    /\ saved = {}
    /\ files = [w \in Workspaces |-> [id \in Written |-> NoArtifact]]
    /\ commands = 0

Become(p, l) == pc' = [pc EXCEPT ![p] = l]

Stage(state) == Plan[state.step + 1]
Finished(state) == state.step >= Len(Plan)

-----------------------------------------------------------------------------
(* step *)

\* Slip: the step does not advance when there is more to do.
AdvanceLast(state, policy) ==
    IF state.step + 1 < Len(Plan) THEN state
    ELSE [state EXCEPT !.step = @ + 1, !.history = Append(@, policy)]

\* The new execution record of a state whose next stage has run.
Advance(state, policy) ==
    LET n == state.step + 1
        done == n >= Len(Plan)
    IN [state EXCEPT !.step = n,
                     !.status = IF done THEN "completed" ELSE "running",
                     !.task = IF done THEN "complete" ELSE Plan[n + 1],
                     !.completed = SubSeq(Plan, 1, n),
                     !.pending = SubSeq(Plan, n + 1, Len(Plan)),
                     !.history = Append(@, policy)]

\* A report depends on the ranking in the state and on the agent that writes it.
Content(agent) == <<agent.state.history[3], agent.policy, agent.label>>

\* Slip: run steps on as resume does.
AfterPlan(p, state) == Become(p, IF Finished(state) THEN "save" ELSE "work")

\* After a step, run checkpoints; resume steps on until the plan is done.
AfterStep(p, state) ==
    Become(p, IF command[p] = "run" \/ Finished(state) THEN "save" ELSE "work")

\* A stage that only changes the state.
Think(p) ==
    /\ pc[p] = "work" /\ ~Finished(runtime[p].state)
    /\ Stage(runtime[p].state) \notin Written
    /\ LET after == Advance(runtime[p].state, runtime[p].policy)
       IN /\ runtime' = [runtime EXCEPT ![p].state = after]
          /\ AfterStep(p, after)
    /\ UNCHANGED <<command, saved, files, commands>>

\* A stage that writes an artifact: the file first, then the state.
WriteFile(p) ==
    /\ pc[p] = "work" /\ ~Finished(runtime[p].state)
    /\ LET stage == Stage(runtime[p].state)
       IN /\ stage \in Written
          /\ files' = [files EXCEPT ![WorkspaceOf[p]][stage] = Content(runtime[p])]
    /\ Become(p, "wrote")
    /\ UNCHANGED <<command, runtime, saved, commands>>

\* Slip: the artifact is recorded under the policy the state asks for.
RecordAsked(p) ==
    /\ pc[p] = "wrote"
    /\ LET agent == runtime[p]
           stage == Stage(agent.state)
           content == <<agent.state.history[3], agent.state.history[1], agent.label>>
           after == Advance([agent.state EXCEPT !.artifacts[stage] = content],
                            agent.policy)
       IN /\ runtime' = [runtime EXCEPT ![p].state = after,
                                        ![p].own = @ \cup {stage}]
          /\ AfterStep(p, after)
    /\ UNCHANGED <<command, saved, files, commands>>

RecordArtifact(p) ==
    /\ pc[p] = "wrote"
    /\ LET agent == runtime[p]
           stage == Stage(agent.state)
           after == Advance([agent.state EXCEPT !.artifacts[stage] = Content(agent)],
                            agent.policy)
       IN /\ runtime' = [runtime EXCEPT ![p].state = after,
                                        ![p].own = @ \cup {stage}]
          /\ AfterStep(p, after)
    /\ UNCHANGED <<command, saved, files, commands>>

-----------------------------------------------------------------------------
(* import_state *)

\* A refusal for want of grants comes before the state is replaced, one of the
\* parameters after; a state that names no model leaves the label as it was.
Refuses(state) == state.granted \notin Sufficient \/ state.params \in BadPolicies

\* Slip: the policy the object was built with is kept.
ImportedStateOnly(agent, state) ==
    [agent EXCEPT !.state = IF state.granted \in Sufficient THEN state ELSE @,
                  !.label = IF Refuses(state) \/ state.model = NoModel THEN @
                            ELSE state.model]

Imported(agent, state) ==
    [agent EXCEPT !.state = IF state.granted \in Sufficient THEN state ELSE @,
                  !.policy = IF Refuses(state) THEN @ ELSE state.params,
                  !.label = IF Refuses(state) \/ state.model = NoModel THEN @
                            ELSE state.model]

\* A program that holds an agent gives it other parameters or grants between two
\* steps and goes on when import_state raises.
Reconfigure(p, params, granted) ==
    /\ pc[p] = "work"
    /\ <<params, granted>> # <<runtime[p].state.params, runtime[p].state.granted>>
    /\ commands < MaxCommands /\ commands' = commands + 1
    /\ runtime' = [runtime EXCEPT ![p] =
          Imported(@, [@.state EXCEPT !.params = params, !.granted = granted])]
    /\ UNCHANGED <<pc, command, saved, files>>

-----------------------------------------------------------------------------
(* The commands *)

Start(p, name) ==
    /\ pc[p] \in {"none", "done"}
    /\ commands < MaxCommands
    /\ commands' = commands + 1
    /\ command' = [command EXCEPT ![p] = name]

\* The agent of a command adopts a state and goes on at l, or the command ends
\* with the error of import_state before it has saved anything.
Adopts(p, agent, state, l) ==
    \/ /\ ~Refuses(state)
       /\ runtime' = [runtime EXCEPT ![p] = Imported(agent, state)]
       /\ Become(p, l)
    \/ /\ Refuses(state)
       /\ runtime' = [runtime EXCEPT ![p] = NoAgent]
       /\ Become(p, "none")

\* run: always a new agent, given the parameters of the command line and
\* checkpointed before its first step.
Run(p, params, model) ==
    /\ Start(p, "run")
    /\ Adopts(p, Agent(model), InitialState(params, model), "initial")
    /\ UNCHANGED <<saved, files>>

\* Slip: a resumed state is suspended until its first step.
PreparedSuspended(state, params, model, granted) ==
    [state EXCEPT !.params = params, !.model = model, !.granted = granted,
                  !.status = "suspended"]

\* The command may put other parameters or another model into the state, and
\* other grants; a migrated state has lost its parameters and may name no model.
Prepared(state, params, model, granted) ==
    [state EXCEPT !.params = params, !.model = model, !.granted = granted,
                  !.status = IF @ \in {"suspended", "blocked"} THEN "running" ELSE @]

\* resume: a new agent with neither policy nor label of its own takes over any
\* saved state; --run drives it to completion, then it is saved.  Where the
\* capability gate blocks, or is lifted by allow_degraded, the agent's own
\* refusal ends the command the same way.
Resume(p, state, params, model, granted, drive) ==
    /\ Start(p, "resume")
    /\ Adopts(p, NoAgent, Prepared(state, params, model, granted),
              IF drive /\ ~Finished(state) THEN "work" ELSE "save")
    /\ UNCHANGED <<saved, files>>

\* The checkpoint of a command; run may be told to stop after some steps.
Save(p, stop) ==
    /\ pc[p] \in {"initial", "save"}
    /\ saved' = saved \cup {runtime[p].state}
    /\ Become(p, IF command[p] = "resume" \/ Finished(runtime[p].state)
                    \/ (stop /\ pc[p] = "save") THEN "done" ELSE "work")
    /\ UNCHANGED <<command, runtime, files, commands>>

\* The process dies, and its agent with it.
Crash(p) ==
    /\ pc[p] \notin {"none", "done"}
    /\ Become(p, "none")
    /\ runtime' = [runtime EXCEPT ![p] = NoAgent]
    /\ UNCHANGED <<command, saved, files, commands>>

Continue(p) ==
    \/ Think(p)
    \/ WriteFile(p)
    \/ RecordArtifact(p)
    \/ \E stop \in BOOLEAN : Save(p, stop)

Next == \E p \in Procs :
    \/ Continue(p)
    \/ \E params \in Params, granted \in GrantSets : Reconfigure(p, params, granted)
    \/ \E params \in Params, model \in Models : Run(p, params, model)
    \/ \E state \in saved, params \in Params, model \in Models \cup {NoModel},
          granted \in GrantSets, drive \in BOOLEAN :
             Resume(p, state, params, model, granted, drive)
    \/ Crash(p)

Spec == Init /\ [][Next]_vars

\* A command is straight-line code: it runs until it ends or its process dies.
FairSpec == Spec /\ \A p \in Procs : WF_vars(Continue(p))

-----------------------------------------------------------------------------

Live(p) == pc[p] \notin {"none", "initial"}

States == saved \cup {runtime[p].state : p \in Procs}

\* Types: the step never leaves the plan, and a state of this agent is suspended,
\* running or completed.
TypeOK ==
    /\ pc \in [Procs -> PCs]
    /\ \A s \in States :
          /\ s.step \in 0 .. Len(Plan)
          /\ s.task \in Stages \cup {"complete"}
          /\ s.status \in {"suspended", "running", "completed"}

\* The five places a state keeps its position in agree, in every state an agent
\* is in or was saved in, also after a resume: completed and pending tasks make
\* up the plan, and the status says whether any is left.  (A state of this agent
\* is never suspended after its first step: see the README on run --steps.)
PositionAgrees ==
    \A s \in States :
        /\ s.completed \o s.pending = Plan
        /\ Len(s.completed) = s.step /\ Len(s.history) = s.step
        /\ s.task = IF s.pending = <<>> THEN "complete" ELSE Head(s.pending)
        /\ s.status = "completed" <=> s.pending = <<>>

\* A run that is killed at any point loses at most the step it was in: the state
\* before that step, or the state itself, has been checkpointed.
CrashLosesOneStep ==
    \A p \in Procs : Live(p) /\ command[p] = "run" =>
        \E s \in saved : /\ IsPrefix(s.history, runtime[p].state.history)
                         /\ s.step + 1 >= runtime[p].state.step

\* The policy an agent works under is the one its state carries, in every state
\* from_params accepts: a rejected one is the only way they come apart.
PolicyIsTheStates ==
    \A p \in Procs : Live(p) /\ runtime[p].state.params \in Policies =>
        runtime[p].policy = runtime[p].state.params

\* An artifact an agent has written is on disk with the content its state
\* records, as long as the agent lives.
OwnArtifactsOnDisk ==
    \A p \in Procs : \A id \in runtime[p].own :
        files[WorkspaceOf[p]][id] = runtime[p].state.artifacts[id]

\* A command that is not killed ends, so that the process is idle again: the plan
\* is finite.
CommandEnds ==
    \A p \in Procs : []<>(pc[p] \in {"none", "done"})
=============================================================================
