-------------------------- MODULE CheckpointLedger ---------------------------
(***************************************************************************)
(* What a checkpoint store promises its one writer (spec/store.md), with   *)
(* no files and no verbs: objects are never removed, the log only grows    *)
(* and never names a state twice, and the tip of an agent is only ever     *)
(* moved to a state that is in the log or that a logged branch forked      *)
(* from.  Whatever is interrupted, nothing else can be observed.           *)
(***************************************************************************)
EXTENDS Naturals, Sequences

CONSTANTS Agents, Stores

VARIABLES
    objects,    \* the addresses in each store
    log,        \* the states recorded in each store, oldest first
    tip         \* the head of each agent, 0 for none

ledger == <<objects, log, tip>>

Init ==
    /\ objects = [s \in Stores |-> {}]
    /\ log = [s \in Stores |-> <<>>]
    /\ tip = [s \in Stores |-> [a \in Agents |-> 0]]

Store(s, d) ==
    /\ objects' = [objects EXCEPT ![s] = @ \cup {d}]
    /\ UNCHANGED <<log, tip>>

Record(s, e) ==
    /\ e.digest \in objects[s]
    /\ \A i \in DOMAIN log[s] : log[s][i].digest # e.digest
    /\ log' = [log EXCEPT ![s] = Append(@, e)]
    /\ UNCHANGED <<objects, tip>>

Move(s, a) ==
    /\ \E i \in DOMAIN log[s] :
          /\ log[s][i].agent = a
          /\ \E d \in {log[s][i].digest, log[s][i].forkedFrom} :
                tip' = [tip EXCEPT ![s][a] = d]
    /\ UNCHANGED <<objects, log>>

\* The state stored or recorded is whatever the step adds.
Next ==
    \E s \in Stores :
        \/ \E d \in objects'[s] : Store(s, d)
        \/ \E i \in DOMAIN log'[s] : Record(s, log'[s][i])
        \/ \E a \in Agents : Move(s, a)

Spec == Init /\ [][Next]_ledger
=============================================================================
