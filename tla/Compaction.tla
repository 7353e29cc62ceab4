------------------------------ MODULE Compaction ------------------------------
(***************************************************************************)
(* Fitting a conversation into a token budget (continuum/compaction.py).   *)
(*                                                                         *)
(* A message has a role, a pin, a size in tokens under whatever counter is *)
(* in use, and a text that is either empty, blank (white space only) or    *)
(* words; nothing else of it matters here.                                 *)
(***************************************************************************)
EXTENDS Integers, Sequences, SequencesExt

CONSTANT KeepRecent     \* how many of the newest messages are never dropped

ASSUME KeepRecentAssumption == KeepRecent \in Nat

Texts == {"empty", "blank", "words"}

CostAt(context, S) ==
    LET size(i) == context[i].size IN MapThenSumSet(size, S)

Cost(context) == CostAt(context, DOMAIN context)

\* Slip: a pin protects only the system prompt.
PinnedSystem(m) == m.pinned /\ m.role = "system"

\* Pinned messages and the system prompt.
Instruction(m) == m.pinned \/ m.role = "system"

Protected(context) ==
    {i \in DOMAIN context : \/ Instruction(context[i])
                            \/ i > Len(context) - KeepRecent}

\* Slip: newest first.
PickReversed(context, S) ==
    LET add(i, picked) == IF i \in S THEN Append(picked, context[i]) ELSE picked
    IN FoldRightDomain(add, context, <<>>)

\* The messages at S, in order.
Pick(context, S) ==
    LET add(picked, i) == IF i \in S THEN Append(picked, context[i]) ELSE picked
    IN FoldLeftDomain(add, <<>>, context)

\* Slip: the price of a message is not taken off the budget.
KeepUncharged(context, max) ==
    LET protected == Protected(context)
        budget == max - CostAt(context, protected)
    IN protected \cup {i \in DOMAIN context : context[i].size <= budget}

\* Slip: the walk goes from the oldest message to the newest.
KeepOldest(context, max) ==
    LET protected == Protected(context)
        admit(walk, i) ==
            IF i \in walk.kept \/ context[i].size > walk.budget THEN walk
            ELSE [kept |-> walk.kept \cup {i},
                  budget |-> walk.budget - context[i].size]
    IN FoldLeftDomain(admit, [kept |-> protected,
                              budget |-> max - CostAt(context, protected)],
                      context).kept

\* The greedy walk from the newest message to the oldest: what fits the budget
\* that is left is kept, and what does not fit is skipped, so that an older and
\* smaller message may outlive a newer one.
Keep(context, max) ==
    LET protected == Protected(context)
        admit(i, walk) ==
            IF i \in walk.kept \/ context[i].size > walk.budget THEN walk
            ELSE [kept |-> walk.kept \cup {i},
                  budget |-> walk.budget - context[i].size]
    IN FoldRightDomain(admit, context,
                       [kept |-> protected,
                        budget |-> max - CostAt(context, protected)]).kept

\* structural_summary quotes the first line of the first and of the last of the
\* messages it is given; a blank text is not empty and has no first line.
Quotable(dropped) ==
    dropped # <<>> => Head(dropped).text # "blank" /\ Last(dropped).text # "blank"

Fits(context, max) == Cost(context) <= max

Left(outcome, context) == [outcome |-> outcome, context |-> context, dropped |-> <<>>]

\* compact_context: "usage" is its ValueError, "refused" its ContinuumError and
\* "broken" the IndexError of the summary.
Compact(context, max) ==
    LET kept == Keep(context, max)
        dropped == Pick(context, DOMAIN context \ kept)
    IN CASE max <= 0 -> Left("usage", context)
         [] max > 0 /\ Fits(context, max) -> Left("unchanged", context)
         [] /\ max > 0 /\ ~Fits(context, max)
            /\ CostAt(context, Protected(context)) > max -> Left("refused", context)
         [] OTHER ->
              IF Quotable(dropped)
              THEN [outcome |-> "compacted", context |-> Pick(context, kept),
                    dropped |-> dropped]
              ELSE Left("broken", context)
=============================================================================
