------------------------------ MODULE Transcript ------------------------------
(***************************************************************************)
(* A conversation that grows and is compacted again and again, and what    *)
(* compaction promises about it (continuum/compaction.py).                 *)
(***************************************************************************)
EXTENDS Compaction

CONSTANTS
    Kinds,          \* the messages an agent may add: role, pin, size and text
    Budgets,        \* the budgets compaction is asked for
    MaxMessages     \* bound: messages ever added

\* Token counters count, and budgets are numbers.
ASSUME SizesAssumption ==
    /\ \A kind \in Kinds : kind.size \in Nat
    /\ Budgets \subseteq Int

VARIABLES
    said,           \* every message ever added, by number
    context,        \* the conversation the state carries
    memory          \* the summaries compaction has left in the memory

vars == <<said, context, memory>>

Numbered(kind, n) ==
    [id |-> n, role |-> kind.role, pinned |-> kind.pinned,
     size |-> kind.size, text |-> kind.text]

Init ==
    /\ said = <<>>
    /\ context = <<>>
    /\ memory = <<>>

Say(kind) ==
    LET m == Numbered(kind, Len(said) + 1)
    IN /\ Len(said) < MaxMessages
       /\ said' = Append(said, m)
       /\ context' = Append(context, m)
       /\ UNCHANGED memory

\* Slip: the entry counts compactions and not messages.
OneSummary(dropped) == [dropped |-> 1, transformed |-> TRUE]

Summary(dropped) == [dropped |-> Len(dropped), transformed |-> TRUE]

\* compact_context returns a new state or raises and leaves the old one.
Shrink(max) ==
    LET c == Compact(context, max)
    IN /\ c.outcome = "compacted"
       /\ context' = c.context
       /\ memory' = Append(memory, Summary(c.dropped))
       /\ UNCHANGED said

Next ==
    \/ \E kind \in Kinds : Say(kind)
    \/ \E max \in Budgets : Shrink(max)

Spec == Init /\ [][Next]_vars

-----------------------------------------------------------------------------

Numbers(messages) == {messages[i].id : i \in DOMAIN messages}

\* However often a conversation is compacted, every pinned message and every
\* system prompt ever added is still there: "Pinned messages and the system
\* prompt are never dropped".
InstructionsKept ==
    \A i \in DOMAIN said : said[i].pinned \/ said[i].role = "system" =>
        i \in Numbers(context)

\* The messages of a conversation keep the order they were added in.
OrderKept ==
    \A i, j \in DOMAIN context : i < j => context[i].id < context[j].id

\* How many messages the entries of a memory say are gone.
Lost(entries) ==
    LET gone(i) == entries[i].dropped IN MapThenSumSet(gone, DOMAIN entries)

\* The summaries in the memory account for every message that is gone, over any
\* number of compactions: what is dropped is never dropped silently.
LossAccounted == Len(said) = Len(context) + Lost(memory)

\* The result fits the budget and something was dropped to make it fit; a budget
\* is refused only when instructions and recent messages exceed it.
FitsBudget ==
    \A max \in Budgets :
        LET c == Compact(context, max)
        IN /\ c.outcome = "compacted" => Cost(c.context) <= max /\ c.dropped # <<>>
           /\ c.outcome = "refused" => CostAt(context, Protected(context)) > max

\* A message gives way only to what is protected and to newer messages: it is
\* dropped where it did not fit the budget beside those. Nothing is said of the
\* messages older than it, of which smaller ones may stay, nor is the loss the
\* smallest there could be.
YieldsToNewer ==
    \A max \in Budgets :
        LET c == Compact(context, max)
            kept == {i \in DOMAIN context : context[i].id \in Numbers(c.context)}
        IN c.outcome = "compacted" =>
             \A i \in (DOMAIN context) \ kept :
                 LET before == Protected(context) \cup {j \in kept : j > i}
                 IN CostAt(context, before) + context[i].size > max

=============================================================================
