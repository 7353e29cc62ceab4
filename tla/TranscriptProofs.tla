---------------------------- MODULE TranscriptProofs ----------------------------
(***************************************************************************)
(* What compaction promises about a conversation, for any messages, any    *)
(* budgets and any number of compactions.                                  *)
(***************************************************************************)
EXTENDS Transcript, CompactionProofs

\* The messages an agent may have added.
Messages == {Numbered(kind, n) : kind \in Kinds, n \in Nat}

LEMMA MessageFacts ==
    ASSUME NEW m \in Messages
    PROVE  m.id \in Nat /\ m.size \in Nat
BY SizesAssumption DEF Messages, Numbered

LEMMA MessagesSized ==
    ASSUME NEW c \in Seq(Messages)
    PROVE  Sized(c)
BY MessageFacts DEF Sized

-----------------------------------------------------------------------------
(* What the summaries account for *)

Entries == [dropped : Nat, transformed : BOOLEAN]

Losses(entries) == [i \in DOMAIN entries |-> entries[i].dropped]

LEMMA EntriesFacts ==
    ASSUME NEW c \in Seq(Entries)
    PROVE  /\ Len(c) \in Nat /\ DOMAIN c = 1 .. Len(c)
           /\ Losses(c) \in [1 .. Len(c) -> Int]
<1>1. \A e \in Entries : e.dropped \in Int
  BY DEF Entries
<1>2. Len(c) \in Nat /\ DOMAIN c = 1 .. Len(c) /\ \A i \in DOMAIN c : c[i] \in Entries
  OBVIOUS
<1>3. \A i \in DOMAIN c : c[i].dropped \in Int
  BY <1>1, <1>2
<1> QED
  BY <1>2, <1>3 DEF Losses

LEMMA LostIsSum ==
    ASSUME NEW c \in Seq(Entries), NEW F, IsSum(F, Losses(c), Len(c))
    PROVE  Lost(c) = F[DOMAIN c]
<1> DEFINE S == DOMAIN c
           w == Losses(c)
           n == Len(c)
           Body(f) == [s \in SUBSET S |->
                         IF s = {} THEN 0
                         ELSE c[CHOOSE x \in s : TRUE].dropped
                              + f[s \ {CHOOSE x \in s : TRUE}]]
           iter == CHOOSE f : f = Body(f)
<1>1. /\ n \in Nat /\ w \in [1 .. n -> Int] /\ IsSum(F, w, n)
      /\ S \in SUBSET (1 .. n)
  BY EntriesFacts
<1>2. ASSUME NEW f PROVE Body(f) = [s \in SUBSET S |-> SumStep(f, s, w)]
  <2>1. \A s \in SUBSET S : s # {} => (CHOOSE x \in s : TRUE) \in DOMAIN c
    OBVIOUS
  <2>2. \A s \in SUBSET S : s # {} =>
           w[CHOOSE x \in s : TRUE] = c[CHOOSE x \in s : TRUE].dropped
    BY <2>1 DEF Losses
  <2> QED
    BY <2>2 DEF SumStep
<1>3. Lost(c) = iter[S]
  BY DEF Lost, MapThenSumSet, MapThenFoldSet
<1> HIDE DEF Body, w, n, S
<1>4. iter = Body(iter)
  <2>1. \E f : f = Body(f)
    <3>1. \E f : f = [s \in SUBSET S |-> SumStep(f, s, w)]
      BY <1>1, SumFolds
    <3> QED
      BY <1>2, <3>1
  <2> QED
    BY <2>1
<1> HIDE DEF iter
<1>5. SumsUp(iter, S, w)
  BY <1>2, <1>4 DEF SumsUp
<1>6. iter[S] = F[S]
  BY <1>1, <1>5, FoldIsSum
<1> QED
  BY <1>3, <1>6 DEF S

LEMMA LostFacts ==
    ASSUME NEW c \in Seq(Entries)
    PROVE  Lost(c) \in Int
<1>1. Len(c) \in Nat /\ DOMAIN c = 1 .. Len(c) /\ Losses(c) \in [1 .. Len(c) -> Int]
  BY EntriesFacts
<1>2. PICK F : IsSum(F, Losses(c), Len(c))
  BY <1>1, SumExists
<1>3. Lost(c) = F[DOMAIN c]
  BY <1>2, LostIsSum
<1>4. F[DOMAIN c] \in Int
  BY <1>1, <1>2 DEF IsSum
<1> QED
  BY <1>3, <1>4

\* One summary more accounts for the messages it replaces.
LEMMA LostAppend ==
    ASSUME NEW c \in Seq(Entries), NEW e \in Entries
    PROVE  Lost(Append(c, e)) = Lost(c) + e.dropped
<1> DEFINE d == Append(c, e)
           n == Len(c)
<1>1. /\ n \in Nat /\ DOMAIN c = 1 .. n /\ d \in Seq(Entries) /\ DOMAIN d = 1 .. (n + 1)
      /\ Len(d) = n + 1 /\ d[n + 1] = e /\ \A i \in 1 .. n : d[i] = c[i]
  OBVIOUS
<1> HIDE DEF d
<1>2. /\ Losses(c) \in [1 .. n -> Int] /\ Losses(d) \in [1 .. (n + 1) -> Int]
      /\ Losses(d)[n + 1] = e.dropped /\ \A i \in 1 .. n : Losses(d)[i] = Losses(c)[i]
  <2>1. Losses(c) \in [1 .. n -> Int]
    BY EntriesFacts
  <2>2. Losses(d) \in [1 .. Len(d) -> Int]
    BY <1>1, EntriesFacts
  <2>3. Losses(d)[n + 1] = e.dropped /\ \A i \in 1 .. n : Losses(d)[i] = Losses(c)[i]
    BY <1>1 DEF Losses
  <2> QED
    BY <1>1, <2>1, <2>2, <2>3
<1> HIDE DEF n
<1>3. PICK F : IsSum(F, Losses(c), n)
  BY <1>1, <1>2, SumExists
<1>4. PICK G : IsSum(G, Losses(d), n + 1)
  <2>1. n + 1 \in Nat
    BY <1>1
  <2> QED
    BY <1>2, <2>1, SumExists
<1>5. Lost(c) = F[1 .. n] /\ Lost(d) = G[1 .. (n + 1)]
  BY <1>1, <1>3, <1>4, LostIsSum DEF n
<1>6. G[1 .. (n + 1)] = e.dropped + G[1 .. n]
  <2>1. n + 1 \in 1 .. (n + 1) /\ (1 .. (n + 1)) \ {n + 1} = 1 .. n
    BY <1>1
  <2>2. G[1 .. (n + 1)] = Losses(d)[n + 1] + G[(1 .. (n + 1)) \ {n + 1}]
    BY <1>4, <2>1 DEF IsSum
  <2> QED
    BY <1>2, <2>1, <2>2
<1>7. F[1 .. n] = G[1 .. n]
  <2>1. n + 1 \in Nat /\ 1 .. n \in SUBSET (1 .. n) /\ 1 .. n \subseteq 1 .. (n + 1)
    BY <1>1
  <2>2. \A x \in 1 .. n : Losses(c)[x] = Losses(d)[x]
    BY <1>2
  <2> QED
    BY <1>1, <1>3, <1>4, <2>1, <2>2, SumsAgree
<1>8. Lost(c) \in Int /\ e.dropped \in Int
  BY LostFacts DEF Entries
<1> QED
  BY <1>5, <1>6, <1>7, <1>8 DEF d

LEMMA NothingLost == Lost(<<>>) = 0
<1>1. <<>> \in Seq(Entries) /\ Len(<<>>) = 0 /\ DOMAIN <<>> = {}
  OBVIOUS
<1>2. Losses(<<>>) \in [1 .. 0 -> Int]
  BY DEF Losses
<1>3. PICK F : IsSum(F, Losses(<<>>), 0)
  BY <1>2, SumExists
<1> QED
  BY <1>1, <1>3, LostIsSum DEF IsSum

-----------------------------------------------------------------------------
(* The inductive invariant *)

TypeOK ==
    /\ said \in Seq(Messages)
    /\ context \in Seq(Messages)
    /\ memory \in Seq(Entries)

\* Messages are numbered as they are added, and the conversation has them as
\* they were added.
NumberingOK ==
    /\ \A i \in DOMAIN said : said[i].id = i
    /\ \A i \in DOMAIN context : context[i].id \in DOMAIN said
                                 /\ context[i] = said[context[i].id]

IInv == TypeOK /\ NumberingOK /\ OrderKept /\ InstructionsKept /\ LossAccounted

LEMMA InitOK == Init => IInv
<1> SUFFICES ASSUME Init PROVE IInv
  OBVIOUS
<1>1. said = <<>> /\ context = <<>> /\ memory = <<>>
  BY DEF Init
<1>2. TypeOK /\ NumberingOK /\ OrderKept /\ InstructionsKept
  BY <1>1 DEF TypeOK, NumberingOK, OrderKept, InstructionsKept
<1>3. LossAccounted
  BY <1>1, NothingLost DEF LossAccounted
<1> QED
  BY <1>2, <1>3 DEF IInv

LEMMA SayStep ==
    ASSUME IInv, NEW kind \in Kinds, Say(kind)
    PROVE  IInv'
<1> DEFINE n == Len(said)
           k == Len(context)
           m == Numbered(kind, n + 1)
<1>1. said' = Append(said, m) /\ context' = Append(context, m) /\ memory' = memory
  BY DEF Say
<1>2. /\ n \in Nat /\ DOMAIN said = 1 .. n /\ k \in Nat /\ DOMAIN context = 1 .. k
      /\ said \in Seq(Messages) /\ context \in Seq(Messages) /\ memory \in Seq(Entries)
  BY DEF IInv, TypeOK
<1>3. m \in Messages /\ m.id = n + 1
        /\ (Instruction(m) <=> m.pinned \/ m.role = "system")
  BY <1>2 DEF Messages, Numbered, Instruction
<1> HIDE DEF m
<1>4. /\ DOMAIN said' = 1 .. (n + 1) /\ said'[n + 1] = m /\ Len(said') = n + 1
      /\ \A i \in 1 .. n : said'[i] = said[i]
      /\ DOMAIN context' = 1 .. (k + 1) /\ context'[k + 1] = m /\ Len(context') = k + 1
      /\ \A i \in 1 .. k : context'[i] = context[i]
  BY <1>1, <1>2
<1>5. TypeOK'
  BY <1>1, <1>2, <1>3 DEF TypeOK
<1> HIDE DEF n, k
<1>6. NumberingOK'
  <2>1. ASSUME NEW i \in DOMAIN said' PROVE said'[i].id = i
    BY <1>2, <1>3, <1>4 DEF IInv, NumberingOK
  <2>2. ASSUME NEW i \in DOMAIN context'
        PROVE  context'[i].id \in DOMAIN said' /\ context'[i] = said'[context'[i].id]
    <3>1. CASE i \in DOMAIN context
      <4>1. context'[i] = context[i] /\ context[i].id \in 1 .. n
            /\ context[i] = said[context[i].id]
        BY <1>2, <1>4, <3>1 DEF IInv, NumberingOK
      <4> QED
        BY <1>2, <1>4, <4>1
    <3>2. CASE i = k + 1
      BY <1>2, <1>3, <1>4, <3>2
    <3> QED
      BY <1>2, <1>4, <3>1, <3>2
  <2> QED
    BY <2>1, <2>2 DEF NumberingOK
<1>7. OrderKept'
  <2> SUFFICES ASSUME NEW i \in DOMAIN context', NEW j \in DOMAIN context', i < j
               PROVE  context'[i].id < context'[j].id
    BY DEF OrderKept
  <2>1. i \in 1 .. k /\ context'[i] = context[i] /\ context[i].id \in 1 .. n
    BY <1>2, <1>4 DEF IInv, NumberingOK
  <2>2. CASE j \in 1 .. k
    BY <1>2, <1>4, <2>1, <2>2 DEF IInv, OrderKept
  <2>3. CASE j = k + 1
    BY <1>2, <1>3, <1>4, <2>1, <2>3
  <2> QED
    BY <1>2, <1>4, <2>2, <2>3
<1>8. InstructionsKept'
  <2> SUFFICES ASSUME NEW i \in DOMAIN said',
                      said'[i].pinned \/ said'[i].role = "system"
               PROVE  \E j \in DOMAIN context' : context'[j].id = i
    BY DEF InstructionsKept, Numbers
  <2>1. CASE i = n + 1
    BY <1>2, <1>3, <1>4, <2>1
  <2>2. CASE i \in 1 .. n
    <3>1. \E j \in DOMAIN context : context[j].id = i
      BY <1>2, <1>4, <2>2 DEF IInv, InstructionsKept, Numbers
    <3> QED
      BY <1>2, <1>4, <3>1
  <2> QED
    BY <1>2, <1>4, <2>1, <2>2
<1>9. LossAccounted'
  <2>1. Len(said) = Len(context) + Lost(memory) /\ Lost(memory) \in Int
    BY <1>2, LostFacts DEF IInv, LossAccounted
  <2>2. Len(said') = Len(context') + Lost(memory')
    BY <1>1, <1>2, <1>4, <2>1 DEF n, k
  <2> QED
    BY <2>2 DEF LossAccounted
<1> QED
  BY <1>5, <1>6, <1>7, <1>8, <1>9 DEF IInv

LEMMA ShrinkStep ==
    ASSUME IInv, NEW max \in Budgets, Shrink(max)
    PROVE  IInv'
<1> DEFINE r == Compact(context, max)
<1>1. /\ r.outcome = "compacted" /\ context' = r.context /\ said' = said
      /\ memory' = Append(memory, Summary(r.dropped))
  BY DEF Shrink
<1>2. /\ context \in Seq(Messages) /\ Sized(context) /\ max \in Int
      /\ said \in Seq(Messages) /\ memory \in Seq(Entries)
  BY MessagesSized, SizesAssumption DEF IInv, TypeOK
<1>3. /\ r.context \in Seq(Messages) /\ r.dropped \in Seq(Messages)
      /\ Compacted(context, max, r)
  <2>1. r.outcome = "compacted" => Compacted(context, max, r)
    BY <1>2, CompactFacts
  <2>2. r.context \in Seq(Messages) /\ r.dropped \in Seq(Messages)
    BY <1>2, CompactFacts
  <2> QED
    BY <1>1, <2>1, <2>2
<1> HIDE DEF r
<1>4. PICK kept \in SUBSET DOMAIN context :
         Protected(context) \subseteq kept /\ Picked(r.context, context, kept)
  BY <1>3 DEF Compacted
<1>5. PICK index \in [DOMAIN r.context -> kept] :
         /\ \A i, j \in DOMAIN r.context : i < j => index[i] < index[j]
         /\ \A i \in DOMAIN r.context : r.context[i] = context[index[i]]
         /\ \A x \in kept : \E i \in DOMAIN r.context : index[i] = x
  BY <1>4 DEF Picked
<1>6. Summary(r.dropped) \in Entries /\ Summary(r.dropped).dropped = Len(r.dropped)
  BY <1>3 DEF Summary, Entries
<1>7. TypeOK'
  BY <1>1, <1>2, <1>3, <1>6 DEF TypeOK
<1>8. NumberingOK'
  BY <1>1, <1>5 DEF IInv, NumberingOK
<1>9. OrderKept'
  BY <1>1, <1>5 DEF IInv, OrderKept
<1>10. InstructionsKept'
  <2> SUFFICES ASSUME NEW i \in DOMAIN said, said[i].pinned \/ said[i].role = "system"
               PROVE  \E j \in DOMAIN context' : context'[j].id = i
    BY <1>1 DEF InstructionsKept, Numbers
  <2>1. PICK x \in DOMAIN context : context[x].id = i
    BY DEF IInv, InstructionsKept, Numbers
  <2>2. x \in Protected(context)
    BY <2>1 DEF IInv, NumberingOK, Protected, Instruction
  <2>3. PICK j \in DOMAIN r.context : index[j] = x
    BY <1>4, <1>5, <2>2
  <2> QED
    BY <1>1, <1>5, <2>1, <2>3
<1>11. LossAccounted'
  <2>1. Len(said) = Len(context) + Lost(memory)
    BY DEF IInv, LossAccounted
  <2>2. Lost(memory') = Lost(memory) + Len(r.dropped) /\ Lost(memory) \in Int
    BY <1>1, <1>2, <1>6, LostAppend, LostFacts
  <2> DEFINE x == Len(r.context)
             y == Len(r.dropped)
  <2>3. x \in Nat /\ y \in Nat /\ Len(context) = x + y
    BY <1>3 DEF Compacted
  <2>4. Len(said') = Len(said) /\ Len(context') = x
    BY <1>1
  <2>5. Lost(memory') = Lost(memory) + y
    BY <2>2
  <2> HIDE DEF x, y
  <2>6. Len(said') = Len(context') + Lost(memory')
    BY <2>1, <2>2, <2>3, <2>4, <2>5
  <2> QED
    BY <2>6 DEF LossAccounted
<1> QED
  BY <1>7, <1>8, <1>9, <1>10, <1>11 DEF IInv

LEMMA StepOK == IInv /\ [Next]_vars => IInv'
<1> SUFFICES ASSUME IInv, [Next]_vars PROVE IInv'
  OBVIOUS
<1>1. ASSUME NEW kind \in Kinds, Say(kind) PROVE IInv'
  BY <1>1, SayStep
<1>2. ASSUME NEW max \in Budgets, Shrink(max) PROVE IInv'
  BY <1>2, ShrinkStep
<1>3. CASE UNCHANGED vars
  BY <1>3 DEF vars, IInv, TypeOK, NumberingOK, OrderKept, InstructionsKept,
              LossAccounted, Numbers
<1> QED
  BY <1>1, <1>2, <1>3 DEF Next

\* The inductive invariant holds in every behaviour: messages are numbered as they
\* were added, and every conversation is a part of what was said, in its order.
THEOREM TranscriptInvariant == Spec => []IInv
<1> QED
  BY InitOK, StepOK, PTL DEF Spec

-----------------------------------------------------------------------------
(* The theorems *)

\* InstructionsKept: whatever the messages, the budgets and the number of
\* compactions, no pinned message and no system prompt is ever dropped.
THEOREM InstructionsNeverDropped == Spec => []InstructionsKept
<1>1. IInv => InstructionsKept
  BY DEF IInv
<1> QED
  BY <1>1, TranscriptInvariant, PTL

\* OrderKept: the greedy walk admits messages from the newest to the oldest, and
\* what it returns is in the order they were added in.
THEOREM OrderNeverChanges == Spec => []OrderKept
<1>1. IInv => OrderKept
  BY DEF IInv
<1> QED
  BY <1>1, TranscriptInvariant, PTL

\* LossAccounted: the summaries left in the memory add up to the messages that are
\* gone, over any number of compactions.
THEOREM LossIsAccounted == Spec => []LossAccounted
<1>1. IInv => LossAccounted
  BY DEF IInv
<1> QED
  BY <1>1, TranscriptInvariant, PTL

\* FitsBudget: for every conversation and every budget, what compaction returns
\* fits and lost something, and a refusal means that the instructions and the
\* recent messages alone exceed the budget.
THEOREM CompactionFits == Spec => []FitsBudget
<1>1. IInv => FitsBudget
  <2> SUFFICES ASSUME IInv, NEW max \in Budgets
               PROVE  LET r == Compact(context, max)
                      IN /\ r.outcome = "compacted" => Cost(r.context) <= max /\ r.dropped # <<>>
                         /\ r.outcome = "refused" => CostAt(context, Protected(context)) > max
    BY DEF FitsBudget
  <2>1. context \in Seq(Messages) /\ Sized(context) /\ max \in Int
    BY MessagesSized, SizesAssumption DEF IInv, TypeOK
  <2> DEFINE r == Compact(context, max)
  <2>2. /\ r.outcome = "refused" => CostAt(context, Protected(context)) > max
        /\ r.outcome = "compacted" => Compacted(context, max, r)
    BY <2>1, CompactFacts
  <2> HIDE DEF r
  <2>3. /\ r.outcome = "compacted" => Cost(r.context) <= max /\ r.dropped # <<>>
        /\ r.outcome = "refused" => CostAt(context, Protected(context)) > max
    BY <2>2 DEF Compacted
  <2> QED
    BY <2>3 DEF r
<1> QED
  BY <1>1, TranscriptInvariant, PTL

\* YieldsToNewer: a message is dropped only where it does not fit beside what is
\* protected and the newer messages that are kept; it gives way to no older one.
THEOREM YieldsOnlyToNewer == Spec => []YieldsToNewer
<1>1. IInv => YieldsToNewer
  <2> DEFINE r(max) == Compact(context, max)
             stay(max) == {i \in DOMAIN context : context[i].id \in Numbers(r(max).context)}
  <2> SUFFICES ASSUME IInv, NEW max \in Budgets, r(max).outcome = "compacted",
                      NEW i \in (DOMAIN context) \ stay(max)
               PROVE  CostAt(context, Before(context, stay(max), i)) + context[i].size > max
    BY DEF YieldsToNewer, Before
  <2>1. context \in Seq(Messages) /\ Sized(context) /\ max \in Int
    BY MessagesSized, SizesAssumption DEF IInv, TypeOK
  <2>2. r(max).context \in Seq(Messages) /\ Compacted(context, max, r(max))
    BY <2>1, CompactFacts
  <2> HIDE DEF r
  <2>3. PICK kept \in SUBSET DOMAIN context :
           /\ \A k \in (DOMAIN context) \ kept :
                 CostAt(context, Before(context, kept, k)) + context[k].size > max
           /\ Picked(r(max).context, context, kept)
    BY <2>2 DEF Compacted
  <2>4. PICK index \in [DOMAIN r(max).context -> kept] :
           /\ \A k \in DOMAIN r(max).context : r(max).context[k] = context[index[k]]
           /\ \A x \in kept : \E k \in DOMAIN r(max).context : index[k] = x
    BY <2>3 DEF Picked
  <2>5. \A j, k \in DOMAIN context : context[j].id = context[k].id => j = k
    <3>1. \A k \in DOMAIN context : k \in Nat /\ context[k].id \in Nat
      BY <2>1, MessageFacts
    <3> QED
      BY <3>1 DEF IInv, OrderKept
  <2>6. stay(max) = kept
    <3>1. ASSUME NEW x \in kept PROVE x \in stay(max)
      BY <2>4 DEF Numbers
    <3>2. ASSUME NEW x \in stay(max) PROVE x \in kept
      <4>1. PICK k \in DOMAIN r(max).context : r(max).context[k].id = context[x].id
        BY DEF Numbers
      <4> QED
        BY <2>4, <2>5, <4>1
    <3> QED
      BY <3>1, <3>2
  <2> HIDE DEF stay
  <2> QED
    BY <2>3, <2>6
<1> QED
  BY <1>1, TranscriptInvariant, PTL

=============================================================================
