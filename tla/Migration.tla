------------------------------ MODULE Migration ------------------------------
(***************************************************************************)
(* The life of an agent that works, is migrated to other adapters and      *)
(* providers (continuum/migrate.py) and is resumed there behind the        *)
(* capability gate (resume in continuum/runtime.py), any number of times.  *)
(***************************************************************************)
EXTENDS Compaction, Capabilities

CONSTANTS
    Kinds,          \* the messages an agent may add: role, pin, size, text and
                    \* the tags "[role] " the text itself begins with
    RoleNames,      \* what such a tag may name
    Targets,        \* the destinations an agent may be migrated to
    GrantSets,      \* what the host of a resume may grant
    Homes,          \* the adapter and provider an agent is born with
    Segments,       \* what names of capabilities are made of
    Needs,          \* required and optional capabilities of the agent
    NoProvider,     \* the empty provider name of a target
    TagSize,        \* tokens the text "[role] " adds to a message
    MaxMessages,    \* bound: messages ever added
    MaxHops         \* bound: migrations

NoBudget == -1      \* max_context_tokens is None

\* Names of capabilities and grants have at least one segment.
Names == Seq(Segments \cup {Wild}) \ {<<>>}

ASSUME NamesAssumption ==
    /\ \A need \in Needs : need.requires \cup need.optional \subseteq Names
    /\ \A t \in Targets : t.granted \subseteq Names
    /\ \A grants \in GrantSets : grants \subseteq Names

\* Token counters count, and budgets are numbers.
ASSUME SizesAssumption ==
    /\ \A kind \in Kinds : kind.size \in Nat
    /\ \A t \in Targets : t.budget \in Int
    /\ TagSize \in Nat

\* What a text begins with is some number of tags.
ASSUME TagsAssumption == \A kind \in Kinds : kind.tags \in Seq(RoleNames)

VARIABLES
    said,           \* every message ever added, as it was added
    held,           \* the state document of the agent
    running,        \* whether a runtime is running it
    last            \* the last migration, until the agent moves on

vars == <<said, held, running, last>>

NoMigration == [outcome |-> "none"]
NoHandle == <<>>        \* provider.opaque is empty
NoScratch == ""         \* runtime_opaque is empty
NoRole == ""            \* the metadata has no continuum.original_role

Message(kind, n) ==
    [id |-> n, role |-> kind.role, pinned |-> kind.pinned, size |-> kind.size,
     text |-> kind.text, tags |-> kind.tags, original |-> NoRole]

\* The provider's handles and the adapter's scratch state are told apart by who
\* wrote them, the settings by whether there are any.
Born(home, need, granted) ==
    [adapter |-> home.adapter, provider |-> home.provider, params |-> TRUE,
     opaque |-> NoHandle, scratch |-> NoScratch, context |-> <<>>,
     memory |-> <<>>, requires |-> need.requires, optional |-> need.optional,
     granted |-> granted, status |-> "suspended", events |-> <<>>]

Init ==
    /\ said = <<>>
    /\ \E home \in Homes, need \in Needs, granted \in GrantSets :
          held = Born(home, need, granted)
    /\ running = TRUE
    /\ last = NoMigration

\* The running agent adds a message; its provider and adapter leave their marks.
Work(kind) ==
    /\ running /\ Len(said) < MaxMessages
    /\ LET m == Message(kind, Len(said) + 1)
       IN /\ said' = Append(said, m)
          /\ held' = [held EXCEPT !.context = Append(@, m),
                                  !.opaque = <<held.adapter, held.provider>>,
                                  !.scratch = held.adapter]
    /\ last' = NoMigration
    /\ UNCHANGED running

-----------------------------------------------------------------------------
(* migrate *)

SameProvider(s, t) == s.provider = t.provider /\ t.provider # NoProvider
SameAdapter(s, t) == s.adapter = t.adapter

\* RoleProfile.translate: the fallback need not be a role of the destination.
Translation(role, roles) == IF role \in roles.supported THEN role ELSE roles.fallback

\* Slip: the text of a remapped message does not name its old role.
RemapSilently(m, roles) ==
    IF Translation(m.role, roles) = m.role THEN m
    ELSE [m EXCEPT !.role = roles.fallback, !.original = m.role]

\* _translate_roles, for one message. The tag goes in front of the text, where it
\* cannot be told from one the text had already; the metadata keeps one role, that
\* of the last remap.
Remap(m, roles) ==
    IF Translation(m.role, roles) = m.role THEN m
    ELSE [m EXCEPT !.role = roles.fallback, !.original = m.role,
                   !.tags = <<m.role>> \o @, !.size = @ + TagSize, !.text = "words"]

TranslateRoles(context, roles) ==
    [i \in DOMAIN context |-> Remap(context[i], roles)]

\* Slip: the handles are kept wherever the provider is the same.
MoveHandles(s, t) ==
    [s EXCEPT
        !.context = IF SameProvider(s, t) THEN @ ELSE TranslateRoles(@, t.roles),
        !.adapter = t.adapter, !.provider = t.provider, !.params = t.params,
        !.opaque = IF SameProvider(s, t) THEN @ ELSE NoHandle,
        !.scratch = IF SameAdapter(s, t) THEN @ ELSE NoScratch]

\* The state before its context is fitted to the destination.
Moved(s, t) ==
    [s EXCEPT
        !.context = IF SameProvider(s, t) THEN @ ELSE TranslateRoles(@, t.roles),
        !.adapter = t.adapter, !.provider = t.provider, !.params = t.params,
        !.opaque = IF SameProvider(s, t) /\ SameAdapter(s, t) THEN @ ELSE NoHandle,
        !.scratch = IF SameAdapter(s, t) THEN @ ELSE NoScratch]

Unchanged == {"identity", "objective", "execution", "memory", "artifacts",
              "events", "lineage"}

\* The findings on what Moved does.
MoveFindings(s, t) ==
    {<<section, "PORTABLE">> : section \in Unchanged}
    \cup {<<"environment", "TRANSLATED">>,
          <<"context", IF SameProvider(s, t) THEN "PORTABLE" ELSE "TRANSLATED">>}
    \cup (IF s.opaque = NoHandle THEN {}
          ELSE {<<"provider.opaque", IF SameProvider(s, t) /\ SameAdapter(s, t)
                                     THEN "PORTABLE" ELSE "UNAVAILABLE">>})
    \cup (IF s.scratch = NoScratch \/ SameAdapter(s, t) THEN {}
          ELSE {<<"runtime_opaque", "UNAVAILABLE">>})

\* Slip: the budget is compared with the context before roles are translated.
FitEarly(s, t) ==
    IF t.budget = NoBudget THEN Left("unlimited", Moved(s, t).context)
    ELSE IF Cost(s.context) <= t.budget THEN Left("fits", Moved(s, t).context)
    ELSE Compact(Moved(s, t).context, t.budget)

\* The context budget of the destination, applied to the translated context.
Fit(s, t) ==
    LET context == Moved(s, t).context
    IN IF t.budget = NoBudget THEN Left("unlimited", context)
       ELSE IF Cost(context) <= t.budget THEN Left("fits", context)
       ELSE Compact(context, t.budget)

\* Slip: a context that was compacted is reported as one that fits.
FitFindingsPortable(fit) ==
    CASE fit.outcome \in {"fits", "compacted"} -> {<<"context.budget", "PORTABLE">>}
      [] fit.outcome = "refused" -> {<<"context.budget", "UNAVAILABLE">>}
      [] OTHER -> {}

FitFindings(fit) ==
    CASE fit.outcome = "fits" -> {<<"context.budget", "PORTABLE">>}
      [] fit.outcome = "compacted" -> {<<"context.budget", "TRANSLATED">>}
      [] fit.outcome = "refused" -> {<<"context.budget", "UNAVAILABLE">>}
      [] OTHER -> {}

\* Slip: what was dropped leaves no entry in the memory.
FittedForgetful(s, fit) ==
    IF fit.outcome # "compacted" THEN s
    ELSE [s EXCEPT !.context = fit.context, !.events = Append(@, "compacted")]

\* A refused context is left as it is; an unfit one is replaced and summarised.
Fitted(s, fit) ==
    IF fit.outcome # "compacted" THEN s
    ELSE [s EXCEPT !.context = fit.context,
                   !.memory = Append(@, Len(fit.dropped)),
                   !.events = Append(@, "compacted")]

Delivered(s, t, fit) ==
    [Fitted(Moved(s, t), fit) EXCEPT !.granted = t.granted,
                                     !.events = Append(@, "migrated")]

\* What migrate returns; a ValueError or IndexError of compaction and a FormatError
\* of the capability check escape it.
Migrated(s, t) ==
    LET fit == Fit(s, t)
        check == CheckCapabilities(s.requires, s.optional, t.granted)
    IN IF fit.outcome \in {"usage", "broken"} \/ check.raises
       THEN [outcome |-> "raised", source |-> s, target |-> t]
       ELSE [outcome |-> "produced", source |-> s, target |-> t,
             result |-> Delivered(s, t, fit),
             findings |-> MoveFindings(s, t) \cup FitFindings(fit),
             fatal |-> fit.outcome = "refused",
             grantsOK |-> check.ok,
             blocked |-> fit.outcome = "refused" \/ ~check.ok]

Hops == Cardinality({i \in DOMAIN held.events : held.events[i] = "migrated"})

\* The new document replaces the old one unless migrate raised.
Migrate(t) ==
    /\ Hops < MaxHops
    /\ last' = Migrated(held, t)
    /\ IF last'.outcome = "produced"
       THEN held' = last'.result /\ running' = FALSE
       ELSE UNCHANGED <<held, running>>
    /\ UNCHANGED said

-----------------------------------------------------------------------------
(* resume *)

\* Whether resume raises ResumeBlocked for these grants.
Refuses(s, grants) == ~CheckCapabilities(s.requires, s.optional, grants).ok

Prepared(s, grants) ==
    [s EXCEPT !.granted = grants,
              !.status = IF @ \in {"suspended", "blocked"} THEN "running" ELSE @,
              !.events = Append(@, "resumed")]

\* `granted' defaults to the grants the state recorded. A FormatError of the check
\* is raised whatever allow_degraded says.
Resume(grants, allowDegraded) ==
    /\ ~running
    /\ ~CheckCapabilities(held.requires, held.optional, grants).raises
    /\ allowDegraded \/ ~Refuses(held, grants)
    /\ held' = Prepared(held, grants)
    /\ running' = TRUE
    /\ last' = NoMigration
    /\ UNCHANGED said

Next ==
    \/ \E kind \in Kinds : Work(kind)
    \/ \E t \in Targets : Migrate(t)
    \/ \E grants \in GrantSets \cup {held.granted}, degraded \in BOOLEAN :
          Resume(grants, degraded)

Spec == Init /\ [][Next]_vars

-----------------------------------------------------------------------------
(* What a chain of migrations keeps *)

Ids(messages) == {messages[i].id : i \in DOMAIN messages}

Produced == last.outcome = "produced"
Found(section, class) == <<section, class>> \in last.findings

\* Handles of a provider and scratch state of an adapter never reach another
\* provider or adapter. (They are told apart by who left them, not by when.)
HandlesStayHome ==
    /\ held.opaque \in {NoHandle, <<held.adapter, held.provider>>}
    /\ held.scratch \in {NoScratch, held.adapter}

\* How many messages the entries of a memory say are gone.
Lost(memory) ==
    LET gone(i) == memory[i] IN MapThenSumSet(gone, DOMAIN memory)

Compactions(events) == {i \in DOMAIN events : events[i] = "compacted"}

\* Every message that is gone is accounted for by a summary in the memory, and
\* every summary by an event in the history.
LossAccounted ==
    /\ Len(said) = Len(held.context) + Lost(held.memory)
    /\ Len(held.memory) = Cardinality(Compactions(held.events))

\* Whatever roles a message was given on its way, its text still ends in what was
\* written, and where remaps put tags in front of that, the innermost of theirs
\* names the role it was written with. The metadata names only the role before the
\* last remap. A reader of the text alone has to know how many tags were written:
\* a message may itself begin with one.
RoleInText ==
    \A i \in DOMAIN held.context :
        LET m == held.context[i]
            written == said[m.id]
            added == Len(m.tags) - Len(written.tags)
        IN /\ added >= 0
           /\ SubSeq(m.tags, added + 1, Len(m.tags)) = written.tags
           /\ written.role = IF added = 0 THEN m.role ELSE m.tags[added]
           /\ m.original = IF added = 0 THEN NoRole ELSE m.tags[1]

\* What a migration loses is in its findings: the messages that are gone under
\* context.budget, and as many in the entry the memory gains; a text that changed
\* under context; handles and scratch state under their own names. (The sections
\* memory and events are reported PORTABLE even so, and grow.)
LossIsNamed ==
    LET s == last.source
        r == last.result
        gone == Len(s.context) - Len(r.context)
    IN Produced =>
         /\ gone # 0 <=> Found("context.budget", "TRANSLATED")
         /\ r.memory = IF gone = 0 THEN s.memory ELSE Append(s.memory, gone)
         /\ Ids(r.context) \subseteq Ids(s.context)
         /\ \A i \in DOMAIN r.context :
               r.context[i] \in ToSet(s.context) \/ Found("context", "TRANSLATED")
         /\ r.opaque # s.opaque <=> Found("provider.opaque", "UNAVAILABLE")
         /\ r.scratch # s.scratch <=> Found("runtime_opaque", "UNAVAILABLE")

\* A migration that did not fail on the budget fits it, tags included.
FitsDestination ==
    Produced /\ last.target.budget # NoBudget /\ ~last.fatal =>
        Cost(last.result.context) <= last.target.budget

\* The verdict of the report is that of the namespaces above each required name
\* (_matching_grant looks at one grant at a time). The gate of resume agrees with
\* it on the grants recorded in the state, and still does when an operator
\* revokes those that a check calls unused.
GatesAgree ==
    LET granted == last.result.granted
        needs == last.result.requires
        check == CheckCapabilities(needs, last.result.optional, granted)
        below(n) == {Append(SubSeq(n, 1, k), Wild) : k \in 0 .. (Len(n) - 1)}
    IN Produced =>
         /\ last.grantsOK <=> \A n \in needs : (below(n) \cup {n}) \cap granted # {}
         /\ last.grantsOK <=> ~Refuses(last.result, granted)
         /\ last.grantsOK <=> ~Refuses(last.result, granted \ check.unused)

\* Migrating to the same destination once more changes nothing in the context.
Settles ==
    Produced /\ ~last.fatal =>
        Migrated(last.result, last.target).result.context = last.result.context

-----------------------------------------------------------------------------
(* What the documentation says and the code does not keep *)

\* compaction.py: "Pinned messages and the system prompt are never dropped".
SystemPromptKept ==
    \A i \in DOMAIN said : said[i].role = "system" => i \in Ids(held.context)
=============================================================================
