---------------------------- MODULE MigrationProofs ----------------------------
(***************************************************************************)
(* What migration keeps, for any messages, destinations, grants and any    *)
(* number of migrations and resumes.                                       *)
(***************************************************************************)
EXTENDS Migration, CompactionProofs

-----------------------------------------------------------------------------
(* Grants *)

Parts == Segments \cup {Wild}

LEMMA NamesFacts ==
    /\ \A n \in Names : n \in Seq(Parts) /\ Len(n) \in Nat \ {0} /\ n # <<>>
    /\ NoGrant \notin Names
BY EmptySeq DEF Names, Parts, NoGrant

\* Of grants that cover a name one is the shortest.
LEMMA ShortestExists ==
    ASSUME NEW G \in SUBSET Names, G # {}
    PROVE  \E g \in G : \A h \in G : Len(g) <= Len(h)
<1> DEFINE lens == {Len(g) : g \in G}
<1>1. lens \in SUBSET Nat /\ lens # {}
  BY NamesFacts
<1>2. PICK n \in lens : \A m \in lens : n <= m
  <2> HIDE DEF lens
  <2> QED
    BY <1>1, Least
<1> QED
  BY <1>2

\* _matching_grant returns a grant that is the name or covers it, if there is one.
LEMMA MatchingGrantFacts ==
    ASSUME NEW n \in Names, NEW G \in SUBSET Names
    PROVE  /\ Satisfies(n, G) <=> n \in G \/ \E g \in G : Covers(g, n)
           /\ Satisfies(n, G) => LET g == MatchingGrant(n, G)
                                 IN g \in G /\ (g = n \/ Covers(g, n))
<1> DEFINE covering == {g \in G : Covers(g, n)}
<1>1. CASE n \in G
  BY <1>1, NamesFacts DEF Satisfies, MatchingGrant
<1>2. CASE n \notin G /\ covering = {}
  BY <1>2 DEF Satisfies, MatchingGrant
<1>3. CASE n \notin G /\ covering # {}
  <2>1. \E g \in covering : \A h \in covering : Len(g) <= Len(h)
    BY <1>3, ShortestExists
  <2>2. MatchingGrant(n, G) = CHOOSE g \in covering : \A h \in covering : Len(g) <= Len(h)
    BY <1>3 DEF MatchingGrant
  <2>3. MatchingGrant(n, G) \in covering
    BY <2>1, <2>2
  <2>4. MatchingGrant(n, G) # NoGrant
    BY <2>3, NamesFacts
  <2> QED
    BY <1>3, <2>3, <2>4 DEF Satisfies
<1> QED
  BY <1>1, <1>2, <1>3

LEMMA SubSeqOfAppend ==
    ASSUME NEW S, NEW s \in Seq(S), NEW x \in S
    PROVE  SubSeq(Append(s, x), 1, Len(s)) = s
<1> DEFINE a == Append(s, x)
           n == Len(s)
<1>1. /\ a \in Seq(S) /\ Len(a) = n + 1 /\ n \in Nat
      /\ \A i \in 1 .. n : a[i] = s[i]
  BY AppendProperties
<1> HIDE DEF a, n
<1>2. \A i \in 1 .. n : a[i] \in S
  BY <1>1
<1>3. /\ SubSeq(a, 1, n) \in Seq(S)
      /\ Len(SubSeq(a, 1, n)) = IF 1 <= n THEN n - 1 + 1 ELSE 0
      /\ \A i \in 1 .. n - 1 + 1 : SubSeq(a, 1, n)[i] = a[1 + i - 1]
  BY <1>1, <1>2, SubSeqProperties
<1>4. Len(SubSeq(a, 1, n)) = Len(s)
  BY <1>1, <1>3 DEF n
<1>5. \A i \in 1 .. Len(s) : SubSeq(a, 1, n)[i] = s[i]
  BY <1>1, <1>3 DEF n
<1>6. SubSeq(a, 1, n) = s
  BY <1>3, <1>4, <1>5, SeqEqual
<1> QED
  BY <1>6 DEF a, n

\* The namespaces above a name, each as a grant.
Below(n) == {Append(SubSeq(n, 1, k), Wild) : k \in 0 .. (Len(n) - 1)}

\* A grant covers a name if it is one of the namespaces above it, whole.
LEMMA CoversIsBelow ==
    ASSUME NEW g \in Names, NEW n \in Names
    PROVE  Covers(g, n) <=> g \in Below(n)
<1>0. /\ g \in Seq(Parts) /\ n \in Seq(Parts)
      /\ Len(g) \in Nat \ {0} /\ Len(n) \in Nat \ {0} /\ g # <<>>
  BY NamesFacts
<1>w. Wild \in Parts
  BY DEF Parts
<1>1. ASSUME Covers(g, n) PROVE g \in Below(n)
  <2> DEFINE k == Len(g) - 1
             part == SubSeq(n, 1, k)
  <2>1. k \in 0 .. Len(n) - 1 /\ g[Len(g)] = Wild /\ part = SubSeq(g, 1, k)
    BY <1>0, <1>1 DEF Covers, IsWild
  <2>2. part \in Seq(Parts) /\ Len(part) = k /\ \A i \in 1 .. k : part[i] = g[i]
    <3>1. k \in Nat /\ \A i \in 1 .. k : g[i] \in Parts
      BY <1>0
    <3> HIDE DEF k
    <3>2. /\ SubSeq(g, 1, k) \in Seq(Parts)
          /\ Len(SubSeq(g, 1, k)) = IF 1 <= k THEN k - 1 + 1 ELSE 0
          /\ \A i \in 1 .. k - 1 + 1 : SubSeq(g, 1, k)[i] = g[1 + i - 1]
      BY <3>1, SubSeqProperties
    <3>3. Len(SubSeq(g, 1, k)) = k
      BY <3>1, <3>2
    <3>4. \A i \in 1 .. k : SubSeq(g, 1, k)[i] = g[i]
      BY <3>1, <3>2
    <3>5. part = SubSeq(g, 1, k)
      BY <2>1
    <3> HIDE DEF part
    <3> QED
      BY <3>2, <3>3, <3>4, <3>5
  <2> HIDE DEF part
  <2>3. /\ Append(part, Wild) \in Seq(Parts) /\ Len(Append(part, Wild)) = k + 1
        /\ \A i \in 1 .. k : Append(part, Wild)[i] = part[i]
        /\ Append(part, Wild)[k + 1] = Wild
    BY <1>w, <2>2, AppendProperties
  <2>4. \A i \in 1 .. Len(g) : g[i] = Append(part, Wild)[i]
    BY <1>0, <2>1, <2>2, <2>3
  <2>5. g = Append(part, Wild)
    BY <1>0, <2>3, <2>4, SeqEqual
  <2> QED
    BY <2>1, <2>5 DEF Below, part
<1>2. ASSUME g \in Below(n) PROVE Covers(g, n)
  <2>1. PICK k \in 0 .. Len(n) - 1 : g = Append(SubSeq(n, 1, k), Wild)
    BY <1>2 DEF Below
  <2> DEFINE part == SubSeq(n, 1, k)
  <2>2. part \in Seq(Parts) /\ Len(part) = k
    <3>1. \A i \in 1 .. k : n[i] \in Parts
      BY <1>0
    <3>2. /\ SubSeq(n, 1, k) \in Seq(Parts)
          /\ Len(SubSeq(n, 1, k)) = IF 1 <= k THEN k - 1 + 1 ELSE 0
      BY <1>0, <3>1, SubSeqProperties
    <3>3. Len(SubSeq(n, 1, k)) = k
      BY <1>0, <3>2
    <3> QED
      BY <3>2, <3>3
  <2> HIDE DEF part
  <2>3. /\ Len(Append(part, Wild)) = k + 1
        /\ Append(part, Wild)[k + 1] = Wild
        /\ SubSeq(Append(part, Wild), 1, k) = part
    <3>1. /\ Append(part, Wild) \in Seq(Parts)
          /\ Len(Append(part, Wild)) = k + 1 /\ Append(part, Wild)[k + 1] = Wild
          /\ \A i \in 1 .. k : Append(part, Wild)[i] = part[i]
      BY <1>w, <2>2, AppendProperties
    <3> QED
      BY <2>2, <3>1, SubSeqOfAppend
  <2>4. /\ Len(g) = k + 1 /\ g[Len(g)] = Wild /\ g # <<>>
        /\ SubSeq(g, 1, k) = SubSeq(n, 1, k)
    BY <1>0, <2>1, <2>3 DEF part
  <2>5. Len(g) - 1 = k /\ Len(n) >= Len(g)
    BY <1>0, <2>4
  <2> QED
    BY <2>4, <2>5 DEF Covers, IsWild
<1> QED
  BY <1>1, <1>2

\* The check, read without looking for a first grant.
LEMMA CheckFacts ==
    ASSUME NEW needs \in SUBSET Names, NEW optional \in SUBSET Names,
           NEW G \in SUBSET Names
    PROVE  LET check == CheckCapabilities(needs, optional, G)
           IN /\ check.ok <=> \A n \in needs : Satisfies(n, G)
              /\ check.ok <=> CheckCapabilities(needs, optional, G \ check.unused).ok
              /\ check.ok <=> \A n \in needs : (Below(n) \cup {n}) \cap G # {}
<1> DEFINE check == CheckCapabilities(needs, optional, G)
           used == G \ check.unused
<1>1. \A H : CheckCapabilities(needs, optional, H).ok <=> \A n \in needs : Satisfies(n, H)
  BY DEF CheckCapabilities
<1>2. used = {g \in G : \E n \in needs \cup optional : g = MatchingGrant(n, G)}
  BY DEF CheckCapabilities
<1> HIDE DEF check, used
<1>3. ASSUME NEW n \in needs PROVE Satisfies(n, G) <=> Satisfies(n, used)
  <2>1. used \in SUBSET Names /\ used \subseteq G /\ n \in Names
    BY <1>2
  <2>2. ASSUME Satisfies(n, G) PROVE Satisfies(n, used)
    <3>1. /\ MatchingGrant(n, G) \in G
          /\ MatchingGrant(n, G) = n \/ Covers(MatchingGrant(n, G), n)
      BY <2>1, <2>2, MatchingGrantFacts
    <3>2. MatchingGrant(n, G) \in used
      BY <1>2, <3>1
    <3> QED
      BY <2>1, <3>1, <3>2, MatchingGrantFacts
  <2>3. ASSUME Satisfies(n, used) PROVE Satisfies(n, G)
    BY <2>1, <2>3, MatchingGrantFacts
  <2> QED
    BY <2>2, <2>3
<1>4. ASSUME NEW n \in needs
      PROVE  Satisfies(n, G) <=> (Below(n) \cup {n}) \cap G # {}
  <2>1. Satisfies(n, G) <=> n \in G \/ \E g \in G : Covers(g, n)
    BY MatchingGrantFacts
  <2>2. \A g \in G : Covers(g, n) <=> g \in Below(n)
    BY CoversIsBelow
  <2> QED
    BY <2>1, <2>2
<1>5. check.ok <=> CheckCapabilities(needs, optional, used).ok
  BY <1>1, <1>3 DEF check
<1>6. check.ok <=> \A n \in needs : (Below(n) \cup {n}) \cap G # {}
  BY <1>1, <1>4 DEF check
<1> QED
  BY <1>1, <1>5, <1>6 DEF check, used

-----------------------------------------------------------------------------
(* Messages on their way *)

Roles == {kind.role : kind \in Kinds} \cup {t.roles.fallback : t \in Targets}
Pins == {kind.pinned : kind \in Kinds}
Wordings == {kind.text : kind \in Kinds} \cup {"words"}
Tags == Roles \cup RoleNames \cup {NoRole}

Messages == [id : Nat, role : Roles, pinned : Pins, size : Nat, text : Wordings,
             tags : Seq(Tags), original : Tags]

\* The tags of m are those of w with one more in front for every remap since w was
\* written: the innermost of these names the role of w, the outermost the role
\* that the metadata remembers.
Bears(m, w) ==
    LET added == Len(m.tags) - Len(w.tags)
    IN /\ added >= 0
       /\ \A k \in DOMAIN w.tags : m.tags[added + k] = w.tags[k]
       /\ w.role = IF added = 0 THEN m.role ELSE m.tags[added]
       /\ m.original = IF added = 0 THEN NoRole ELSE m.tags[1]

\* Whatever m was written as, so was r.
Keeps(m, r) == \A w \in Messages : Bears(m, w) => Bears(r, w)

\* A destination leaves messages alone whose role it translates to itself.
Settled(c, roles) == \A i \in DOMAIN c : Translation(c[i].role, roles) = c[i].role

LEMMA MessageFacts ==
    ASSUME NEW kind \in Kinds, NEW n \in Nat
    PROVE  LET m == Message(kind, n)
           IN m \in Messages /\ m.id = n /\ Bears(m, m)
<1>1. kind.tags \in Seq(Tags) /\ NoRole \in Tags
  BY TagsAssumption DEF Tags
<1>2. Message(kind, n) \in Messages
  BY <1>1, SizesAssumption DEF Message, Messages, Roles, Pins, Wordings
<1>3. Bears(Message(kind, n), Message(kind, n))
  BY <1>1 DEF Message, Bears
<1> QED
  BY <1>2, <1>3 DEF Message

LEMMA MessagesSized ==
    ASSUME NEW c \in Seq(Messages)
    PROVE  Sized(c)
<1>1. \A m \in Messages : m.size \in Nat
  BY DEF Messages
<1> HIDE DEF Messages
<1> QED
  BY <1>1 DEF Sized

\* One tag more in front of a text.
LEMMA Tagged ==
    ASSUME NEW S, NEW s \in Seq(S), NEW x \in S
    PROVE  /\ <<x>> \o s \in Seq(S) /\ Len(<<x>> \o s) = Len(s) + 1
           /\ (<<x>> \o s)[1] = x
           /\ \A i \in 1 .. Len(s) : (<<x>> \o s)[i + 1] = s[i]
OBVIOUS

LEMMA RemapFacts ==
    ASSUME NEW m \in Messages, NEW t \in Targets
    PROVE  LET r == Remap(m, t.roles)
           IN /\ r \in Messages /\ r.id = m.id /\ Keeps(m, r)
              /\ Translation(r.role, t.roles) = r.role
              /\ Translation(m.role, t.roles) = m.role => r = m
<1> DEFINE r == Remap(m, t.roles)
           tagged == <<m.role>> \o m.tags
<1>0. /\ m.id \in Nat /\ m.role \in Roles /\ m.pinned \in Pins /\ m.size \in Nat
      /\ m.text \in Wordings /\ m.tags \in Seq(Tags) /\ m.original \in Tags
      /\ m = [id |-> m.id, role |-> m.role, pinned |-> m.pinned, size |-> m.size,
              text |-> m.text, tags |-> m.tags, original |-> m.original]
  BY DEF Messages
<1>1. CASE Translation(m.role, t.roles) = m.role
  BY <1>1 DEF Remap, Keeps
<1>2. CASE Translation(m.role, t.roles) # m.role
  <2>1. r = [id |-> m.id, role |-> t.roles.fallback, pinned |-> m.pinned,
             size |-> m.size + TagSize, text |-> "words", tags |-> tagged,
             original |-> m.role]
    BY <1>0, <1>2 DEF Remap
  <2>2. m.role \in Tags
    BY <1>0 DEF Tags
  <2>3. /\ tagged \in Seq(Tags) /\ Len(tagged) = Len(m.tags) + 1 /\ tagged[1] = m.role
        /\ \A i \in 1 .. Len(m.tags) : tagged[i + 1] = m.tags[i]
    BY <1>0, <2>2, Tagged
  <2>4. t.roles.fallback \in Roles /\ "words" \in Wordings /\ m.size + TagSize \in Nat
    BY <1>0, SizesAssumption DEF Roles, Wordings
  <2> HIDE DEF r, tagged
  <2>5. r \in Messages
    BY <1>0, <2>1, <2>2, <2>3, <2>4 DEF Messages
  <2>6. ASSUME NEW w \in Messages, Bears(m, w) PROVE Bears(r, w)
    <3> DEFINE added == Len(m.tags) - Len(w.tags)
    <3>1. /\ Len(w.tags) \in Nat /\ DOMAIN w.tags = 1 .. Len(w.tags)
          /\ Len(m.tags) \in Nat /\ added \in Nat /\ Len(m.tags) = added + Len(w.tags)
      <4>1. w.tags \in Seq(Tags)
        BY DEF Messages
      <4> QED
        BY <1>0, <2>6, <4>1 DEF Bears
    <3>2. /\ \A k \in DOMAIN w.tags : m.tags[added + k] = w.tags[k]
          /\ w.role = IF added = 0 THEN m.role ELSE m.tags[added]
      BY <2>6 DEF Bears
    <3> HIDE DEF added
    <3>3. Len(tagged) - Len(w.tags) = added + 1 /\ added + 1 # 0 /\ added + 1 >= 0
      <4> DEFINE l == Len(w.tags)
                 n == Len(m.tags)
      <4>1. l \in Nat /\ n = added + l /\ Len(tagged) = n + 1 /\ added \in Nat
        BY <2>3, <3>1
      <4> HIDE DEF l, n
      <4>2. Len(tagged) - l = added + 1 /\ added + 1 # 0 /\ added + 1 >= 0
        BY <4>1
      <4> QED
        BY <4>2 DEF l
    <3>4. ASSUME NEW k \in DOMAIN w.tags PROVE tagged[(added + 1) + k] = w.tags[k]
      <4>1. added + k \in 1 .. Len(m.tags) /\ (added + k) + 1 = (added + 1) + k
        BY <3>1
      <4> QED
        BY <2>3, <3>2, <4>1
    <3>5. w.role = tagged[added + 1]
      <4>1. CASE added = 0
        BY <2>3, <3>2, <4>1
      <4>2. CASE added # 0
        <5>1. added \in 1 .. Len(m.tags)
          BY <3>1, <4>2
        <5> QED
          BY <2>3, <3>2, <4>2, <5>1
      <4> QED
        BY <4>1, <4>2
    <3> QED
      BY <2>1, <2>3, <3>3, <3>4, <3>5 DEF Bears
  <2>7. Translation(r.role, t.roles) = r.role
    BY <2>1 DEF Translation
  <2> QED
    BY <1>2, <2>1, <2>5, <2>6, <2>7 DEF r, Keeps
<1> QED
  BY <1>1, <1>2

\* Translating a context keeps every message, under its number and with the role
\* it was written with in its text; a second time it changes nothing.
LEMMA TranslateFacts ==
    ASSUME NEW c \in Seq(Messages), NEW t \in Targets
    PROVE  LET d == TranslateRoles(c, t.roles)
           IN /\ d \in Seq(Messages) /\ Len(d) = Len(c) /\ Settled(d, t.roles)
              /\ \A i \in DOMAIN c : d[i].id = c[i].id /\ Keeps(c[i], d[i])
              /\ Settled(c, t.roles) => d = c
<1> DEFINE d == TranslateRoles(c, t.roles)
<1>1. /\ Len(c) \in Nat /\ DOMAIN c = 1 .. Len(c) /\ \A i \in DOMAIN c : c[i] \in Messages
      /\ c = [i \in DOMAIN c |-> c[i]]
  OBVIOUS
<1>2. d = [i \in DOMAIN c |-> Remap(c[i], t.roles)]
  BY DEF TranslateRoles
<1> HIDE DEF d
<1>3. ASSUME NEW i \in DOMAIN c
      PROVE  /\ d[i] \in Messages /\ d[i].id = c[i].id /\ Keeps(c[i], d[i])
             /\ Translation(d[i].role, t.roles) = d[i].role
             /\ Translation(c[i].role, t.roles) = c[i].role => d[i] = c[i]
  <2>1. c[i] \in Messages /\ d[i] = Remap(c[i], t.roles)
    BY <1>1, <1>2
  <2> QED
    BY <2>1, RemapFacts
<1>4. DOMAIN d = DOMAIN c /\ d = [i \in DOMAIN c |-> d[i]]
  BY <1>2
<1>5. d \in Seq(Messages) /\ Len(d) = Len(c)
  <2>1. d \in [1 .. Len(c) -> Messages]
    BY <1>1, <1>3, <1>4
  <2> QED
    BY <1>1, <2>1
<1>6. Settled(d, t.roles)
  BY <1>3, <1>4 DEF Settled
<1>7. Settled(c, t.roles) => d = c
  BY <1>1, <1>3, <1>4 DEF Settled
<1> QED
  BY <1>3, <1>5, <1>6, <1>7 DEF d

-----------------------------------------------------------------------------
(* One migration *)

Happenings == {"compacted", "migrated", "resumed"}

LEMMA HappeningsFacts ==
    "compacted" \in Happenings /\ "migrated" \in Happenings /\ "resumed" \in Happenings
BY DEF Happenings

IsDocument(s) ==
    s = [adapter |-> s.adapter, provider |-> s.provider, params |-> s.params,
         opaque |-> s.opaque, scratch |-> s.scratch, context |-> s.context,
         memory |-> s.memory, requires |-> s.requires, optional |-> s.optional,
         granted |-> s.granted, status |-> s.status, events |-> s.events]

\* A document whose capabilities are named, with no handle from elsewhere.
DocumentOK(s) ==
    /\ IsDocument(s)
    /\ s.context \in Seq(Messages) /\ s.memory \in Seq(Nat) /\ s.events \in Seq(Happenings)
    /\ s.requires \in SUBSET Names /\ s.optional \in SUBSET Names
    /\ s.granted \in SUBSET Names
    /\ s.opaque \in {NoHandle, <<s.adapter, s.provider>>}
    /\ s.scratch \in {NoScratch, s.adapter}

\* What a migration takes along and what it leaves.
LEMMA MovedFacts ==
    ASSUME NEW s, DocumentOK(s), NEW t \in Targets
    PROVE  LET m == Moved(s, t)
           IN /\ IsDocument(m)
              /\ m.requires = s.requires /\ m.optional = s.optional
              /\ m.memory = s.memory /\ m.events = s.events
              /\ m.adapter = t.adapter /\ m.provider = t.provider
              /\ m.context = IF SameProvider(s, t) THEN s.context
                             ELSE TranslateRoles(s.context, t.roles)
              /\ m.opaque = (IF SameProvider(s, t) /\ SameAdapter(s, t)
                             THEN s.opaque ELSE NoHandle)
              /\ m.scratch = (IF SameAdapter(s, t) THEN s.scratch ELSE NoScratch)
              /\ m.opaque \in {NoHandle, <<m.adapter, m.provider>>}
              /\ m.scratch \in {NoScratch, m.adapter}
<1> DEFINE m == Moved(s, t)
           context == IF SameProvider(s, t) THEN s.context
                      ELSE TranslateRoles(s.context, t.roles)
           opaque == IF SameProvider(s, t) /\ SameAdapter(s, t) THEN s.opaque ELSE NoHandle
           scratch == IF SameAdapter(s, t) THEN s.scratch ELSE NoScratch
<1>0. m = [s EXCEPT !.context = context, !.adapter = t.adapter,
                    !.provider = t.provider, !.params = t.params,
                    !.opaque = opaque, !.scratch = scratch]
  BY DEF Moved, DocumentOK, IsDocument
<1> HIDE DEF m, context, opaque, scratch
<1>1. /\ IsDocument(m) /\ m.requires = s.requires /\ m.optional = s.optional
      /\ m.memory = s.memory /\ m.events = s.events
      /\ m.adapter = t.adapter /\ m.provider = t.provider
  BY <1>0 DEF DocumentOK, IsDocument
<1>2. m.context = context
  BY <1>0 DEF DocumentOK, IsDocument
<1>3. m.opaque = IF SameProvider(s, t) /\ SameAdapter(s, t) THEN s.opaque ELSE NoHandle
  BY <1>0 DEF DocumentOK, IsDocument, opaque
<1>4. m.scratch = IF SameAdapter(s, t) THEN s.scratch ELSE NoScratch
  BY <1>0 DEF DocumentOK, IsDocument, scratch
<1>5. m.opaque \in {NoHandle, <<m.adapter, m.provider>>}
  BY <1>1, <1>3 DEF DocumentOK, SameProvider, SameAdapter
<1>6. m.scratch \in {NoScratch, m.adapter}
  BY <1>1, <1>4 DEF DocumentOK, SameAdapter
<1> QED
  BY <1>1, <1>2, <1>3, <1>4, <1>5, <1>6 DEF m, context

\* The context on its way has the messages of the source, in their order.
LEMMA MovedContext ==
    ASSUME NEW s, DocumentOK(s), NEW t \in Targets
    PROVE  LET c == Moved(s, t).context
           IN /\ c \in Seq(Messages) /\ Len(c) = Len(s.context)
              /\ ~SameProvider(s, t) => Settled(c, t.roles)
              /\ \A i \in DOMAIN c : c[i].id = s.context[i].id
                                     /\ Keeps(s.context[i], c[i])
<1> DEFINE c == Moved(s, t).context
           d == TranslateRoles(s.context, t.roles)
<1>1. c = IF SameProvider(s, t) THEN s.context ELSE d
  BY MovedFacts
<1>2. s.context \in Seq(Messages)
  BY DEF DocumentOK
<1>3. /\ d \in Seq(Messages) /\ Len(d) = Len(s.context) /\ Settled(d, t.roles)
      /\ \A i \in DOMAIN s.context : d[i].id = s.context[i].id
                                      /\ Keeps(s.context[i], d[i])
  BY <1>2, TranslateFacts
<1> HIDE DEF c, d
<1>4. DOMAIN d = DOMAIN s.context
  BY <1>2, <1>3
<1>5. \A m : Keeps(m, m)
  BY DEF Keeps
<1> QED
  BY <1>1, <1>2, <1>3, <1>4, <1>5 DEF c

\* Fitting the context leaves it as it is, gives up, or drops what does not fit.
LEMMA FitFacts ==
    ASSUME NEW s, DocumentOK(s), NEW t \in Targets
    PROVE  LET c == Moved(s, t).context
               r == Fit(s, t)
           IN /\ r.outcome \in {"unlimited", "fits", "usage", "refused", "broken", "compacted"}
              /\ r.outcome # "compacted" => r.context = c
              /\ r.outcome = "compacted" =>
                    /\ Compacted(c, t.budget, r)
                    /\ r.context \in Seq(Messages) /\ r.dropped \in Seq(Messages)
              /\ r.outcome = "unlimited" <=> t.budget = NoBudget
              /\ r.outcome = "fits" => Cost(c) <= t.budget
<1> DEFINE c == Moved(s, t).context
           r == Fit(s, t)
           k == Compact(c, t.budget)
<1>1. c \in Seq(Messages) /\ Sized(c) /\ t.budget \in Int
  BY MovedContext, MessagesSized, SizesAssumption
<1>2. /\ k.outcome \in {"usage", "unchanged", "refused", "broken", "compacted"}
      /\ k.context \in Seq(Messages) /\ k.dropped \in Seq(Messages)
      /\ k.outcome # "compacted" => k.context = c
      /\ k.outcome = "compacted" => Compacted(c, t.budget, k)
  BY <1>1, CompactFacts
<1>3. k.outcome = "unchanged" => Cost(c) <= t.budget
  <2>1. k.outcome = "unchanged" => Fits(c, t.budget)
    BY DEF Compact, Left
  <2> QED
    BY <2>1 DEF Fits
<1>4. r = IF t.budget = NoBudget THEN Left("unlimited", c)
          ELSE IF Cost(c) <= t.budget THEN Left("fits", c) ELSE k
  BY DEF Fit
<1> HIDE DEF c, k, r
<1>5. CASE t.budget = NoBudget
  BY <1>4, <1>5 DEF Left, c, r
<1>6. CASE t.budget # NoBudget /\ Cost(c) <= t.budget
  BY <1>4, <1>6 DEF Left, c, r
<1>7. CASE t.budget # NoBudget /\ ~(Cost(c) <= t.budget)
  <2>1. r = k /\ k.outcome # "unchanged"
    BY <1>3, <1>4, <1>7
  <2> QED
    BY <1>2, <1>7, <2>1 DEF c, r
<1> QED
  BY <1>5, <1>6, <1>7

LEMMA DeliveredFacts ==
    ASSUME NEW s, DocumentOK(s), NEW t \in Targets
    PROVE  LET fit == Fit(s, t)
               d == Delivered(s, t, fit)
           IN /\ DocumentOK(d)
              /\ d.requires = s.requires /\ d.optional = s.optional
              /\ d.granted = t.granted /\ d.provider = t.provider
              /\ d.context = fit.context
              /\ d.opaque = Moved(s, t).opaque /\ d.scratch = Moved(s, t).scratch
              /\ fit.outcome # "compacted" =>
                    /\ d.memory = s.memory /\ d.context = Moved(s, t).context
                    /\ d.events = Append(s.events, "migrated")
              /\ fit.outcome = "compacted" =>
                    /\ d.memory = Append(s.memory, Len(fit.dropped))
                    /\ d.events = Append(Append(s.events, "compacted"), "migrated")
<1> DEFINE m == Moved(s, t)
           fit == Fit(s, t)
           f == Fitted(m, fit)
<1>1. /\ IsDocument(m) /\ m.requires = s.requires /\ m.optional = s.optional
      /\ m.memory = s.memory /\ m.events = s.events /\ m.provider = t.provider
      /\ m.opaque \in {NoHandle, <<m.adapter, m.provider>>}
      /\ m.scratch \in {NoScratch, m.adapter}
  BY MovedFacts
<1>2. f = IF fit.outcome # "compacted" THEN m
          ELSE [m EXCEPT !.context = fit.context,
                         !.memory = Append(@, Len(fit.dropped)),
                         !.events = Append(@, "compacted")]
  BY DEF Fitted
<1>3. /\ fit.outcome # "compacted" => fit.context = m.context
      /\ fit.outcome = "compacted" =>
            fit.context \in Seq(Messages) /\ fit.dropped \in Seq(Messages)
      /\ m.context \in Seq(Messages)
  BY FitFacts, MovedContext
<1> HIDE DEF m, f, fit
<1>4. /\ IsDocument(f) /\ f.requires = m.requires /\ f.optional = m.optional
      /\ f.opaque = m.opaque /\ f.scratch = m.scratch
      /\ f.adapter = m.adapter /\ f.provider = m.provider
      /\ f.context = fit.context
      /\ fit.outcome # "compacted" => f.memory = m.memory /\ f.events = m.events
      /\ fit.outcome = "compacted" => /\ f.memory = Append(m.memory, Len(fit.dropped))
                                     /\ f.events = Append(m.events, "compacted")
  BY <1>1, <1>2, <1>3 DEF IsDocument
<1>5. Delivered(s, t, fit) = [f EXCEPT !.granted = t.granted,
                                       !.events = Append(@, "migrated")]
  BY DEF Delivered, f, m
<1>6. t.granted \in SUBSET Names
  BY NamesAssumption
<1> DEFINE d == Delivered(s, t, fit)
<1> HIDE DEF d
<1>7. /\ IsDocument(d) /\ d.requires = f.requires /\ d.optional = f.optional
      /\ d.opaque = f.opaque /\ d.scratch = f.scratch
      /\ d.adapter = f.adapter /\ d.provider = f.provider
      /\ d.memory = f.memory /\ d.context = f.context
      /\ d.granted = t.granted /\ d.events = Append(f.events, "migrated")
  BY <1>4, <1>5 DEF IsDocument, d
<1>8. d.context \in Seq(Messages) /\ d.memory \in Seq(Nat) /\ d.events \in Seq(Happenings)
  <2>1. s.memory \in Seq(Nat) /\ s.events \in Seq(Happenings)
    BY DEF DocumentOK
  <2>2. ASSUME NEW q \in Seq(Happenings)
        PROVE  Append(q, "compacted") \in Seq(Happenings) /\ Append(q, "migrated") \in Seq(Happenings)
    BY HappeningsFacts
  <2>3. f.events \in Seq(Happenings)
    BY <1>1, <1>4, <2>1, <2>2
  <2>4. fit.outcome = "compacted" => Append(s.memory, Len(fit.dropped)) \in Seq(Nat)
    BY <1>3, <2>1
  <2>5. f.memory \in Seq(Nat)
    BY <1>1, <1>4, <2>1, <2>4
  <2>6. fit.context \in Seq(Messages)
    BY <1>3
  <2> QED
    BY <1>4, <1>7, <2>2, <2>3, <2>5, <2>6
<1>9. DocumentOK(d)
  BY <1>1, <1>4, <1>6, <1>7, <1>8 DEF DocumentOK
<1> QED
  BY <1>1, <1>3, <1>4, <1>7, <1>9 DEF d, m, fit

-----------------------------------------------------------------------------
(* What the summaries account for *)

LEMMA LostIsSum ==
    ASSUME NEW c \in Seq(Nat), NEW F, IsSum(F, c, Len(c))
    PROVE  Lost(c) = F[DOMAIN c]
<1> DEFINE S == DOMAIN c
           n == Len(c)
           Body(f) == [s \in SUBSET S |->
                         IF s = {} THEN 0
                         ELSE c[CHOOSE x \in s : TRUE] + f[s \ {CHOOSE x \in s : TRUE}]]
           iter == CHOOSE f : f = Body(f)
<1>1. n \in Nat /\ c \in [1 .. n -> Int] /\ IsSum(F, c, n) /\ S \in SUBSET (1 .. n)
  OBVIOUS
<1>2. ASSUME NEW f PROVE Body(f) = [s \in SUBSET S |-> SumStep(f, s, c)]
  BY DEF SumStep
<1>3. Lost(c) = iter[S]
  BY DEF Lost, MapThenSumSet, MapThenFoldSet
<1> HIDE DEF Body, n, S
<1>4. iter = Body(iter)
  <2>1. \E f : f = Body(f)
    <3>1. \E f : f = [s \in SUBSET S |-> SumStep(f, s, c)]
      BY <1>1, SumFolds
    <3> QED
      BY <1>2, <3>1
  <2> QED
    BY <2>1
<1> HIDE DEF iter
<1>5. SumsUp(iter, S, c)
  BY <1>2, <1>4 DEF SumsUp
<1>6. iter[S] = F[S]
  BY <1>1, <1>5, FoldIsSum
<1> QED
  BY <1>3, <1>6 DEF S

LEMMA LostFacts ==
    ASSUME NEW c \in Seq(Nat)
    PROVE  Lost(c) \in Int
<1>1. Len(c) \in Nat /\ DOMAIN c = 1 .. Len(c) /\ c \in [1 .. Len(c) -> Int]
  OBVIOUS
<1>2. PICK F : IsSum(F, c, Len(c))
  BY <1>1, SumExists
<1>3. Lost(c) = F[DOMAIN c]
  BY <1>2, LostIsSum
<1>4. F[DOMAIN c] \in Int
  BY <1>1, <1>2 DEF IsSum
<1> QED
  BY <1>3, <1>4

\* One summary more accounts for the messages it replaces.
LEMMA LostAppend ==
    ASSUME NEW c \in Seq(Nat), NEW k \in Nat
    PROVE  Lost(Append(c, k)) = Lost(c) + k
<1> DEFINE d == Append(c, k)
           n == Len(c)
<1>1. /\ n \in Nat /\ DOMAIN c = 1 .. n /\ d \in Seq(Nat) /\ DOMAIN d = 1 .. (n + 1)
      /\ Len(d) = n + 1 /\ d[n + 1] = k /\ \A i \in 1 .. n : d[i] = c[i]
  OBVIOUS
<1>2. c \in [1 .. n -> Int] /\ d \in [1 .. (n + 1) -> Int]
  <2>1. \A e \in Seq(Nat) : e \in [1 .. Len(e) -> Int]
    OBVIOUS
  <2> HIDE DEF d
  <2> QED
    BY <1>1, <2>1
<1> HIDE DEF d, n
<1>3. PICK F : IsSum(F, c, n)
  BY <1>1, <1>2, SumExists
<1>4. PICK G : IsSum(G, d, n + 1)
  <2>1. n + 1 \in Nat
    BY <1>1
  <2> QED
    BY <1>2, <2>1, SumExists
<1>5. Lost(c) = F[1 .. n] /\ Lost(d) = G[1 .. (n + 1)]
  BY <1>1, <1>3, <1>4, LostIsSum DEF n
<1>6. G[1 .. (n + 1)] = k + G[1 .. n]
  <2>1. n + 1 \in 1 .. (n + 1) /\ (1 .. (n + 1)) \ {n + 1} = 1 .. n
    BY <1>1
  <2>2. G[1 .. (n + 1)] = d[n + 1] + G[(1 .. (n + 1)) \ {n + 1}]
    BY <1>4, <2>1 DEF IsSum
  <2> QED
    BY <1>1, <2>1, <2>2
<1>7. F[1 .. n] = G[1 .. n]
  <2>1. n + 1 \in Nat /\ 1 .. n \in SUBSET (1 .. n) /\ 1 .. n \subseteq 1 .. (n + 1)
    BY <1>1
  <2>2. \A x \in 1 .. n : c[x] = d[x]
    BY <1>1
  <2> QED
    BY <1>1, <1>3, <1>4, <2>1, <2>2, SumsAgree
<1>8. Lost(c) \in Int
  BY LostFacts
<1> QED
  BY <1>5, <1>6, <1>7, <1>8 DEF d

LEMMA NothingLost == Lost(<<>>) = 0
<1>1. <<>> \in Seq(Nat) /\ Len(<<>>) = 0 /\ DOMAIN <<>> = {} /\ <<>> \in [1 .. 0 -> Int]
  OBVIOUS
<1>2. PICK F : IsSum(F, <<>>, 0)
  BY <1>1, SumExists
<1> QED
  BY <1>1, <1>2, LostIsSum DEF IsSum

\* One event more is one compaction more or none.
LEMMA CompactionsAppend ==
    ASSUME NEW e \in Seq(Happenings), NEW x \in Happenings
    PROVE  /\ Cardinality(Compactions(e)) \in Nat
           /\ Cardinality(Compactions(Append(e, x)))
                = IF x = "compacted" THEN Cardinality(Compactions(e)) + 1
                  ELSE Cardinality(Compactions(e))
<1> DEFINE n == Len(e)
           d == Append(e, x)
<1>1. /\ n \in Nat /\ DOMAIN e = 1 .. n /\ DOMAIN d = 1 .. (n + 1)
      /\ d[n + 1] = x /\ \A i \in 1 .. n : d[i] = e[i]
  OBVIOUS
<1> HIDE DEF d, n
<1>2. IsFiniteSet(Compactions(e)) /\ n + 1 \notin Compactions(e)
  <2>1. Compactions(e) \in SUBSET (1 .. n)
    BY <1>1 DEF Compactions
  <2>2. IsFiniteSet(Compactions(e))
    BY <1>1, <2>1, IntervalsFinite
  <2> QED
    BY <1>1, <2>1, <2>2
<1>3. CASE x = "compacted"
  <2>1. Compactions(d) = Compactions(e) \cup {n + 1}
    BY <1>1, <1>3 DEF Compactions
  <2> QED
    BY <1>2, <1>3, <2>1, FS_AddElement, FS_CardinalityType DEF d
<1>4. CASE x # "compacted"
  <2>1. Compactions(d) = Compactions(e)
    BY <1>1, <1>4 DEF Compactions
  <2> QED
    BY <1>2, <1>4, <2>1, FS_CardinalityType DEF d
<1> QED
  BY <1>3, <1>4

-----------------------------------------------------------------------------
(* The inductive invariant *)

\* What is said of the last migration is what migrate makes of some document.
ReportOK ==
    Produced => \E s, t : DocumentOK(s) /\ t \in Targets /\ last = Migrated(s, t)

\* Every message that is held is one that was said, and shows the role it was
\* said with.
HistoryOK ==
    /\ said \in Seq(Messages)
    /\ \A i \in DOMAIN held.context :
          /\ held.context[i].id \in DOMAIN said
          /\ Bears(held.context[i], said[held.context[i].id])

IInv == DocumentOK(held) /\ ReportOK /\ HistoryOK /\ LossAccounted

LEMMA InitOK == Init => IInv
<1> SUFFICES ASSUME Init PROVE IInv
  OBVIOUS
<1>1. PICK home \in Homes, need \in Needs, granted \in GrantSets :
         held = Born(home, need, granted)
  BY DEF Init
<1>2. granted \in SUBSET Names /\ need.requires \in SUBSET Names
      /\ need.optional \in SUBSET Names
  BY NamesAssumption
<1>3. DocumentOK(held)
  BY <1>1, <1>2 DEF Born, DocumentOK, IsDocument
<1>4. ReportOK
  BY DEF Init, NoMigration, ReportOK, Produced
<1>5. said = <<>> /\ held.context = <<>> /\ held.memory = <<>> /\ held.events = <<>>
  BY <1>1 DEF Init, Born
<1>6. HistoryOK
  BY <1>5 DEF HistoryOK
<1>7. LossAccounted
  <2>1. Compactions(<<>>) = {}
    BY DEF Compactions
  <2> QED
    BY <1>5, <2>1, NothingLost, FS_EmptySet DEF LossAccounted
<1> QED
  BY <1>3, <1>4, <1>6, <1>7 DEF IInv

\* A step after which no migration is the last thing that happened.
LEMMA Elsewhere ==
    ASSUME last' = NoMigration, DocumentOK(held'), HistoryOK', LossAccounted'
    PROVE  IInv'
BY DEF IInv, ReportOK, Produced, NoMigration, DocumentOK, IsDocument

LEMMA WorkStep ==
    ASSUME IInv, NEW kind \in Kinds, Work(kind)
    PROVE  IInv'
<1> DEFINE n == Len(said)
           k == Len(held.context)
           m == Message(kind, n + 1)
<1>1. /\ held' = [held EXCEPT !.context = Append(@, m),
                              !.opaque = <<held.adapter, held.provider>>,
                              !.scratch = held.adapter]
      /\ said' = Append(said, m)
  BY DEF Work
<1>2. /\ n \in Nat /\ DOMAIN said = 1 .. n /\ k \in Nat /\ DOMAIN held.context = 1 .. k
      /\ said \in Seq(Messages) /\ held.context \in Seq(Messages)
  BY DEF IInv, DocumentOK, HistoryOK
<1>3. m \in Messages /\ m.id = n + 1 /\ Bears(m, m)
  BY <1>2, MessageFacts
<1> HIDE DEF m
<1>4. /\ DOMAIN said' = 1 .. (n + 1) /\ said'[n + 1] = m /\ Len(said') = n + 1
      /\ \A i \in 1 .. n : said'[i] = said[i]
      /\ said' \in Seq(Messages)
  BY <1>1, <1>2, <1>3
<1>5. held'.context = Append(held.context, m) /\ held'.memory = held.memory
      /\ held'.events = held.events
  BY <1>1 DEF IInv, DocumentOK, IsDocument
<1>6. /\ DOMAIN held'.context = 1 .. (k + 1) /\ held'.context[k + 1] = m
      /\ Len(held'.context) = k + 1
      /\ \A i \in 1 .. k : held'.context[i] = held.context[i]
      /\ held'.context \in Seq(Messages)
  BY <1>2, <1>3, <1>5
<1>7. DocumentOK(held')
  BY <1>1, <1>6 DEF IInv, DocumentOK, IsDocument
<1> HIDE DEF n, k
<1>8. HistoryOK'
  <2>1. ASSUME NEW i \in DOMAIN held'.context
        PROVE  /\ held'.context[i].id \in DOMAIN said'
               /\ Bears(held'.context[i], said'[held'.context[i].id])
    <3>1. CASE i \in 1 .. k
      <4>1. /\ held'.context[i] = held.context[i] /\ held.context[i].id \in 1 .. n
            /\ Bears(held.context[i], said[held.context[i].id])
        BY <1>2, <1>6, <3>1 DEF IInv, HistoryOK
      <4> QED
        BY <1>2, <1>4, <4>1
    <3>2. CASE i = k + 1
      BY <1>2, <1>3, <1>4, <1>6, <3>2
    <3> QED
      BY <1>2, <1>6, <3>1, <3>2
  <2> QED
    BY <1>4, <2>1 DEF HistoryOK
<1>9. LossAccounted'
  <2>1. n = k + Lost(held.memory) /\ Lost(held.memory) \in Int
        /\ Len(held.memory) = Cardinality(Compactions(held.events))
    BY LostFacts DEF IInv, DocumentOK, LossAccounted, n, k
  <2> QED
    BY <1>2, <1>4, <1>5, <1>6, <2>1 DEF LossAccounted
<1> QED
  BY <1>7, <1>8, <1>9, Elsewhere DEF Work

LEMMA ResumeStep ==
    ASSUME IInv, NEW grants \in GrantSets \cup {held.granted}, NEW degraded \in BOOLEAN,
           Resume(grants, degraded)
    PROVE  IInv'
<1>1. grants \in SUBSET Names
  BY NamesAssumption DEF IInv, DocumentOK
<1>2. PICK status : held' = [held EXCEPT !.granted = grants, !.status = status,
                                         !.events = Append(@, "resumed")]
  BY DEF Resume, Prepared
<1>3. /\ held'.context = held.context /\ held'.memory = held.memory /\ said' = said
      /\ held'.events = Append(held.events, "resumed")
  BY <1>2 DEF IInv, DocumentOK, IsDocument, Resume
<1>4. held.events \in Seq(Happenings) /\ Append(held.events, "resumed") \in Seq(Happenings)
  BY HappeningsFacts DEF IInv, DocumentOK
<1>5. DocumentOK(held')
  BY <1>1, <1>2, <1>4 DEF IInv, DocumentOK, IsDocument
<1>6. HistoryOK'
  BY <1>3 DEF IInv, HistoryOK
<1>7. LossAccounted'
  <2>1. Cardinality(Compactions(held'.events)) = Cardinality(Compactions(held.events))
    BY <1>3, <1>4, CompactionsAppend, HappeningsFacts
  <2> QED
    BY <1>3, <2>1 DEF IInv, LossAccounted
<1> QED
  BY <1>5, <1>6, <1>7, Elsewhere DEF Resume

\* What migrate returns is a document made by Delivered, or nothing.
LEMMA MigratedFacts ==
    ASSUME NEW s, NEW t, Migrated(s, t).outcome = "produced"
    PROVE  LET r == Migrated(s, t)
           IN /\ r.source = s /\ r.target = t
              /\ r.result = Delivered(s, t, Fit(s, t))
              /\ r.findings = MoveFindings(s, t) \cup FitFindings(Fit(s, t))
              /\ r.grantsOK = CheckCapabilities(s.requires, s.optional, t.granted).ok
              /\ ~CheckCapabilities(s.requires, s.optional, t.granted).raises
              /\ r.fatal = (Fit(s, t).outcome = "refused")
              /\ Fit(s, t).outcome \notin {"usage", "broken"}
BY DEF Migrated

\* The context a migration delivers is a part of the one it was given.
LEMMA DeliveredContext ==
    ASSUME NEW s, DocumentOK(s), NEW t \in Targets
    PROVE  LET c == Moved(s, t).context
               d == Fit(s, t).context
           IN \A i \in DOMAIN d : \E j \in DOMAIN c : d[i] = c[j]
<1> DEFINE c == Moved(s, t).context
           r == Fit(s, t)
<1>1. /\ r.outcome # "compacted" => r.context = c
      /\ r.outcome = "compacted" => Compacted(c, t.budget, r)
  BY FitFacts
<1> HIDE DEF c, r
<1>2. CASE r.outcome # "compacted"
  BY <1>1, <1>2 DEF c, r
<1>3. CASE r.outcome = "compacted"
  <2>1. PICK kept \in SUBSET DOMAIN c : Picked(r.context, c, kept)
    BY <1>1, <1>3 DEF Compacted
  <2>2. \A i \in DOMAIN r.context : \E j \in DOMAIN c : r.context[i] = c[j]
    BY <2>1 DEF Picked
  <2> QED
    BY <2>2 DEF c, r
<1> QED
  BY <1>2, <1>3

LEMMA MigrateStep ==
    ASSUME IInv, NEW t \in Targets, Migrate(t)
    PROVE  IInv'
<1>1. last' = Migrated(held, t) /\ DocumentOK(held) /\ said' = said
  BY DEF Migrate, IInv
<1>2. ReportOK'
  BY <1>1 DEF ReportOK, Produced
<1>3. CASE last'.outcome = "produced"
  <2> DEFINE fit == Fit(held, t)
             moved == Moved(held, t).context
             d == Delivered(held, t, fit)
  <2>1. held' = d
    BY <1>1, <1>3, MigratedFacts DEF Migrate
  <2>2. /\ DocumentOK(d) /\ d.context = fit.context
        /\ fit.outcome # "compacted" =>
              /\ d.memory = held.memory /\ d.context = moved
              /\ d.events = Append(held.events, "migrated")
        /\ fit.outcome = "compacted" =>
              /\ d.memory = Append(held.memory, Len(fit.dropped))
              /\ d.events = Append(Append(held.events, "compacted"), "migrated")
    BY <1>1, DeliveredFacts
  <2>3. /\ moved \in Seq(Messages) /\ Len(moved) = Len(held.context)
        /\ \A i \in DOMAIN moved : moved[i].id = held.context[i].id
                                   /\ Keeps(held.context[i], moved[i])
    BY <1>1, MovedContext
  <2>4. \A i \in DOMAIN fit.context : \E j \in DOMAIN moved : fit.context[i] = moved[j]
    BY <1>1, DeliveredContext
  <2>5. fit.outcome = "compacted" =>
           /\ Compacted(moved, t.budget, fit)
           /\ fit.context \in Seq(Messages) /\ fit.dropped \in Seq(Messages)
    BY <1>1, FitFacts
  <2> HIDE DEF fit, moved, d
  <2>6. DocumentOK(held')
    BY <2>1, <2>2
  <2>7. HistoryOK'
    <3>1. DOMAIN moved = DOMAIN held.context
      BY <1>1, <2>3 DEF DocumentOK
    <3>2. ASSUME NEW i \in DOMAIN held'.context
          PROVE  /\ held'.context[i].id \in DOMAIN said
                 /\ Bears(held'.context[i], said[held'.context[i].id])
      <4>1. PICK j \in DOMAIN held.context : held'.context[i] = moved[j]
        BY <2>1, <2>2, <2>4, <3>1
      <4>2. /\ held.context[j].id \in DOMAIN said
            /\ Bears(held.context[j], said[held.context[j].id])
            /\ said[held.context[j].id] \in Messages
        BY DEF IInv, HistoryOK
      <4>3. moved[j].id = held.context[j].id /\ Keeps(held.context[j], moved[j])
        BY <2>3, <3>1
      <4> QED
        BY <4>1, <4>2, <4>3 DEF Keeps
    <3> QED
      BY <1>1, <3>2 DEF IInv, HistoryOK
  <2>8. LossAccounted'
    <3>1. /\ held.memory \in Seq(Nat) /\ held.events \in Seq(Happenings)
          /\ held.context \in Seq(Messages) /\ Lost(held.memory) \in Int
      BY LostFacts DEF IInv, DocumentOK
    <3>2. /\ Len(said) = Len(held.context) + Lost(held.memory)
          /\ Len(held.memory) = Cardinality(Compactions(held.events))
      BY DEF IInv, LossAccounted
    <3>3. CASE fit.outcome # "compacted"
      <4>1. Cardinality(Compactions(Append(held.events, "migrated")))
              = Cardinality(Compactions(held.events))
        BY <3>1, CompactionsAppend, HappeningsFacts
      <4> QED
        BY <1>1, <2>1, <2>2, <2>3, <3>2, <3>3, <4>1 DEF LossAccounted
    <3>4. CASE fit.outcome = "compacted"
      <4> DEFINE once == Append(held.events, "compacted")
                 x == Len(fit.context)
                 y == Len(fit.dropped)
      <4>1. once \in Seq(Happenings)
        BY <3>1, HappeningsFacts
      <4>2. Cardinality(Compactions(Append(once, "migrated")))
              = Cardinality(Compactions(held.events)) + 1
        <5>1. Cardinality(Compactions(once)) = Cardinality(Compactions(held.events)) + 1
          BY <3>1, CompactionsAppend, HappeningsFacts
        <5> HIDE DEF once
        <5>2. Cardinality(Compactions(Append(once, "migrated"))) = Cardinality(Compactions(once))
          BY <4>1, CompactionsAppend, HappeningsFacts
        <5> QED
          BY <5>1, <5>2
      <4>3. x \in Nat /\ y \in Nat /\ Len(moved) = x + y
        <5>1. Len(moved) = Len(fit.context) + Len(fit.dropped)
          BY <2>5, <3>4 DEF Compacted
        <5>2. Len(fit.context) \in Nat /\ Len(fit.dropped) \in Nat
          BY <2>5, <3>4
        <5> QED
          BY <5>1, <5>2
      <4>4. Lost(held'.memory) = Lost(held.memory) + y
        BY <2>1, <2>2, <3>1, <3>4, <4>3, LostAppend
      <4>5. Len(held'.memory) = Len(held.memory) + 1
        BY <2>1, <2>2, <3>1, <3>4
      <4>6. Len(held'.context) = x /\ held'.events = Append(once, "migrated")
        BY <2>1, <2>2, <3>4
      <4> HIDE DEF x, y, once
      <4>7. Len(said') = Len(held'.context) + Lost(held'.memory)
        BY <1>1, <2>3, <3>1, <3>2, <4>3, <4>4, <4>6
      <4>8. Len(held'.memory) = Cardinality(Compactions(held'.events))
        BY <3>2, <4>2, <4>5, <4>6
      <4> QED
        BY <4>7, <4>8 DEF LossAccounted
    <3> QED
      BY <3>3, <3>4
  <2> QED
    BY <1>2, <2>6, <2>7, <2>8 DEF IInv, DocumentOK, IsDocument
<1>4. CASE last'.outcome # "produced"
  BY <1>1, <1>2, <1>4 DEF Migrate, IInv, DocumentOK, IsDocument, HistoryOK, LossAccounted
<1> QED
  BY <1>3, <1>4

LEMMA StepOK == IInv /\ [Next]_vars => IInv'
<1> SUFFICES ASSUME IInv, [Next]_vars PROVE IInv'
  OBVIOUS
<1>1. ASSUME NEW kind \in Kinds, Work(kind) PROVE IInv'
  BY <1>1, WorkStep
<1>2. ASSUME NEW t \in Targets, Migrate(t) PROVE IInv'
  BY <1>2, MigrateStep
<1>3. ASSUME NEW grants \in GrantSets \cup {held.granted}, NEW degraded \in BOOLEAN,
             Resume(grants, degraded)
      PROVE  IInv'
  BY <1>3, ResumeStep
<1>4. CASE UNCHANGED vars
  BY <1>4 DEF vars, IInv, ReportOK, Produced, DocumentOK, IsDocument, HistoryOK,
              LossAccounted
<1> QED
  BY <1>1, <1>2, <1>3, <1>4 DEF Next

\* The inductive invariant holds in every behaviour: what is held is a document
\* with no handle from elsewhere, its messages are messages that were said, its
\* memory accounts for the others, and what is reported was made by migrate.
THEOREM MigrationInvariant == Spec => []IInv
<1> QED
  BY InitOK, StepOK, PTL DEF Spec

-----------------------------------------------------------------------------
(* The theorems *)

\* HandlesStayHome: through any chain of migrations and resumes, the handles of a
\* provider and the scratch state of an adapter are with the one that left them.
THEOREM HandlesNeverLeave == Spec => []HandlesStayHome
<1>1. IInv => HandlesStayHome
  BY DEF IInv, DocumentOK, HandlesStayHome
<1> QED
  BY <1>1, MigrationInvariant, PTL

\* LossIsNamed: whatever the destination, the findings name every message that is
\* gone, every text that changed and all handles and scratch state left behind.
THEOREM LossesAreNamed == Spec => []LossIsNamed
<1>1. IInv => LossIsNamed
  <2> SUFFICES ASSUME IInv, Produced PROVE LossIsNamed
    BY DEF LossIsNamed
  <2>1. PICK s, t : DocumentOK(s) /\ t \in Targets /\ last = Migrated(s, t)
    BY DEF IInv, ReportOK
  <2> DEFINE fit == Fit(s, t)
             moved == Moved(s, t).context
             d == Delivered(s, t, fit)
             gone == Len(s.context) - Len(d.context)
  <2>2. /\ last.source = s /\ last.result = d
        /\ last.findings = MoveFindings(s, t) \cup FitFindings(fit)
    BY <2>1, MigratedFacts DEF Produced
  <2>3. /\ d.context = fit.context
        /\ d.opaque = Moved(s, t).opaque /\ d.scratch = Moved(s, t).scratch
        /\ fit.outcome # "compacted" => d.memory = s.memory /\ d.context = moved
        /\ fit.outcome = "compacted" => d.memory = Append(s.memory, Len(fit.dropped))
    BY <2>1, DeliveredFacts
  <2>4. /\ moved \in Seq(Messages) /\ Len(moved) = Len(s.context)
        /\ \A i \in DOMAIN moved : moved[i].id = s.context[i].id
    BY <2>1, MovedContext
  <2>5. \A i \in DOMAIN fit.context : \E j \in DOMAIN moved : fit.context[i] = moved[j]
    BY <2>1, DeliveredContext
  <2>6. fit.outcome = "compacted" =>
           /\ Compacted(moved, t.budget, fit)
           /\ fit.context \in Seq(Messages) /\ fit.dropped \in Seq(Messages)
    BY <2>1, FitFacts
  <2>7. /\ Moved(s, t).opaque = (IF SameProvider(s, t) /\ SameAdapter(s, t)
                                THEN s.opaque ELSE NoHandle)
        /\ Moved(s, t).scratch = (IF SameAdapter(s, t) THEN s.scratch ELSE NoScratch)
        /\ SameProvider(s, t) => moved = s.context
    BY <2>1, MovedFacts
  <2>8. /\ Found("context.budget", "TRANSLATED") <=> fit.outcome = "compacted"
        /\ ~SameProvider(s, t) => Found("context", "TRANSLATED")
        /\ Found("provider.opaque", "UNAVAILABLE") <=>
              s.opaque # NoHandle /\ ~(SameProvider(s, t) /\ SameAdapter(s, t))
        /\ Found("runtime_opaque", "UNAVAILABLE") <=>
              s.scratch # NoScratch /\ ~SameAdapter(s, t)
    <3>1. /\ <<"context.budget", "TRANSLATED">> \notin MoveFindings(s, t)
          /\ ~SameProvider(s, t) => <<"context", "TRANSLATED">> \in MoveFindings(s, t)
      BY DEF MoveFindings, Unchanged
    <3>2. <<"context.budget", "TRANSLATED">> \in FitFindings(fit)
            <=> fit.outcome = "compacted"
      BY DEF FitFindings
    <3>3. /\ <<"provider.opaque", "UNAVAILABLE">> \notin FitFindings(fit)
          /\ <<"runtime_opaque", "UNAVAILABLE">> \notin FitFindings(fit)
      BY DEF FitFindings
    <3>4. <<"provider.opaque", "UNAVAILABLE">> \in MoveFindings(s, t) <=>
             s.opaque # NoHandle /\ ~(SameProvider(s, t) /\ SameAdapter(s, t))
      BY DEF MoveFindings, Unchanged
    <3>5. <<"runtime_opaque", "UNAVAILABLE">> \in MoveFindings(s, t) <=>
             s.scratch # NoScratch /\ ~SameAdapter(s, t)
      BY DEF MoveFindings, Unchanged
    <3> HIDE DEF fit
    <3> QED
      BY <2>2, <3>1, <3>2, <3>3, <3>4, <3>5 DEF Found
  <2> HIDE DEF fit, moved, d
  <2>9. s.context \in Seq(Messages) /\ DOMAIN moved = DOMAIN s.context
    BY <2>1, <2>4 DEF DocumentOK
  <2>10. /\ gone # 0 <=> fit.outcome = "compacted"
         /\ d.memory = IF gone = 0 THEN s.memory ELSE Append(s.memory, gone)
    <3>1. CASE fit.outcome # "compacted"
      <4>1. Len(d.context) = Len(s.context) /\ Len(s.context) \in Nat
        BY <2>3, <2>4, <2>9, <3>1
      <4>2. gone = 0
        BY <4>1
      <4> QED
        BY <2>3, <3>1, <4>2
    <3>2. CASE fit.outcome = "compacted"
      <4>1. /\ Len(moved) = Len(fit.context) + Len(fit.dropped) /\ fit.dropped # <<>>
            /\ Len(fit.context) \in Nat /\ Len(fit.dropped) \in Nat
        <5>1. fit.context \in Seq(Messages) /\ fit.dropped \in Seq(Messages)
          BY <2>6, <3>2
        <5>2. Len(moved) = Len(fit.context) + Len(fit.dropped) /\ fit.dropped # <<>>
          BY <2>6, <3>2, Zenon DEF Compacted
        <5> QED
          BY <5>1, <5>2
      <4>2. Len(fit.dropped) # 0
        BY <2>6, <3>2, <4>1
      <4>3. gone = Len(fit.dropped)
        <5>1. Len(s.context) = Len(d.context) + Len(fit.dropped)
          BY <2>3, <2>4, <4>1
        <5>2. Len(d.context) \in Nat
          BY <2>3, <4>1
        <5> QED
          BY <4>1, <5>1, <5>2
      <4> HIDE DEF gone
      <4> QED
        BY <2>3, <3>2, <4>2, <4>3
    <3> QED
      BY <3>1, <3>2
  <2>11. Ids(d.context) \subseteq Ids(s.context)
    <3>1. ASSUME NEW i \in DOMAIN d.context
          PROVE  \E j \in DOMAIN s.context : d.context[i].id = s.context[j].id
      <4>1. PICK j \in DOMAIN moved : d.context[i] = moved[j]
        BY <2>3, <2>5
      <4> QED
        BY <2>4, <2>9, <4>1
    <3> HIDE DEF gone
    <3> QED
      BY <3>1 DEF Ids
  <2>12. ASSUME NEW i \in DOMAIN d.context
         PROVE  d.context[i] \in ToSet(s.context) \/ Found("context", "TRANSLATED")
    <3>1. CASE SameProvider(s, t)
      BY <2>3, <2>5, <2>7, <3>1 DEF ToSet
    <3> QED
      BY <2>8, <3>1
  <2>13. /\ d.opaque # s.opaque <=> Found("provider.opaque", "UNAVAILABLE")
         /\ d.scratch # s.scratch <=> Found("runtime_opaque", "UNAVAILABLE")
    BY <2>3, <2>7, <2>8
  <2> QED
    BY <2>2, <2>8, <2>10, <2>11, <2>12, <2>13 DEF LossIsNamed
<1> QED
  BY <1>1, MigrationInvariant, PTL

\* GatesAgree, for any names and grants with wildcards: the verdict of the report
\* is what the namespaces above each name say, resume comes to the same one, and
\* revoking the grants a check calls unused does not change it.
THEOREM GatesAlwaysAgree == Spec => []GatesAgree
<1>1. IInv => GatesAgree
  <2> SUFFICES ASSUME IInv, Produced PROVE GatesAgree
    BY DEF GatesAgree
  <2>1. PICK s, t : DocumentOK(s) /\ t \in Targets /\ last = Migrated(s, t)
    BY DEF IInv, ReportOK
  <2> DEFINE d == Delivered(s, t, Fit(s, t))
  <2>2. last.result = d
        /\ last.grantsOK = CheckCapabilities(s.requires, s.optional, t.granted).ok
    BY <2>1, MigratedFacts DEF Produced
  <2>3. /\ DocumentOK(d) /\ d.granted = t.granted
        /\ d.requires = s.requires /\ d.optional = s.optional
    BY <2>1, DeliveredFacts
  <2> HIDE DEF d
  <2> DEFINE check == CheckCapabilities(d.requires, d.optional, d.granted)
  <2>4. /\ check.ok <=> CheckCapabilities(d.requires, d.optional, d.granted \ check.unused).ok
        /\ check.ok <=> \A n \in d.requires : (Below(n) \cup {n}) \cap d.granted # {}
    BY <2>3, CheckFacts DEF DocumentOK
  <2>5. \A grants : Refuses(d, grants)
                      <=> ~CheckCapabilities(d.requires, d.optional, grants).ok
    BY DEF Refuses
  <2>6. last.grantsOK = check.ok
    BY <2>2, <2>3
  <2> QED
    BY <2>2, <2>4, <2>5, <2>6 DEF GatesAgree, Below
<1> QED
  BY <1>1, MigrationInvariant, PTL

\* LossAccounted: over any chain of migrations, whatever the budgets, the summaries
\* in the memory add up to the messages that are gone, and the history has one
\* event for each of them.
THEOREM LossIsAccounted == Spec => []LossAccounted
<1>1. IInv => LossAccounted
  BY DEF IInv
<1> QED
  BY <1>1, MigrationInvariant, PTL

\* RoleInText: through any chain of destinations a message's text ends in what was
\* written, tags it began with included, and the innermost tag put in front of that
\* names the role it was written with; the metadata names the last one replaced.
THEOREM RolesStayInText == Spec => []RoleInText
<1>1. IInv => RoleInText
  <2> SUFFICES ASSUME IInv, NEW i \in DOMAIN held.context
               PROVE  LET m == held.context[i]
                          written == said[m.id]
                          added == Len(m.tags) - Len(written.tags)
                      IN /\ added >= 0
                         /\ SubSeq(m.tags, added + 1, Len(m.tags)) = written.tags
                         /\ written.role = IF added = 0 THEN m.role ELSE m.tags[added]
                         /\ m.original = IF added = 0 THEN NoRole ELSE m.tags[1]
    BY DEF RoleInText
  <2> DEFINE m == held.context[i]
             w == said[m.id]
             added == Len(m.tags) - Len(w.tags)
             n == Len(m.tags)
  <2>1. m \in Messages /\ w \in Messages /\ Bears(m, w)
    BY DEF IInv, DocumentOK, HistoryOK
  <2> HIDE DEF m, w
  <2>2. m.tags \in Seq(Tags) /\ w.tags \in Seq(Tags)
    BY <2>1 DEF Messages
  <2>3. added \in Nat /\ n \in Nat /\ Len(w.tags) \in Nat /\ n = added + Len(w.tags)
    BY <2>1, <2>2 DEF Bears
  <2>4. \A k \in 1 .. Len(w.tags) : m.tags[added + k] = w.tags[k]
    <3>1. DOMAIN w.tags = 1 .. Len(w.tags)
      BY <2>2
    <3> QED
      BY <2>1, <3>1 DEF Bears
  <2> DEFINE a == added + 1
             tail == SubSeq(m.tags, a, n)
  <2>5. /\ tail \in Seq(Tags) /\ Len(tail) = IF a <= n THEN n - a + 1 ELSE 0
        /\ \A k \in 1 .. n - a + 1 : tail[k] = m.tags[a + k - 1]
    <3>1. a \in Nat /\ \A k \in a .. n : m.tags[k] \in Tags
      BY <2>2, <2>3
    <3> HIDE DEF a, n
    <3> QED
      BY <2>2, <2>3, <3>1, SubSeqProperties
  <2> HIDE DEF tail
  <2>6. Len(tail) = Len(w.tags)
    BY <2>3, <2>5
  <2>7. \A k \in 1 .. Len(w.tags) : tail[k] = w.tags[k]
    <3>1. ASSUME NEW k \in 1 .. Len(w.tags) PROVE tail[k] = m.tags[added + k]
      <4>1. k \in 1 .. n - a + 1 /\ a + k - 1 = added + k
        BY <2>3
      <4> QED
        BY <2>5, <4>1
    <3> QED
      BY <2>4, <3>1
  <2>8. tail = w.tags
    BY <2>2, <2>5, <2>6, <2>7, SeqEqual
  <2>9. /\ added >= 0 /\ tail = w.tags
        /\ w.role = IF added = 0 THEN m.role ELSE m.tags[added]
        /\ m.original = IF added = 0 THEN NoRole ELSE m.tags[1]
    BY <2>1, <2>8 DEF Bears
  <2> QED
    BY <2>9 DEF m, w, tail
<1> QED
  BY <1>1, MigrationInvariant, PTL

\* A migration that did not fail on the budget delivers a context that fits it.
LEMMA DeliveredFits ==
    ASSUME NEW s, DocumentOK(s), NEW t \in Targets, t.budget # NoBudget,
           Fit(s, t).outcome \notin {"usage", "broken", "refused"}
    PROVE  Cost(Fit(s, t).context) <= t.budget
<1> DEFINE c == Moved(s, t).context
           r == Fit(s, t)
<1>1. /\ r.outcome \in {"unlimited", "fits", "usage", "refused", "broken", "compacted"}
      /\ r.outcome # "compacted" => r.context = c
      /\ r.outcome = "compacted" => Compacted(c, t.budget, r)
      /\ r.outcome = "unlimited" <=> t.budget = NoBudget
      /\ r.outcome = "fits" => Cost(c) <= t.budget
  BY FitFacts
<1> HIDE DEF c, r
<1>2. CASE r.outcome = "fits"
  BY <1>1, <1>2 DEF r
<1>3. CASE r.outcome = "compacted"
  BY <1>1, <1>3 DEF Compacted, r
<1> QED
  BY <1>1, <1>2, <1>3 DEF r

\* FitsDestination: the tags of renamed roles included, a migration that did not
\* fail on the budget of its destination fits it.
THEOREM DestinationsFit == Spec => []FitsDestination
<1>1. IInv => FitsDestination
  <2> SUFFICES ASSUME IInv, Produced, last.target.budget # NoBudget, ~last.fatal
               PROVE  Cost(last.result.context) <= last.target.budget
    BY DEF FitsDestination
  <2>1. PICK s, t : DocumentOK(s) /\ t \in Targets /\ last = Migrated(s, t)
    BY DEF IInv, ReportOK
  <2> DEFINE fit == Fit(s, t)
             d == Delivered(s, t, fit)
  <2>2. /\ last.target = t /\ last.result = d /\ last.fatal = (fit.outcome = "refused")
        /\ fit.outcome \notin {"usage", "broken"}
    BY <2>1, MigratedFacts DEF Produced
  <2>3. d.context = fit.context
    BY <2>1, DeliveredFacts
  <2>4. Cost(fit.context) <= t.budget
    <3>1. t.budget # NoBudget /\ fit.outcome \notin {"usage", "broken", "refused"}
      BY <2>2
    <3> QED
      BY <2>1, <3>1, DeliveredFits
  <2> HIDE DEF fit, d
  <2> QED
    BY <2>2, <2>3, <2>4
<1> QED
  BY <1>1, MigrationInvariant, PTL

\* Settles: a second migration to the same destination finds the roles settled and
\* the budget kept, whether or not the fallback is a role of the destination.
THEOREM MigrationSettles == Spec => []Settles
<1>1. IInv => Settles
  <2> SUFFICES ASSUME IInv, Produced, ~last.fatal
               PROVE  Migrated(last.result, last.target).result.context
                        = last.result.context
    BY DEF Settles
  <2>1. PICK s, t : DocumentOK(s) /\ t \in Targets /\ last = Migrated(s, t)
    BY DEF IInv, ReportOK
  <2> DEFINE fit == Fit(s, t)
             c == Moved(s, t).context
             d == Delivered(s, t, fit)
             again == Fit(d, t)
  <2>2. /\ last.target = t /\ last.result = d /\ last.fatal = (fit.outcome = "refused")
        /\ fit.outcome \notin {"usage", "broken"}
        /\ ~CheckCapabilities(s.requires, s.optional, t.granted).raises
    BY <2>1, MigratedFacts DEF Produced
  <2>3. /\ DocumentOK(d) /\ d.context = fit.context /\ d.provider = t.provider
        /\ d.requires = s.requires /\ d.optional = s.optional
    BY <2>1, DeliveredFacts
  <2>4. Moved(d, t).context = d.context
    <3>1. CASE t.provider # NoProvider
      <4>1. SameProvider(d, t)
        BY <2>3, <3>1 DEF SameProvider
      <4> HIDE DEF d
      <4> QED
        BY <2>1, <2>3, <4>1, MovedFacts
    <3>2. CASE t.provider = NoProvider
      <4>1. ~SameProvider(d, t) /\ ~SameProvider(s, t)
        BY <3>2 DEF SameProvider
      <4>2. Settled(c, t.roles)
        BY <2>1, <4>1, MovedContext
      <4>3. \A i \in DOMAIN fit.context : \E j \in DOMAIN c : fit.context[i] = c[j]
        BY <2>1, DeliveredContext
      <4> HIDE DEF fit, c, d
      <4>4. Settled(d.context, t.roles)
        BY <2>3, <4>2, <4>3 DEF Settled
      <4>5. d.context \in Seq(Messages)
        BY <2>3 DEF DocumentOK
      <4>6. TranslateRoles(d.context, t.roles) = d.context
        BY <2>1, <4>4, <4>5, TranslateFacts
      <4>7. Moved(d, t).context = TranslateRoles(d.context, t.roles)
        BY <2>1, <2>3, <4>1, MovedFacts
      <4> QED
        BY <4>6, <4>7
    <3> QED
      BY <3>1, <3>2
  <2>5. again.outcome \in {"unlimited", "fits"} /\ again.context = d.context
    <3>1. CASE t.budget = NoBudget
      BY <2>4, <3>1 DEF Fit, Left
    <3>2. CASE t.budget # NoBudget
      <4>1. Cost(d.context) <= t.budget
        <5>1. fit.outcome \notin {"usage", "broken", "refused"}
          BY <2>2
        <5>2. Cost(fit.context) <= t.budget
          BY <2>1, <3>2, <5>1, DeliveredFits
        <5> HIDE DEF fit, d
        <5> QED
          BY <2>3, <5>2
      <4> QED
        BY <2>4, <3>2, <4>1 DEF Fit, Left
    <3> QED
      BY <3>1, <3>2
  <2> HIDE DEF d
  <2>6. Migrated(d, t).outcome = "produced"
    BY <2>2, <2>3, <2>5 DEF Migrated
  <2>7. Migrated(d, t).result = Delivered(d, t, again)
    BY <2>6, MigratedFacts
  <2>8. Delivered(d, t, again).context = again.context
    BY <2>1, <2>3, DeliveredFacts
  <2> QED
    BY <2>2, <2>5, <2>7, <2>8
<1> QED
  BY <1>1, MigrationInvariant, PTL

=============================================================================
