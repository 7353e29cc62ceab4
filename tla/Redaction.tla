------------------------------ MODULE Redaction ------------------------------
(***************************************************************************)
(* Secret detection and redaction (continuum/redact.py).                   *)
(*                                                                         *)
(* A text is a sequence of pieces, told apart by what the rules tell       *)
(* apart: whether a piece names a secret, is one, has white space in it,   *)
(* begins or ends in a word character, or is a placeholder, whose own text *)
(* names a secret when its rule does.  A text is cut so that a key has all *)
(* the characters its rule takes in: word characters right behind it are   *)
(* ones the rule does not take.                                            *)
(***************************************************************************)
EXTENDS Naturals, Sequences, SequencesExt

\* kind: "word"   prose, with white space around it
\*       "letters" a few word characters
\*       "name"   a keyword and its separator, as in token=
\*       "key"    a credential with a shape of its own; tag is the rule that knows it
\*       "value"  long and shapeless, as a password
\*       "glue"   a mark or two without white space, as a dot or a bracket
\*       "dashes", "body"  the first word of a private key block, and the rest
\*       "login", "at"     scheme://user: where a word begins, and @
\*       "open", "print"   the two halves of a placeholder, [REDACTED:tag: and of]
\* id tells pieces of one kind apart.
Piece(kind, tag, id, of) == [kind |-> kind, tag |-> tag, id |-> id, of |-> of]
Plain(kind, id) == Piece(kind, "", id, <<>>)
Key(rule, id) == Piece("key", rule, id, <<>>)

StartsWord == {"letters", "name", "key", "value"}
EndsWord == {"letters", "key", "value", "dashes"}
Tight == {"letters", "name", "key", "value", "glue", "dashes", "login", "at",
          "open", "print"}
Long == {"key", "value", "dashes", "login", "open", "print"}
Wordlike == {"letters", "name", "key", "value", "dashes"}   \* of [A-Za-z0-9+/=_-]
Random == {"key", "value"}                  \* of high entropy, in mixed classes
Userinfo == Tight \ {"login", "at"}         \* without white space, @ and /

\* Rules whose name ends in a keyword of the rule for assigned secrets.
Naming == {"github-token", "slack-token", "google-api-key", "assigned-secret"}

\* \b: no word runs on from the piece before i into the one at i.
Boundary(text, i) ==
    i \in 2 .. Len(text) =>
        text[i - 1].kind \notin EndsWord \/ text[i].kind \notin StartsWord

Names(text, i) ==
    \/ text[i].kind = "name" /\ Boundary(text, i)
    \/ text[i].kind = "open" /\ text[i].tag \in Naming

-----------------------------------------------------------------------------
(* scan_text: every rule proposes spans of the original text *)

Span(first, next, rule) == [first |-> first, next |-> next, rule |-> rule]

\* The end of the run of pieces of these kinds that begins at i.
RunEnd(text, i, kinds) ==
    CHOOSE j \in i .. Len(text) + 1 :
        /\ j = Len(text) + 1 \/ text[j].kind \notin kinds
        /\ \A k \in i .. j - 1 : text[k].kind \in kinds

\* A key that word characters adjoin is not matched.
ShapeSpans(text) ==
    {Span(i, i + 1, text[i].tag) : i \in
        {k \in DOMAIN text :
            text[k].kind = "key" /\ Boundary(text, k) /\ Boundary(text, k + 1)}}

BlockSpans(text) ==
    {Span(i, i + 2, "private-key-block") : i \in
        {k \in 1 .. Len(text) - 1 :
            text[k].kind = "dashes" /\ text[k + 1].kind = "body"}}

\* What stands between scheme://user: and @.
UrlSpans(text) ==
    {Span(i + 1, RunEnd(text, i + 1, Userinfo), "credentialed-url") : i \in
        {k \in DOMAIN text :
            LET end == RunEnd(text, k + 1, Userinfo)
            IN /\ text[k].kind = "login"
               /\ \E l \in k + 1 .. end - 1 : text[l].kind # "glue"
               /\ end <= Len(text) /\ text[end].kind = "at"}}

\* What follows a name up to white space, if it is long enough; the matches of
\* one rule do not overlap.
AssignedSpans(text) ==
    LET scan[i \in 1 .. Len(text) + 1] ==
          LET end == RunEnd(text, i + 1, Tight)
          IN IF i > Len(text) THEN {}
             ELSE IF Names(text, i) /\ \E k \in i + 1 .. end - 1 : text[k].kind \in Long
                  THEN {Span(i + 1, end, "assigned-secret")} \cup scan[end]
                  ELSE scan[i + 1]
    IN scan[1]

\* The lines of a body count as one.
HighEntropySpans(text) ==
    {Span(i, RunEnd(text, i, Wordlike), "high-entropy") : i \in
        {k \in DOMAIN text :
            /\ text[k].kind \in Wordlike
            /\ k > 1 => text[k - 1].kind \notin Wordlike
            /\ \E l \in k .. RunEnd(text, k, Wordlike) - 1 : text[l].kind \in Random}}
    \cup {Span(i, i + 1, "high-entropy") : i \in {k \in DOMAIN text : text[k].kind = "body"}}

Proposed(text, aggressive) ==
    ShapeSpans(text) \cup BlockSpans(text) \cup UrlSpans(text) \cup AssignedSpans(text)
        \cup (IF aggressive THEN HighEntropySpans(text) ELSE {})

\* The order in which rules propose; it settles ties.
Rank(span) == CASE span.rule = "credentialed-url" -> 2
                [] span.rule = "assigned-secret" -> 3
                [] span.rule = "high-entropy" -> 4
                [] OTHER -> 1

Preferred(spans) ==
    CHOOSE s \in spans : \A t \in spans :
        \/ s.next > t.next
        \/ s.next = t.next /\ Rank(s) <= Rank(t)

\* Slip: the placeholder does not depend on the secret.
AnonymousPlaceholder(secret, rule) ==
    <<Piece("open", rule, 0, <<>>), Piece("print", "", 0, <<>>)>>

\* placeholder_for: the digest is of the secret alone.
Placeholder(secret, rule) ==
    <<Piece("open", rule, 0, <<>>), Piece("print", "", 0, secret)>>

\* Slip: a span is dropped also when it begins just where the last one ended, or
\* with the text.
ScanApart(text, aggressive) ==
    LET all == Proposed(text, aggressive)
        spans == {s \in all : s.first # 1 /\ \A t \in all : t.next # s.first}
        from[i \in 1 .. Len(text) + 1] ==
          LET here == {s \in spans : s.first = i}
              chosen == Preferred(here)
          IN IF i > Len(text) THEN [text |-> <<>>, found |-> <<>>]
             ELSE IF here = {}
             THEN [from[i + 1] EXCEPT !.text = <<text[i]>> \o @]
             ELSE LET rest == from[chosen.next]
                  IN [text |-> Placeholder(SubSeq(text, i, chosen.next - 1), chosen.rule)
                                 \o rest.text,
                      found |-> <<chosen.rule>> \o rest.found]
    IN from[1]

\* scan_text and _apply_spans: the earliest span wins, then the longest; one
\* that begins inside a span already taken is dropped.
ScanText(text, aggressive) ==
    LET spans == Proposed(text, aggressive)
        from[i \in 1 .. Len(text) + 1] ==
          LET here == {s \in spans : s.first = i}
              chosen == Preferred(here)
          IN IF i > Len(text) THEN [text |-> <<>>, found |-> <<>>]
             ELSE IF here = {}
             THEN [from[i + 1] EXCEPT !.text = <<text[i]>> \o @]
             ELSE LET rest == from[chosen.next]
                  IN [text |-> Placeholder(SubSeq(text, i, chosen.next - 1), chosen.rule)
                                 \o rest.text,
                      found |-> <<chosen.rule>> \o rest.found]
    IN from[1]

-----------------------------------------------------------------------------
(* sanitize_state *)

\* The entries at the chosen places, in their order.
Selected(entries, chosen) ==
    LET upto[n \in 0 .. Len(entries)] ==
          IF n = 0 THEN <<>>
          ELSE IF n \in chosen THEN Append(upto[n - 1], entries[n]) ELSE upto[n - 1]
    IN upto[Len(entries)]

\* options: aggressive, drop (kinds of memory to remove) and strip (clear
\* runtime_opaque).  Memory attributes and provider.opaque are not scanned.
Kept(x, options) ==
    Selected(x.memory, {i \in DOMAIN x.memory : x.memory[i].kind \notin options.drop})

Stripped(x, options) == options.strip /\ x.runtime_opaque # <<>>

Cleaned(x, options) ==
    LET clean(text) == ScanText(text, options.aggressive).text
        kept == Kept(x, options)
    IN [x EXCEPT
          !.memory = [i \in DOMAIN kept |-> [kept[i] EXCEPT !.content = clean(@)]],
          !.context = [i \in DOMAIN @ |-> clean(@[i])],
          !.params = clean(@),
          !.cursor = clean(@),
          !.runtime_opaque = IF Stripped(x, options) THEN <<>> ELSE clean(@)]

\* Slip: what is removed whole is not reported.
TextFindings(x, options) ==
    LET found(text) == ScanText(text, options.aggressive).found
        kept == Kept(x, options)
    IN FlattenSeq([i \in DOMAIN kept |-> found(kept[i].content)])
         \o FlattenSeq([i \in DOMAIN x.context |-> found(x.context[i])])
         \o found(x.params) \o found(x.cursor)
         \o (IF Stripped(x, options) THEN <<>> ELSE found(x.runtime_opaque))

Findings(x, options) ==
    [i \in 1 .. Len(x.memory) - Len(Kept(x, options)) |-> "dropped-memory-kind"]
        \o TextFindings(x, options)
        \o (IF Stripped(x, options) THEN <<"stripped-runtime-opaque">> ELSE <<>>)

SanitizeState(x, options) ==
    LET found == Findings(x, options)
        clean == Cleaned(x, options)
    IN [state |-> IF found = <<>> THEN clean
                  ELSE [clean EXCEPT !.events = Append(@, "state.sanitized")],
        found |-> found]
=============================================================================
