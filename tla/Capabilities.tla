----------------------------- MODULE Capabilities -----------------------------
(***************************************************************************)
(* What a state needs and what an environment grants                       *)
(* (continuum/capabilities.py).                                            *)
(*                                                                         *)
(* A name is a path: "filesystem.read" is <<"filesystem", "read">>.  A     *)
(* grant may end in the wildcard.                                          *)
(***************************************************************************)
EXTENDS Naturals, Sequences, FiniteSets

Wild == "*"
NoGrant == <<>>

IsWild(grant) == grant # <<>> /\ grant[Len(grant)] = Wild

\* Slip: a namespace grant covers only names one level below it.
CoversOneLevel(grant, name) ==
    /\ IsWild(grant)
    /\ Len(name) = Len(grant)
    /\ SubSeq(name, 1, Len(grant) - 1) = SubSeq(grant, 1, Len(grant) - 1)

\* "*" covers everything; "a.b.*" covers what is below "a.b", not "a.b" itself.
Covers(grant, name) ==
    /\ IsWild(grant)
    /\ Len(name) >= Len(grant)
    /\ SubSeq(name, 1, Len(grant) - 1) = SubSeq(grant, 1, Len(grant) - 1)

\* _matching_grant: the exact name, or else the first of the grants in sorted
\* order that covers it: the wildcard sorts before every letter, so of two
\* grants that cover a name the shorter one is found.
MatchingGrant(name, grants) ==
    LET covering == {g \in grants : Covers(g, name)}
    IN IF name \in grants THEN name
       ELSE IF covering = {} THEN NoGrant
       ELSE CHOOSE g \in covering : \A h \in covering : Len(g) <= Len(h)

Satisfies(name, grants) == MatchingGrant(name, grants) # NoGrant

\* A requirement with a wildcard anywhere in it cannot be decided.
HasWildcard(name) == \E k \in DOMAIN name : name[k] = Wild

\* check_capabilities; "raises" is its FormatError, and the rest is what it returns
\* where it does not raise.
CheckCapabilities(requires, optional, grants) ==
    LET missing(names) == {n \in names : ~Satisfies(n, grants)}
        matched == {MatchingGrant(n, grants) : n \in requires \cup optional}
    IN [raises |-> \E n \in requires \cup optional : HasWildcard(n),
        ok |-> missing(requires) = {},
        missingRequired |-> missing(requires),
        missingOptional |-> missing(optional),
        unused |-> grants \ matched]
=============================================================================
