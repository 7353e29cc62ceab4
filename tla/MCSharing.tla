------------------------------ MODULE MCSharing ------------------------------
(* Instances of Sharing for TLC. *)
EXTENDS Sharing, TLC

Token == Key("github-token", 1)
Access == Key("aws-access-key-id", 2)
Other == Key("aws-access-key-id", 3)
Word == Plain("word", 1)
Letters == Plain("letters", 1)
Name == Plain("name", 1)
Login == Plain("login", 1)
At == Plain("at", 1)
Dashes == Plain("dashes", 1)
Body == Plain("body", 1)

\* Two notes that differ in the password of their URL and begin with a key that
\* runs on; one with two private keys, the second right behind a token that is
\* assigned.
Notes == { <<Access, Letters, Word, Login, Access, At>>,
           <<Access, Letters, Word, Login, Other, At>>,
           <<Token, Word, Dashes, Body, Name, Token, Dashes, Body>> }
Values == { <<Name, Token>> }

Blank ==
    [memory |-> <<>>, context |-> <<>>, params |-> <<>>, cursor |-> <<>>,
     runtime_opaque |-> <<>>, opaque |-> <<>>, artifacts |-> <<>>,
     requires |-> {"filesystem.read"}, optional |-> {"network"},
     events |-> <<"created">>]

Default == [aggressive |-> FALSE, drop |-> {}, strip |-> FALSE]
Thorough == [aggressive |-> TRUE, drop |-> {"working"}, strip |-> TRUE]

BothWays == {Default, Thorough}
Fresh == {Blank}
Same == Permutations(Contents)
=============================================================================
