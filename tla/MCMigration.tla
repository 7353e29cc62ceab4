----------------------------- MODULE MCMigration -----------------------------
(* Instances of Migration for TLC. *)
EXTENDS Migration

Kind(role, pinned, size, text, tags) ==
    [role |-> role, pinned |-> pinned, size |-> size, text |-> text, tags |-> tags]

\* The pinned message is a user's quotation of a message that was once remapped.
Talk == {Kind("system", FALSE, 1, "words", <<>>),
         Kind("user", TRUE, 1, "words", <<"tool">>),
         Kind("tool", FALSE, 2, "words", <<>>),
         Kind("assistant", FALSE, 1, "empty", <<>>)}

WithTools == [supported |-> {"system", "user", "assistant", "tool"}, fallback |-> "user"]
ChatOnly == [supported |-> {"system", "user", "assistant"}, fallback |-> "user"]
NoSystem == [supported |-> {"assistant"}, fallback |-> "user"]
OneVoice == [supported |-> {"assistant"}, fallback |-> "assistant"]

Read == <<"fs", "read">>
Text == <<"fs", "read", "text">>
Reading == <<"fs", "read", "*">>
Files == <<"fs", "*">>
Web == <<"web", "search">>

Target(adapter, provider, roles, budget, granted) ==
    [adapter |-> adapter, provider |-> provider, roles |-> roles,
     budget |-> budget, granted |-> granted, params |-> FALSE]

Destinations ==
    {Target("native", "p", ChatOnly, NoBudget, {Files}),
     Target("native", "q", ChatOnly, 5, {}),
     Target("graph", "p", WithTools, 3, {Read, Files, Web}),
     Target("graph", "q", NoSystem, 4, {Reading, Files}),
     Target("graph", "", OneVoice, 4, {Read, Web})}

Grants == {{}, {Files}}
Home == {[adapter |-> "native", provider |-> "p"]}
Need == {[requires |-> {Text}, optional |-> {Web}],
         [requires |-> {Text}, optional |-> {Files}]}
=============================================================================
