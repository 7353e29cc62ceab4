---------------------------- MODULE MCTranscript ----------------------------
(* Instances of Transcript for TLC. *)
EXTENDS Transcript

Kind(role, pinned, size, text) ==
    [role |-> role, pinned |-> pinned, size |-> size, text |-> text]

Talk == {Kind("system", FALSE, 1, "words"), Kind("user", TRUE, 2, "words"),
         Kind("user", FALSE, 1, "words"), Kind("tool", FALSE, 2, "words"),
         Kind("assistant", FALSE, 3, "words"), Kind("assistant", FALSE, 1, "empty"),
         Kind("user", FALSE, 1, "blank")}
=============================================================================
