---------------------------- MODULE MCSubmission ----------------------------
(* An instance of Submission for TLC. *)
EXTENDS Submission

CONSTANTS hugo, ghost, quoted, abroad, home, away

\* A mailbox, a name nobody has, a local part with an "@" in quotes, and an
\* address of another domain.
LastPart == [a \in Addrs |-> IF a = abroad THEN away ELSE home]
FirstPart == [a \in Addrs |-> IF a \in {quoted, abroad} THEN away ELSE home]
=============================================================================
