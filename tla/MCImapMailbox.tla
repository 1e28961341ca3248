---------------------------- MODULE MCImapMailbox ----------------------------
(* Instances of ImapMailbox for TLC. *)
EXTENDS ImapMailbox, TLC

\* Every list maild can answer with.
Listings == UNION {{ids \in [1 .. n -> Messages] : IsInjective(ids)} : n \in 0 .. Window}

\* Message ids and connections are interchangeable.
Interchangeable == Permutations(Messages) \cup Permutations(Sessions)
=============================================================================
