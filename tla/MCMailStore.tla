----------------------------- MODULE MCMailStore -----------------------------
(* Instances of MailStore for TLC. *)
EXTENDS MailStore, TLC

CONSTANTS p1, p2, d1, d2

OneOwner == [d \in Devices |-> p1]
TwoOwners == [d \in Devices |-> IF d = d1 THEN p1 ELSE p2]

\* Message ids and sessions are interchangeable: no definition singles one out.
Interchangeable == Permutations(Messages) \cup Permutations(Sessions)
=============================================================================
