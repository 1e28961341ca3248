---------------------------- MODULE MCUidRegistry ----------------------------
(* Instances of UidRegistry for TLC. *)
EXTENDS UidRegistry, TLC

CONSTANT MaxListed      \* bound on the length of a catalogue

Listings ==
    {ids \in UNION {[1 .. n -> Messages] : n \in 0 .. MaxListed} :
        \A i, j \in DOMAIN ids : ids[i] = ids[j] => i = j}

\* Message ids are interchangeable: no definition singles one out.
Interchangeable == Permutations(Messages)
=============================================================================
