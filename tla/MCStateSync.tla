---------------------------- MODULE MCStateSync ----------------------------
(* Instances of StateSync for TLC. *)
EXTENDS StateSync, TLC

CONSTANTS m1, m2

Flags(m, field, value) == [op |-> "flags", msg |-> m, patch |-> field :> value]
Delete(m) == [op |-> "delete", msg |-> m, patch |-> << >>]

\* The two fields of a message set and cleared, its purge, another message.
MCBodies == {Flags(m1, "read", TRUE), Flags(m1, "read", FALSE),
             Flags(m1, "deleted", TRUE), Delete(m1), Flags(m2, "read", TRUE)}
============================================================================
