-------------------------- MODULE MCSmtpReception --------------------------
(* An instance of SmtpReception for TLC. *)
EXTENDS SmtpReception

CONSTANTS hugo, ghost, p1

\* A mailbox, an address nobody has, and anything else is not an address.
Directory == [a \in Addrs |-> CASE a = hugo -> p1 [] a = ghost -> Unknown [] OTHER -> Invalid]
=============================================================================
