--------------------------- MODULE SubmitPromise ---------------------------
(***************************************************************************)
(* What the submission path owes a mail client: each DATA it sends is an   *)
(* attempt, which ends with one answer, and leaves at most one copy per    *)
(* recipient it names.  Success is told only of a message somebody has.    *)
(* Once success or refusal is told nothing more is delivered; an error may *)
(* be told of a message somebody has only if a fault put it in doubt.      *)
(***************************************************************************)
EXTENDS Integers

CONSTANTS Attempts, Entries

VARIABLES
    copies,     \* copies of each attempt for each recipient it names
    told,       \* answer of each attempt
    doubt       \* attempts a fault put in doubt

vars == <<copies, told, doubt>>

Codes == {"none", "250", "451", "550", "552"}
Final == {"250", "550", "552"}

Nobody(count) == \A n \in Entries : count[n] = 0

Init ==
    /\ copies = [t \in Attempts |-> [n \in Entries |-> 0]]
    /\ told = [t \in Attempts |-> "none"]
    /\ doubt = {}

\* At most one copy more, no second one.
Progress(old, new) ==
    \/ new = old
    \/ \E n \in Entries : old[n] = 0 /\ new = [old EXCEPT ![n] = 1]

\* One attempt advances: a copy, a fault, an answer, or several of them.
Advance(t) ==
    \E count \in [Entries -> 0 .. 1], code \in Codes, faulted \in {{}, {t}} :
        /\ told[t] \in Final => count = copies[t]
        /\ Progress(copies[t], count)
        /\ told[t] # "none" => code = told[t]
        /\ code = "250" => ~Nobody(count)
        /\ told[t] = "none" /\ code \notin {"none", "250"} =>
               Nobody(count) \/ t \in doubt \cup faulted
        /\ copies' = [copies EXCEPT ![t] = count]
        /\ told' = [told EXCEPT ![t] = code]
        /\ doubt' = doubt \cup faulted

Next == \E t \in Attempts : Advance(t)

Spec == Init /\ [][Next]_vars
=============================================================================
