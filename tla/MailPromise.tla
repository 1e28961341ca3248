---------------------------- MODULE MailPromise ----------------------------
(***************************************************************************)
(* What the mail store promises about one message, whatever the order in   *)
(* which deliveries, the hold-queue sweep, purges and crashes interleave.  *)
(*                                                                         *)
(*   absent    no reader can see it; its delivery may still commit         *)
(*   held      catalogued, k_msg wrapped under k_hold, no device envelope  *)
(*   readable  catalogued with at least one device envelope                *)
(*   stranded  catalogued, its hold expired before any device came         *)
(*   gone      purged by its owner, or its delivery was rolled back        *)
(***************************************************************************)
CONSTANT Messages   \* message ids (UUIDv7, never drawn twice)

VARIABLE fate       \* fate[m], the life-cycle stage of message m

Fates == {"absent", "held", "readable", "stranded", "gone"}

\* The stage changes a message may go through. "gone" is final and nothing
\* leads back to "absent" or "held": no message is resurrected, and a message
\* that reached a device never returns to the hold queue.
MayBecome ==
    [absent   |-> {"absent", "held", "readable", "gone"},
     held     |-> {"held", "readable", "stranded", "gone"},
     readable |-> {"readable", "gone"},
     stranded |-> {"stranded", "gone"},
     gone     |-> {"gone"}]

PInit == fate = [m \in Messages |-> "absent"]

\* One step of the store may move several messages (a sweep that purges every
\* expired hold, a crash that drops every open delivery), each along MayBecome.
PNext ==
    /\ fate' \in [Messages -> Fates]
    /\ \A m \in Messages : fate'[m] \in MayBecome[fate[m]]

PSpec == PInit /\ [][PNext]_fate
=============================================================================
