---------------------------- MODULE UidRegistry ----------------------------
(***************************************************************************)
(* The registry of IMAP UIDs of diamy-bridged for one mailbox: the map     *)
(* from message ids to UIDs that every IMAP connection of the process      *)
(* shares (UidRegistry::resolve, under a mutex), written through to a JSON *)
(* file and read back after a restart (persist, load_or_fresh).            *)
(*                                                                         *)
(* A state is a record: its UIDVALIDITY, the next UID, and the UID of each *)
(* message, 0 for a message it does not know. A file that is absent, torn  *)
(* or unreadable loads as a fresh state, so all of these are NoState; so   *)
(* is the cache of a process that has not loaded the file yet.             *)
(***************************************************************************)
EXTENDS Naturals, Sequences, FiniteSets

CONSTANTS
    Messages,       \* message ids of the mailbox
    Catalogues,     \* lists of message ids maild can answer with, oldest first
    MaxUid,         \* u32::MAX, where uid_next saturates
    RestartTime,    \* seconds a restart of the bridge takes at least
    MaxClock,       \* bound on the clock, in seconds
    MaxFaults       \* bound on I/O errors, damaged files and torn writes

ASSUME CataloguesAssumption ==
    \A ids \in Catalogues :
        /\ ids \in Seq(Messages)
        /\ \A i, j \in 1 .. Len(ids) : ids[i] = ids[j] => i = j
ASSUME MessagesAssumption == IsFiniteSet(Messages)
ASSUME NumbersAssumption ==
    /\ MaxUid \in Nat \ {0} /\ RestartTime \in Nat \ {0}
    /\ MaxClock \in Nat /\ MaxFaults \in Nat

VARIABLES
    cache,      \* state held by the process, NoState before the first use
    disk,       \* state in the file, NoState when no state can be read
    clock,      \* wall clock, in seconds
    faults,     \* errors so far
    served,     \* history: <<validity, uid, message>> told to clients
    unsaved     \* history: those whose write failed and left an older file

vars == <<cache, disk, clock, faults, served, unsaved>>

States == [validity : Nat, next : 1 .. MaxUid, uid : [Messages -> 0 .. MaxUid]]
Pairs == [validity : Nat, uid : 1 .. MaxUid, msg : Messages]

NoState == [validity |-> 0, next |-> 1, uid |-> [m \in Messages |-> 0]]

----------------------------------------------------------------------------
(* Loading *)

\* Mutant: UIDs at or above the counter are let through.
IsCoherentUnbounded(st) ==
    /\ st.validity # 0
    /\ \A m, n \in Messages : st.uid[m] = st.uid[n] /\ st.uid[m] # 0 => m = n

\* Every UID is below the counter and belongs to one message.
IsCoherent(st) ==
    /\ st.validity # 0
    /\ \A m \in Messages : st.uid[m] < st.next
    /\ \A m, n \in Messages : st.uid[m] = st.uid[n] /\ st.uid[m] # 0 => m = n

\* A fresh state takes its UIDVALIDITY from the clock.
Fresh == [NoState EXCEPT !.validity = IF clock = 0 THEN 1 ELSE clock]

\* Mutant: a restarted bridge starts over.
LoadNothing == Fresh

LoadOrFresh == IF IsCoherent(disk) THEN disk ELSE Fresh

----------------------------------------------------------------------------
(* Assigning UIDs *)

New(st, ids) == {m \in Messages : st.uid[m] = 0 /\ \E i \in 1 .. Len(ids) : ids[i] = m}

Before(ids, m, n) == \E i, j \in 1 .. Len(ids) : i < j /\ ids[i] = m /\ ids[j] = n

\* Mutant: addition wraps nowhere and saturates nowhere.
SaturatingAddUnbounded(u, k) == u + k

SaturatingAdd(u, k) == IF u + k > MaxUid THEN MaxUid ELSE u + k

\* Mutant: UIDs are positions in the catalogue.
AssignByPosition(st, ids) ==
    [st EXCEPT !.next = SaturatingAdd(1, Len(ids)),
               !.uid = [m \in Messages |->
                          IF \E i \in 1 .. Len(ids) : ids[i] = m
                          THEN SaturatingAdd(1, Cardinality({n \in Messages : Before(ids, n, m)}))
                          ELSE 0]]

\* Unknown messages get the next UIDs, the oldest one first; known messages
\* keep theirs, also those that left the catalogue.
Assign(st, ids) ==
    [st EXCEPT !.next = SaturatingAdd(@, Cardinality(New(st, ids))),
               !.uid = [m \in Messages |->
                          IF m \in New(st, ids)
                          THEN SaturatingAdd(st.next,
                                 Cardinality({n \in New(st, ids) : Before(ids, n, m)}))
                          ELSE st.uid[m]]]

\* What the client that listed ids is told from state st.
Told(st, ids) ==
    {[validity |-> st.validity, uid |-> st.uid[m], msg |-> m] :
        m \in {n \in Messages : \E i \in 1 .. Len(ids) : ids[i] = n}}

\* The pairs of state st among ps.
Within(st, ps) == {p \in ps : p.validity = st.validity /\ st.uid[p.msg] = p.uid}

----------------------------------------------------------------------------
(* Actions *)

Fault == faults < MaxFaults /\ faults' = faults + 1

\* The state a resolve works on: the cache, loaded on first use.
Current == IF cache # NoState THEN cache ELSE LoadOrFresh

Serve(st, ids) ==
    /\ cache' = Assign(st, ids)
    /\ served' = served \cup Told(Assign(st, ids), ids)
    /\ UNCHANGED clock

\* The file is written when, and only when, UIDs were assigned.
Save(st, ids) ==
    IF New(st, ids) = {}
    THEN UNCHANGED <<disk, unsaved>>
    ELSE /\ disk' = Assign(st, ids)
         /\ unsaved' = unsaved \ Within(Assign(st, ids), unsaved)

Resolve(ids) ==
    /\ Serve(Current, ids)
    /\ Save(Current, ids)
    /\ UNCHANGED faults

\* create_dir_all or the opening of the file fails: the old file stays.
ResolveUnsaved(ids) ==
    /\ New(Current, ids) # {}
    /\ Fault
    /\ Serve(Current, ids)
    /\ unsaved' = unsaved \cup {p \in Told(Assign(Current, ids), ids) :
                                  p.msg \in New(Current, ids)}
    /\ UNCHANGED disk

\* The file was truncated and its contents could not be written.
ResolveTorn(ids) ==
    /\ New(Current, ids) # {}
    /\ Fault
    /\ Serve(Current, ids)
    /\ disk' = NoState
    /\ UNCHANGED unsaved

\* The file cannot be read at this moment: a fresh state replaces it.
ResolveUnread(ids) ==
    /\ cache = NoState
    /\ Fault
    /\ Serve(Fresh, ids)
    /\ Save(Fresh, ids)

\* The process ends and another one starts.
Restart ==
    /\ clock + RestartTime <= MaxClock
    /\ clock' = clock + RestartTime
    /\ cache' = NoState
    /\ UNCHANGED <<disk, faults, served, unsaved>>

\* The process ends inside persist, between truncation and writing.
CrashInPersist(ids) ==
    /\ New(Current, ids) # {}
    /\ Fault
    /\ clock + RestartTime <= MaxClock
    /\ clock' = clock + RestartTime
    /\ cache' = NoState
    /\ disk' = NoState
    /\ UNCHANGED <<served, unsaved>>

\* The file is lost, or altered into one that is not coherent.
FileDamaged ==
    /\ disk # NoState
    /\ Fault
    /\ \/ disk' = NoState
       \/ \E m \in Messages :
            /\ disk.uid[m] # 0
            /\ disk' = [disk EXCEPT !.next = disk.uid[m]]
    /\ UNCHANGED <<cache, clock, served, unsaved>>

Tick ==
    /\ clock < MaxClock
    /\ clock' = clock + 1
    /\ UNCHANGED <<cache, disk, faults, served, unsaved>>

----------------------------------------------------------------------------

Init ==
    /\ cache = NoState /\ disk = NoState
    /\ clock = 1
    /\ faults = 0
    /\ served = {} /\ unsaved = {}

Next ==
    \/ \E ids \in Catalogues : \/ Resolve(ids) \/ ResolveUnsaved(ids)
                               \/ ResolveTorn(ids) \/ ResolveUnread(ids)
                               \/ CrashInPersist(ids)
    \/ Restart \/ FileDamaged \/ Tick

Spec == Init /\ [][Next]_vars

----------------------------------------------------------------------------
(* Properties *)

\* Every variable keeps its type; in particular uid_next saturates and no
\* client is told a UID beyond a 32-bit number (resolve).
TypeOK ==
    /\ cache \in States /\ disk \in States
    /\ clock \in Nat /\ faults \in 0 .. MaxFaults
    /\ served \subseteq Pairs /\ unsaved \subseteq Pairs

\* Under one UIDVALIDITY a UID names one message for ever, across errors,
\* torn files and restarts, except past the last UID and for a UID whose
\* write failed and left an older file (resolve, persist, load_or_fresh).
UidNamesOneMessage ==
    \A p, q \in served \ unsaved :
        p.validity = q.validity /\ p.uid = q.uid /\ p.uid # MaxUid => p.msg = q.msg

\* Under one UIDVALIDITY a message keeps its UID, under the same exception
\* (resolve never recomputes a UID it has stored).
MessageKeepsUid ==
    \A p, q \in served \ unsaved :
        p.validity = q.validity /\ p.msg = q.msg => p.uid = q.uid

\* Clients drop the messages they cached only when something went wrong: without an
\* I/O error or a damaged file all messages are told under one UIDVALIDITY,
\* restarts included (load_or_fresh). Past the last UID the file no longer loads.
\* The UIDVALIDITY of a mailbox that is still empty is in no file and not in served.
ValidityIsStable ==
    (faults = 0 /\ \A p \in served : p.uid # MaxUid) =>
        \A p, q \in served : p.validity = q.validity

\* What resolve, persist and the registry promise without exception: a UID
\* is never given to another message under the same UIDVALIDITY.
UidNeverReassigned ==
    \A p, q \in served :
        p.validity = q.validity /\ p.uid = q.uid => p.msg = q.msg
=============================================================================
