----------------------------- MODULE StateSync -----------------------------
(***************************************************************************)
(* The two state endpoints of diamy-maild, /state/flags and /state/delete, *)
(* with their idempotency keys and the change journal of diamy-mail-storage.*)
(*                                                                         *)
(* An attempt is one run of a handler for one HTTP request.  It looks its  *)
(* key up (already_applied), applies the change and its journal entry in   *)
(* one transaction that holds the row of the message (apply_state_flags,   *)
(* purge_message), and records the answer under the key in a statement of  *)
(* its own (record_idempotency).  Clients may send a request again, while  *)
(* the first attempt runs or after it ended.                               *)
(*                                                                         *)
(* A journal entry is numbered when it is inserted and visible when its    *)
(* transaction commits; a number a transaction takes is not given back.    *)
(***************************************************************************)
EXTENDS Integers, FiniteSets

CONSTANTS
    Msgs,           \* messages of one mailbox
    Keys,           \* idempotency keys, a client makes one per request
    Attempts,       \* handlers that can run at a time
    Bodies,         \* requests clients make
    Nil,            \* no request, no attempt
    MaxSends,       \* bound on attempts
    MaxFaults       \* bound on database errors and restarts of maild

Fields == {"read", "deleted"}
Patches == UNION {[F -> BOOLEAN] : F \in SUBSET Fields}

ASSUME BodiesAssumption ==
    Bodies \subseteq [op : {"flags", "delete"}, msg : Msgs, patch : Patches]
ASSUME NilAssumption ==
    Nil \notin Attempts /\ Nil \notin Bodies /\ Nil \notin Keys
ASSUME BoundsAssumption == MaxSends \in Nat /\ MaxFaults \in Nat

VARIABLES
    rows,       \* messages in mail.messages
    flags,      \* state_flags of each message
    lock,       \* attempt that holds the row of each message
    journal,    \* committed entries of mail.journal
    nextSeq,    \* next value of the identity column seq
    idem,       \* seq recorded under each key in mail.idempotency_keys, 0 for none
    h,          \* the attempts
    body,       \* request a client makes under each key
    answered,   \* history: <<key, seq>> answered with 200
    overlapped, \* history: keys two attempts had at the same time
    sends,      \* attempts so far
    faults      \* faults so far

store == <<rows, flags, journal, idem>>
vars == <<rows, flags, lock, journal, nextSeq, idem, h, body, answered, overlapped,
          sends, faults>>

Idle == [pc |-> "idle", key |-> Nil, seq |-> 0]

Entries == [seq : Nat \ {0}, key : Keys, op : {"flags", "delete"}, msg : Msgs, patch : Patches]

Target(a) == body[h[a].key].msg

----------------------------------------------------------------------------
(* A request arrives *)

\* A client makes a request, or makes it again under the same key.
Send(a, k, b) ==
    /\ h[a].pc = "idle" /\ sends < MaxSends
    /\ body[k] \in {Nil, b}
    /\ h' = [h EXCEPT ![a] = [pc |-> "check", key |-> k, seq |-> 0]]
    /\ body' = [body EXCEPT ![k] = b]
    /\ overlapped' = IF \E other \in Attempts : h[other].key = k
                     THEN overlapped \cup {k} ELSE overlapped
    /\ sends' = sends + 1
    /\ UNCHANGED <<store, lock, nextSeq, answered, faults>>

\* The attempt ends; what it wrote stays.
End(a) == h' = [h EXCEPT ![a] = Idle]

\* The key is known: the recorded answer is given again, nothing is applied.
Replay(a) ==
    /\ h[a].pc = "check" /\ idem[h[a].key] # 0
    /\ answered' = answered \cup {<<h[a].key, idem[h[a].key]>>}
    /\ End(a)
    /\ UNCHANGED <<store, lock, nextSeq, body, overlapped, sends, faults>>

\* The key is unknown.
FirstTime(a) ==
    /\ h[a].pc = "check" /\ idem[h[a].key] = 0
    /\ h' = [h EXCEPT ![a].pc = "apply"]
    /\ UNCHANGED <<store, lock, nextSeq, body, answered, overlapped, sends, faults>>

----------------------------------------------------------------------------
(* The transaction *)

\* Mutant: the row is read without FOR UPDATE.
MayLockAnyway(m) == TRUE

\* SELECT ... FOR UPDATE waits for the transaction that holds the row.
MayLock(m) == lock[m] = Nil

Lock(a) ==
    /\ h[a].pc = "apply"
    /\ MayLock(Target(a)) /\ Target(a) \in rows
    /\ lock' = [lock EXCEPT ![Target(a)] = a]
    /\ h' = [h EXCEPT ![a].pc = "locked"]
    /\ UNCHANGED <<store, nextSeq, body, answered, overlapped, sends, faults>>

\* The row is gone: MessageNotFound, 404.
NotFound(a) ==
    /\ h[a].pc = "apply"
    /\ MayLock(Target(a)) /\ Target(a) \notin rows
    /\ End(a)
    /\ UNCHANGED <<store, lock, nextSeq, body, answered, overlapped, sends, faults>>

\* UPDATE or DELETE, then INSERT INTO mail.journal: seen by nobody else yet.
JournalAppend(a) ==
    /\ h[a].pc = "locked"
    /\ h' = [h EXCEPT ![a] = [pc |-> "journaled", key |-> h[a].key, seq |-> nextSeq]]
    /\ nextSeq' = nextSeq + 1
    /\ UNCHANGED <<store, lock, body, answered, overlapped, sends, faults>>

\* Mutant: the whole state is replaced by the fields of the request.
PatchedWhole(state, patch) ==
    [f \in Fields |-> IF f \in DOMAIN patch THEN patch[f] ELSE FALSE]

\* state_flags || patch: only the fields of the request change.
Patched(state, patch) ==
    [f \in Fields |-> IF f \in DOMAIN patch THEN patch[f] ELSE state[f]]

\* Mutant: the purge keeps the row.
RemainingAll(b) == rows

\* The rows that remain once the request b is applied.
Remaining(b) == IF b.op = "delete" THEN rows \ {b.msg} ELSE rows

\* Mutant: the sequence is numbered from zero.
EntryFromZero(a) == LET b == body[h[a].key]
                    IN  [seq |-> h[a].seq - 1, key |-> h[a].key, op |-> b.op,
                         msg |-> b.msg, patch |-> b.patch]

\* Mutant: the sequence is the last one anybody took.
EntryLastTaken(a) == LET b == body[h[a].key]
                     IN  [seq |-> nextSeq - 1, key |-> h[a].key, op |-> b.op,
                          msg |-> b.msg, patch |-> b.patch]

Entry(a) == LET b == body[h[a].key]
            IN  [seq |-> h[a].seq, key |-> h[a].key, op |-> b.op,
                 msg |-> b.msg, patch |-> b.patch]

Commit(a) ==
    LET b == body[h[a].key]
    IN  /\ h[a].pc = "journaled"
        /\ rows' = Remaining(b)
        /\ flags' = [flags EXCEPT ![b.msg] = Patched(@, b.patch)]
        /\ journal' = journal \cup {Entry(a)}
        /\ lock' = [lock EXCEPT ![b.msg] = Nil]
        /\ h' = [h EXCEPT ![a].pc = "record"]
        /\ UNCHANGED <<nextSeq, idem, body, answered, overlapped, sends, faults>>

----------------------------------------------------------------------------
(* The answer *)

\* Mutant: only the key of a delete is recorded.
RecordedDeletes(k, s) == IF body[k].op = "delete" THEN s ELSE idem[k]

\* INSERT ... ON CONFLICT DO NOTHING.
Recorded(k, s) == IF idem[k] = 0 THEN s ELSE idem[k]

\* The attempt answers with its own sequence, whoever recorded the key first.
RecordIdempotency(a) ==
    /\ h[a].pc = "record"
    /\ idem' = [idem EXCEPT ![h[a].key] = Recorded(h[a].key, h[a].seq)]
    /\ answered' = answered \cup {<<h[a].key, h[a].seq>>}
    /\ End(a)
    /\ UNCHANGED <<rows, flags, journal, lock, nextSeq, body, overlapped, sends, faults>>

----------------------------------------------------------------------------
(* Faults *)

\* Mutant: a transaction that fails is left open.
UnlockedNever(gone) == lock

\* Locks after the transaction of the attempts in gone is rolled back.
Unlocked(gone) == [m \in Msgs |-> IF lock[m] \in gone THEN Nil ELSE lock[m]]

\* A statement fails: 500 outside the transaction, 404 and a rollback inside.  A
\* COMMIT that took effect while its answer was lost is Commit, then this action.
StatementFails(a) ==
    /\ h[a].pc # "idle" /\ faults < MaxFaults
    /\ End(a)
    /\ lock' = Unlocked({a})
    /\ faults' = faults + 1
    /\ UNCHANGED <<store, nextSeq, body, answered, overlapped, sends>>

\* maild restarts: its open transactions are rolled back.
Crash ==
    /\ faults < MaxFaults
    /\ \E a \in Attempts : h[a].pc # "idle"
    /\ h' = [a \in Attempts |-> Idle]
    /\ lock' = Unlocked(Attempts)
    /\ faults' = faults + 1
    /\ UNCHANGED <<store, nextSeq, body, answered, overlapped, sends>>

----------------------------------------------------------------------------
Init ==
    /\ rows = Msgs
    /\ flags = [m \in Msgs |-> [f \in Fields |-> FALSE]]
    /\ lock = [m \in Msgs |-> Nil]
    /\ journal = {} /\ nextSeq = 1
    /\ idem = [k \in Keys |-> 0]
    /\ h = [a \in Attempts |-> Idle]
    /\ body = [k \in Keys |-> Nil]
    /\ answered = {} /\ overlapped = {}
    /\ sends = 0 /\ faults = 0

Handler(a) ==
    \/ Replay(a) \/ FirstTime(a)
    \/ Lock(a) \/ NotFound(a) \/ JournalAppend(a) \/ Commit(a)
    \/ RecordIdempotency(a)

Next ==
    \/ \E a \in Attempts :
          \/ \E k \in Keys, b \in Bodies : Send(a, k, b)
          \/ Handler(a)
          \/ StatementFails(a)
    \/ Crash

Spec == Init /\ [][Next]_vars

\* The runtime polls every handler; neither clients nor faults are fair.
Fairness == \A a \in Attempts : WF_vars(Handler(a))
FairSpec == Spec /\ Fairness

----------------------------------------------------------------------------
(* Properties *)

\* Every variable keeps its type.
TypeOK ==
    /\ rows \subseteq Msgs
    /\ flags \in [Msgs -> [Fields -> BOOLEAN]]
    /\ lock \in [Msgs -> Attempts \cup {Nil}]
    /\ journal \subseteq Entries
    /\ nextSeq \in Nat \ {0}
    /\ idem \in [Keys -> Nat]
    /\ h \in [Attempts -> [pc : {"idle", "check", "apply", "locked", "journaled", "record"},
                           key : Keys \cup {Nil}, seq : Nat]]
    /\ \A a \in Attempts : h[a].pc # "idle" => h[a].key \in Keys /\ body[h[a].key] # Nil
    /\ body \in [Keys -> Bodies \cup {Nil}]
    /\ answered \subseteq Keys \X (Nat \ {0})
    /\ overlapped \subseteq Keys
    /\ sends \in 0 .. MaxSends /\ faults \in 0 .. MaxFaults

\* Entries that set field f of message m.
Writes(m, f) == {e \in journal : e.msg = m /\ f \in DOMAIN e.patch}

\* The journal is the authority for the flags: each field of a message has
\* the value of the entry with the highest sequence that sets it, whatever
\* the order in which attempts on it ran, failed or were repeated.
FieldsAreLastWriter ==
    \A m \in rows, f \in Fields :
        IF Writes(m, f) = {}
        THEN flags[m][f] = FALSE
        ELSE \E e \in Writes(m, f) :
                /\ flags[m][f] = e.patch[f]
                /\ \A d \in Writes(m, f) : d.seq <= e.seq

\* A message is gone exactly when the journal says so, it says so once, and
\* it says nothing of the message after that.
PurgeIsLastEntry ==
    \A m \in Msgs :
        /\ m \notin rows <=> \E e \in journal : e.msg = m /\ e.op = "delete"
        /\ \A e, d \in journal :
              e.msg = m /\ d.msg = m /\ e.op = "delete" /\ d # e => d.seq < e.seq

\* What a client was told happened: the sequence it got is that of one entry,
\* for its own request.  So is the sequence recorded under a key.
AnswersAreJournaled ==
    /\ \A p \in answered : \E e \in journal : e.key = p[1] /\ e.seq = p[2]
    /\ \A k \in Keys : idem[k] # 0 => \E e \in journal : e.seq = idem[k] /\ e.key = k
    /\ \A e, d \in journal : e.seq = d.seq => e = d

\* Entries of one message become visible in the order of their sequences:
\* who has read a message's entries up to one has missed none. Entries of two
\* messages need not be in order: nothing is locked between JournalAppend and
\* the other's Commit.
MessageEntriesInOrder ==
    [][\A e \in journal' \ journal, d \in journal : d.msg = e.msg => d.seq < e.seq]_vars

\* A change is applied once, however often it is sent, as long as no statement
\* failed, maild did not restart, and no two attempts of it overlapped.
AppliedOnceWithoutFault ==
    faults = 0 => \A e, d \in journal : e.key = d.key /\ e.key \notin overlapped => e = d

\* An attempt ends: no attempt waits for ever for the row of a message.
AttemptsEnd == \A a \in Attempts : h[a].pc = "check" ~> h[a].pc = "idle"
=============================================================================
