-------------------------- MODULE StateSync_proofs --------------------------
(***************************************************************************)
(* Proofs about StateSync, for every number of messages, keys, attempts    *)
(* and faults: the journal explains the flags and the purges of a mailbox, *)
(* and every answer is in it.                                              *)
(*                                                                         *)
(* The inductive invariant says what the row lock gives to the attempt     *)
(* that holds it (LockInv), and that the sequence it takes under the lock  *)
(* is above those of all the entries of its message (SeqInv).              *)
(***************************************************************************)
EXTENDS StateSync, TLAPS

----------------------------------------------------------------------------
(* The inductive invariant *)

Holds(a) == h[a].pc \in {"locked", "journaled"}

\* A row is locked by the one attempt that changes it, and is there.
LockInv ==
    /\ \A a \in Attempts : Holds(a) => lock[Target(a)] = a /\ Target(a) \in rows
    /\ \A m \in Msgs : lock[m] # Nil => Holds(lock[m]) /\ Target(lock[m]) = m

\* Sequences that were taken, and those of attempts about to commit.
SeqInv ==
    /\ \A e \in journal : e.seq < nextSeq
    /\ \A a \in Attempts :
          h[a].pc \in {"journaled", "record"} => 0 < h[a].seq /\ h[a].seq < nextSeq
    /\ \A a \in Attempts, e \in journal :
          h[a].pc = "journaled" =>
              e.seq # h[a].seq /\ (e.msg = Target(a) => e.seq < h[a].seq)
    /\ \A a, b \in Attempts :
          h[a].pc = "journaled" /\ h[b].pc = "journaled" /\ h[a].seq = h[b].seq => a = b

\* An attempt that is past its commit has its entry.
RecordInv ==
    \A a \in Attempts :
        h[a].pc = "record" =>
            \E e \in journal : e.key = h[a].key /\ e.seq = h[a].seq

IInv ==
    /\ TypeOK
    /\ LockInv
    /\ SeqInv
    /\ RecordInv
    /\ FieldsAreLastWriter
    /\ PurgeIsLastEntry
    /\ AnswersAreJournaled

----------------------------------------------------------------------------
(* Types *)

\* What an attempt that is under way works on.
LEMMA TargetType ==
    ASSUME TypeOK, NEW a \in Attempts, h[a].pc # "idle"
    PROVE  /\ h[a].key \in Keys
           /\ body[h[a].key] \in Bodies
           /\ body[h[a].key].patch \in Patches
           /\ Target(a) \in Msgs
BY BodiesAssumption DEF TypeOK, Target

\* A patch sets fields to booleans.
LEMMA PatchedType ==
    ASSUME NEW state \in [Fields -> BOOLEAN], NEW patch \in Patches
    PROVE  Patched(state, patch) \in [Fields -> BOOLEAN]
<1>1. PICK F \in SUBSET Fields : patch \in [F -> BOOLEAN]
  BY DEF Patches
<1>2. \A f \in Fields : f \in DOMAIN patch => patch[f] \in BOOLEAN
  BY <1>1
<1>3. QED
  BY <1>2 DEF Patched

\* Every action keeps the types; the sequences of SeqInv are not 0.
LEMMA TypeStep == TypeOK /\ SeqInv /\ [Next]_vars => TypeOK'
<1> SUFFICES ASSUME TypeOK, SeqInv, [Next]_vars PROVE TypeOK'
  OBVIOUS
<1> USE DEF TypeOK, store
<1>1. ASSUME NEW a \in Attempts, NEW k \in Keys, NEW b \in Bodies, Send(a, k, b)
      PROVE  TypeOK'
  <2>1. b # Nil
    BY NilAssumption
  <2>2. \A x \in Attempts :
          h'[x].pc # "idle" => h'[x].key \in Keys /\ body'[h'[x].key] # Nil
    BY <1>1, <2>1 DEF Send
  <2>3. sends' \in 0 .. MaxSends
    BY <1>1, BoundsAssumption DEF Send
  <2>4. QED
    BY <1>1, <2>2, <2>3 DEF Send
<1>2. ASSUME NEW a \in Attempts, Handler(a)
      PROVE  TypeOK'
  <2>1. CASE Replay(a)
    <3>1. idem[h[a].key] \in Nat \ {0} /\ h[a].key \in Keys
      BY <2>1 DEF Replay
    <3>2. QED
      BY <2>1, <3>1 DEF Replay, End, Idle
  <2>2. CASE FirstTime(a)
    BY <2>2 DEF FirstTime
  <2>8. CASE NotFound(a)
    BY <2>8 DEF NotFound, End, Idle
  <2>3. CASE Lock(a)
    <3>1. h[a].key \in Keys /\ Target(a) \in Msgs
      BY <2>3, TargetType DEF Lock
    <3>2. lock' \in [Msgs -> Attempts \cup {Nil}]
      BY <2>3, <3>1 DEF Lock
    <3>3. QED
      BY <2>3, <3>2 DEF Lock
  <2>4. CASE JournalAppend(a)
    BY <2>4 DEF JournalAppend
  <2>5. CASE RecordIdempotency(a)
    <3>1. h[a].seq \in Nat \ {0} /\ h[a].key \in Keys
      BY <2>5 DEF RecordIdempotency, SeqInv
    <3>2. QED
      BY <2>5, <3>1 DEF RecordIdempotency, Recorded, End, Idle
  <2>6. CASE Commit(a)
    <3> DEFINE b == body[h[a].key]
    <3>1. /\ h[a].key \in Keys /\ h[a].seq \in Nat \ {0}
          /\ b \in [op : {"flags", "delete"}, msg : Msgs, patch : Patches]
      BY <2>6, TargetType, BodiesAssumption DEF Commit, SeqInv
    <3>2. Entry(a) \in Entries
      BY <3>1 DEF Entry, Entries
    <3>3. Patched(flags[b.msg], b.patch) \in [Fields -> BOOLEAN]
      BY <3>1, PatchedType
    <3>4. flags' \in [Msgs -> [Fields -> BOOLEAN]]
      BY <2>6, <3>1, <3>3 DEF Commit
    <3>5. rows' \subseteq Msgs /\ journal' \subseteq Entries
      BY <2>6, <3>2 DEF Commit, Remaining
    <3>6. lock' \in [Msgs -> Attempts \cup {Nil}]
      BY <2>6, <3>1 DEF Commit
    <3>7. /\ h' = [h EXCEPT ![a].pc = "record"]
          /\ UNCHANGED <<nextSeq, idem, body, answered, overlapped, sends, faults>>
      BY <2>6 DEF Commit
    <3> HIDE DEF b
    <3>8. /\ h' \in [Attempts -> [pc : {"idle", "check", "apply", "locked", "journaled", "record"},
                                  key : Keys \cup {Nil}, seq : Nat]]
          /\ \A c \in Attempts : h'[c].pc # "idle" => h'[c].key \in Keys /\ body[h'[c].key] # Nil
      BY <2>6, <3>7 DEF Commit
    <3>9. QED
      BY <3>4, <3>5, <3>6, <3>7, <3>8
  <2>7. QED
    BY <1>2, <2>1, <2>2, <2>3, <2>4, <2>5, <2>6, <2>8 DEF Handler
<1>3. ASSUME NEW a \in Attempts, StatementFails(a)
      PROVE  TypeOK'
  BY <1>3, BoundsAssumption DEF StatementFails, Unlocked, End, Idle
<1>4. CASE Crash
  BY <1>4, BoundsAssumption DEF Crash, Unlocked, Idle
<1>5. CASE UNCHANGED vars
  BY <1>5 DEF vars
<1>6. QED
  BY <1>1, <1>2, <1>3, <1>4, <1>5 DEF Next

----------------------------------------------------------------------------
(* What the row lock gives *)

\* An attempt that ends without a commit gives its lock back.
LEMMA UnlockStep ==
    ASSUME TypeOK, LockInv, NEW gone \in SUBSET Attempts,
           h' = [a \in Attempts |-> IF a \in gone THEN Idle ELSE h[a]],
           lock' = Unlocked(gone), rows' = rows, body' = body
    PROVE  LockInv'
<1>1. ASSUME NEW a \in Attempts, Holds(a)'
      PROVE  (lock[Target(a)] = a /\ Target(a) \in rows)'
  <2>1. a \notin gone /\ h'[a] = h[a] /\ Holds(a)
    BY <1>1 DEF Holds, Idle
  <2>2. Target(a) \in Msgs /\ Target(a)' = Target(a) /\ lock[Target(a)] = a
    BY <2>1, TargetType DEF Holds, LockInv, Target
  <2>3. QED
    BY <2>1, <2>2 DEF LockInv, Unlocked
<1>2. ASSUME NEW m \in Msgs, lock'[m] # Nil
      PROVE  (Holds(lock[m]) /\ Target(lock[m]) = m)'
  <2>1. lock'[m] = lock[m] /\ lock[m] \in Attempts /\ lock[m] \notin gone
    BY <1>2 DEF Unlocked, TypeOK
  <2>2. h'[lock[m]] = h[lock[m]]
    BY <2>1
  <2>3. QED
    BY <2>1, <2>2, <1>2 DEF LockInv, Holds, Target
<1>3. QED
  BY <1>1, <1>2 DEF LockInv

\* Every action keeps the lock discipline.
LEMMA LockStep == TypeOK /\ LockInv /\ [Next]_vars => LockInv'
<1> SUFFICES ASSUME TypeOK, LockInv, [Next]_vars PROVE LockInv'
  OBVIOUS
<1> USE DEF store
\* An attempt that neither takes nor frees a lock.
<1>1. ASSUME NEW a \in Attempts, ~Holds(a), ~Holds(a)',
             \A x \in Attempts \ {a} : h'[x] = h[x],
             UNCHANGED <<rows, lock, body>>
      PROVE  LockInv'
  <2>1. \A x \in Attempts \ {a} : Holds(x)' = Holds(x) /\ Target(x)' = Target(x)
    BY <1>1 DEF Holds, Target
  <2>2. \A m \in Msgs : lock[m] # Nil => lock[m] \in Attempts \ {a}
    BY <1>1 DEF LockInv, TypeOK
  <2>3. \A x \in Attempts : Holds(x)' => lock'[Target(x)'] = x /\ Target(x)' \in rows'
    BY <1>1, <2>1 DEF LockInv
  <2>4. \A m \in Msgs : lock'[m] # Nil => Holds(lock[m])' /\ Target(lock[m])' = m
    BY <1>1, <2>1, <2>2 DEF LockInv
  <2>5. QED
    BY <2>3, <2>4, <1>1 DEF LockInv
<1>2. ASSUME NEW a \in Attempts, NEW k \in Keys, NEW b \in Bodies, Send(a, k, b)
      PROVE  LockInv'
  <2>1. ~Holds(a) /\ ~Holds(a)' /\ UNCHANGED <<rows, lock>>
    BY <1>2 DEF Send, Holds, TypeOK
  <2>2. \A x \in Attempts \ {a} :
           h'[x] = h[x] /\ (Holds(x) => body'[h[x].key] = body[h[x].key])
    BY <1>2 DEF Send, TypeOK, Holds
  <2>3. QED
    BY <2>1, <2>2 DEF LockInv, Holds, Target, TypeOK
<1>3. ASSUME NEW a \in Attempts, Handler(a)
      PROVE  LockInv'
  <2>1. CASE Replay(a)
    <3>1. ~Holds(a) /\ ~Holds(a)'
      BY <2>1 DEF Replay, End, Idle, Holds, TypeOK
    <3>2. (\A x \in Attempts \ {a} : h'[x] = h[x]) /\ UNCHANGED <<rows, lock, body>>
      BY <2>1 DEF Replay, End, TypeOK
    <3>3. QED
      BY <3>1, <3>2, <1>1
  <2>2. CASE FirstTime(a)
    <3>1. ~Holds(a) /\ ~Holds(a)'
      BY <2>2 DEF FirstTime, Holds, TypeOK
    <3>2. (\A x \in Attempts \ {a} : h'[x] = h[x]) /\ UNCHANGED <<rows, lock, body>>
      BY <2>2 DEF FirstTime, TypeOK
    <3>3. QED
      BY <3>1, <3>2, <1>1
  <2>3. CASE NotFound(a)
    <3>1. ~Holds(a) /\ ~Holds(a)'
      BY <2>3 DEF NotFound, End, Idle, Holds, TypeOK
    <3>2. (\A x \in Attempts \ {a} : h'[x] = h[x]) /\ UNCHANGED <<rows, lock, body>>
      BY <2>3 DEF NotFound, End, TypeOK
    <3>3. QED
      BY <3>1, <3>2, <1>1
  <2>4. CASE RecordIdempotency(a)
    <3>1. ~Holds(a) /\ ~Holds(a)'
      BY <2>4 DEF RecordIdempotency, End, Idle, Holds, TypeOK
    <3>2. (\A x \in Attempts \ {a} : h'[x] = h[x]) /\ UNCHANGED <<rows, lock, body>>
      BY <2>4 DEF RecordIdempotency, End, TypeOK
    <3>3. QED
      BY <3>1, <3>2, <1>1
  <2>5. CASE Lock(a)
    <3>1. Target(a) \in Msgs /\ Target(a) \in rows /\ lock[Target(a)] = Nil /\ ~Holds(a)
      BY <2>5, TargetType DEF Lock, MayLock, Holds
    <3>2. /\ Holds(a)' /\ lock'[Target(a)] = a
          /\ \A x \in Attempts : Target(x)' = Target(x)
          /\ \A x \in Attempts \ {a} : h'[x] = h[x]
          /\ \A m \in Msgs \ {Target(a)} : lock'[m] = lock[m]
          /\ rows' = rows
      BY <2>5, <3>1 DEF Lock, Holds, Target, TypeOK
    <3>3. \A x \in Attempts \ {a} : Holds(x) => Target(x) # Target(a)
      BY <3>1, NilAssumption DEF LockInv
    <3>4. \A x \in Attempts : Holds(x) => Target(x) \in Msgs
      BY TargetType DEF Holds
    <3>5. ASSUME NEW x \in Attempts, Holds(x)'
          PROVE  (lock[Target(x)] = x /\ Target(x) \in rows)'
      BY <3>1, <3>2, <3>3, <3>4, <3>5 DEF LockInv, Holds
    <3>6. ASSUME NEW m \in Msgs, lock'[m] # Nil
          PROVE  (Holds(lock[m]) /\ Target(lock[m]) = m)'
      <4>1. CASE m = Target(a)
        BY <4>1, <3>2
      <4>2. CASE m # Target(a)
        <5>1. lock'[m] = lock[m] /\ lock[m] \in Attempts /\ lock[m] # a
          BY <4>2, <3>1, <3>2, <3>6 DEF LockInv, TypeOK
        <5>2. QED
          BY <5>1, <3>2, <3>6 DEF LockInv, Holds
      <4>3. QED
        BY <4>1, <4>2
    <3>7. QED
      BY <3>5, <3>6 DEF LockInv
  <2>6. CASE JournalAppend(a)
    <3>1. /\ h[a].pc = "locked" /\ h'[a].pc = "journaled"
          /\ \A x \in Attempts : h'[x].key = h[x].key
          /\ \A x \in Attempts \ {a} : h'[x] = h[x]
          /\ UNCHANGED <<rows, lock, body>>
      BY <2>6 DEF JournalAppend, TypeOK
    <3>2. \A x \in Attempts : Holds(x)' = Holds(x) /\ Target(x)' = Target(x)
      BY <3>1 DEF Holds, Target
    <3>3. QED
      BY <3>1, <3>2 DEF LockInv, TypeOK
  <2>7. CASE Commit(a)
    <3>1. /\ Holds(a) /\ lock[Target(a)] = a /\ Target(a) \in Msgs
          /\ ~Holds(a)' /\ body' = body
          /\ \A x \in Attempts \ {a} : h'[x] = h[x]
          /\ \A x \in Attempts : Target(x)' = Target(x)
          /\ lock'[Target(a)] = Nil
          /\ \A m \in Msgs \ {Target(a)} : lock'[m] = lock[m]
          /\ rows \ {Target(a)} \subseteq rows'
      BY <2>7, TargetType DEF Commit, Remaining, Holds, Target, LockInv, TypeOK
    <3>2. \A x \in Attempts \ {a} : Holds(x) => Target(x) # Target(a) /\ Target(x) \in Msgs
      BY <3>1, TargetType DEF LockInv, Holds
    <3>3. \A m \in Msgs \ {Target(a)} : lock[m] # a
      BY <3>1, NilAssumption DEF LockInv
    <3>4. \A x \in Attempts \ {a} : Holds(x)' = Holds(x)
      BY <3>1 DEF Holds
    <3>5. ASSUME NEW x \in Attempts, Holds(x)'
          PROVE  (lock[Target(x)] = x /\ Target(x) \in rows)'
      BY <3>1, <3>2, <3>4, <3>5 DEF LockInv
    <3>6. ASSUME NEW m \in Msgs, lock'[m] # Nil
          PROVE  (Holds(lock[m]) /\ Target(lock[m]) = m)'
      <4>1. lock'[m] = lock[m] /\ lock[m] \in Attempts \ {a}
        BY <3>1, <3>3, <3>6 DEF TypeOK
      <4>2. QED
        BY <4>1, <3>1, <3>4, <3>6 DEF LockInv
    <3>7. QED
      BY <3>5, <3>6 DEF LockInv
  <2>8. QED
    BY <1>3, <2>1, <2>2, <2>3, <2>4, <2>5, <2>6, <2>7 DEF Handler
<1>4. ASSUME NEW a \in Attempts, StatementFails(a)
      PROVE  LockInv'
  <2>1. h' = [x \in Attempts |-> IF x \in {a} THEN Idle ELSE h[x]]
    BY <1>4 DEF StatementFails, End, TypeOK
  <2>2. QED
    BY <1>4, <2>1, UnlockStep DEF StatementFails
<1>5. CASE Crash
  <2>1. h' = [x \in Attempts |-> IF x \in Attempts THEN Idle ELSE h[x]]
    BY <1>5 DEF Crash
  <2>2. QED
    BY <1>5, <2>1, UnlockStep DEF Crash
<1>6. CASE UNCHANGED vars
  BY <1>6 DEF vars, LockInv, Holds, Target
<1>7. QED
  BY <1>2, <1>3, <1>4, <1>5, <1>6 DEF Next

----------------------------------------------------------------------------
(* Sequences *)

\* A step that numbers and commits nothing.
LEMMA QuietStep ==
    ASSUME TypeOK, SeqInv, RecordInv, UNCHANGED <<journal, nextSeq>>,
           \A a \in Attempts :
               h'[a].pc \in {"journaled", "record"} =>
                   h'[a] = h[a] /\ Target(a)' = Target(a)
    PROVE  SeqInv' /\ RecordInv'
BY DEF SeqInv, RecordInv

\* Every action keeps the sequences in order.
LEMMA SeqStep ==
    TypeOK /\ LockInv /\ SeqInv /\ RecordInv /\ [Next]_vars => SeqInv' /\ RecordInv'
<1> SUFFICES ASSUME TypeOK, LockInv, SeqInv, RecordInv, [Next]_vars
             PROVE  SeqInv' /\ RecordInv'
  OBVIOUS
<1> USE DEF store
<1>1. ASSUME NEW a \in Attempts, NEW k \in Keys, NEW b \in Bodies, Send(a, k, b)
      PROVE  SeqInv' /\ RecordInv'
  <2>1. \A x \in Attempts \ {a} : h'[x] = h[x]
    BY <1>1 DEF Send, TypeOK
  <2>2. h'[a].pc = "check" /\ UNCHANGED <<journal, nextSeq>>
    BY <1>1 DEF Send, TypeOK
  <2>3. \A x \in Attempts \ {a} :
           h[x].pc # "idle" => body'[h[x].key] = body[h[x].key]
    BY <1>1 DEF Send, TypeOK
  <2>4. QED
    BY <2>1, <2>2, <2>3, QuietStep DEF Target
<1>2. ASSUME NEW a \in Attempts, Handler(a)
      PROVE  SeqInv' /\ RecordInv'
  <2>1. CASE Replay(a) \/ NotFound(a) \/ RecordIdempotency(a)
    <3>1. \A x \in Attempts : h'[x].pc \in {"journaled", "record"} => h'[x] = h[x]
      BY <2>1 DEF Replay, NotFound, RecordIdempotency, End, Idle, TypeOK
    <3>2. UNCHANGED <<journal, nextSeq, body>>
      BY <2>1 DEF Replay, NotFound, RecordIdempotency
    <3>3. QED
      BY <3>1, <3>2, QuietStep DEF Target
  <2>2. CASE FirstTime(a) \/ Lock(a)
    <3>1. \A x \in Attempts \ {a} : h'[x] = h[x]
      BY <2>2 DEF FirstTime, Lock, TypeOK
    <3>2. h'[a].pc \in {"apply", "locked"} /\ UNCHANGED <<journal, nextSeq, body>>
      BY <2>2 DEF FirstTime, Lock, TypeOK
    <3>3. QED
      BY <3>1, <3>2, QuietStep DEF Target
  <2>3. CASE JournalAppend(a)
    <3>1. /\ h'[a] = [pc |-> "journaled", key |-> h[a].key, seq |-> nextSeq]
          /\ \A x \in Attempts \ {a} : h'[x] = h[x]
          /\ \A x \in Attempts : Target(x)' = Target(x)
          /\ nextSeq' = nextSeq + 1 /\ nextSeq \in Nat \ {0}
          /\ journal' = journal
      BY <2>3 DEF JournalAppend, Target, TypeOK
    <3>2. /\ \A e \in journal : e.seq \in Nat
          /\ \A x \in Attempts : h[x].seq \in Nat
      BY DEF TypeOK, Entries
    <3>3. SeqInv'
      BY <3>1, <3>2 DEF SeqInv
    <3>4. RecordInv'
      BY <3>1 DEF RecordInv
    <3>5. QED
      BY <3>3, <3>4
  <2>4. CASE Commit(a)
    <3> DEFINE new == Entry(a)
    <3>1. /\ h[a].pc = "journaled" /\ h'[a].pc = "record"
          /\ h'[a].seq = h[a].seq /\ h'[a].key = h[a].key
          /\ \A x \in Attempts \ {a} : h'[x] = h[x]
          /\ \A x \in Attempts : Target(x)' = Target(x)
          /\ nextSeq' = nextSeq
          /\ journal' = journal \cup {new}
      BY <2>4 DEF Commit, Target, TypeOK
    <3>2. new.seq = h[a].seq /\ new.key = h[a].key /\ new.msg = Target(a)
      BY DEF Entry, Target
    <3>3. \A x \in Attempts \ {a} :
             h[x].pc = "journaled" => h[x].seq # h[a].seq /\ Target(x) # Target(a)
      BY <3>1 DEF SeqInv, LockInv, Holds
    <3>4. SeqInv'
      BY <3>1, <3>2, <3>3 DEF SeqInv
    <3>5. RecordInv'
      BY <3>1, <3>2 DEF RecordInv
    <3>6. QED
      BY <3>4, <3>5
  <2>5. QED
    BY <1>2, <2>1, <2>2, <2>3, <2>4 DEF Handler
<1>3. ASSUME NEW a \in Attempts, StatementFails(a)
      PROVE  SeqInv' /\ RecordInv'
  <2>1. \A x \in Attempts : h'[x].pc \in {"journaled", "record"} => h'[x] = h[x]
    BY <1>3 DEF StatementFails, End, Idle, TypeOK
  <2>2. QED
    BY <1>3, <2>1, QuietStep DEF StatementFails, Target
<1>4. CASE Crash
  <2>1. \A x \in Attempts : h'[x].pc = "idle"
    BY <1>4 DEF Crash, Idle
  <2>2. QED
    BY <1>4, <2>1, QuietStep DEF Crash
<1>5. CASE UNCHANGED vars
  BY <1>5, QuietStep DEF vars, Target
<1>6. QED
  BY <1>1, <1>2, <1>3, <1>4, <1>5 DEF Next

----------------------------------------------------------------------------
(* The journal *)

\* What a commit adds to the journal, seen from the rest of it.
LEMMA CommitFacts ==
    ASSUME IInv, NEW a \in Attempts, Commit(a)
    PROVE  LET new == Entry(a) IN
           /\ journal' = journal \cup {new}
           /\ new \in Entries /\ new.msg = Target(a)
           /\ new.key = h[a].key /\ new.seq = h[a].seq
           /\ new.op = body[h[a].key].op /\ new.patch = body[h[a].key].patch
           /\ new.msg \in rows
           /\ \A e \in journal : e.seq # new.seq
           /\ \A e \in journal : e.msg = new.msg => e.seq < new.seq
<1>1. h[a].pc = "journaled" /\ h[a].seq \in Nat \ {0}
  BY DEF Commit, IInv, SeqInv, TypeOK
<1>2. /\ h[a].key \in Keys
      /\ body[h[a].key] \in [op : {"flags", "delete"}, msg : Msgs, patch : Patches]
  BY <1>1, TargetType, BodiesAssumption DEF IInv
<1>3. Target(a) \in rows
  BY <1>1 DEF IInv, LockInv, Holds
<1>4. \A e \in journal : e.seq # h[a].seq /\ (e.msg = Target(a) => e.seq < h[a].seq)
  BY <1>1 DEF IInv, SeqInv
<1>5. journal' = journal \cup {Entry(a)}
  BY DEF Commit
<1>6. QED
  BY <1>1, <1>2, <1>3, <1>4, <1>5 DEF Entry, Entries, Target

\* A commit leaves each field with the value of its last writer.
LEMMA FieldsStep ==
    ASSUME IInv, NEW a \in Attempts, Commit(a)
    PROVE  FieldsAreLastWriter'
<1> DEFINE new == Entry(a)
           b == body[h[a].key]
<1>1. /\ journal' = journal \cup {new} /\ new.msg = b.msg /\ new.patch = b.patch
      /\ \A e \in journal : e.msg = new.msg => e.seq < new.seq
      /\ new.seq \in Nat
  BY CommitFacts DEF Target, Entries
<1>2. rows' \subseteq rows
  BY DEF Commit, Remaining
<1>3. flags' = [flags EXCEPT ![b.msg] = Patched(@, b.patch)]
  BY DEF Commit
<1>4. SUFFICES ASSUME NEW m \in rows', NEW f \in Fields
               PROVE  (IF Writes(m, f) = {}
                       THEN flags[m][f] = FALSE
                       ELSE \E e \in Writes(m, f) :
                               /\ flags[m][f] = e.patch[f]
                               /\ \A d \in Writes(m, f) : d.seq <= e.seq)'
  BY DEF FieldsAreLastWriter
<1>5. m \in rows /\ m \in Msgs
  BY <1>2 DEF IInv, TypeOK
<1>6. CASE m = b.msg /\ f \in DOMAIN b.patch
  <2>1. new \in Writes(m, f)'
    BY <1>1, <1>6 DEF Writes
  <2>2. flags'[m][f] = new.patch[f]
    BY <1>1, <1>3, <1>5, <1>6 DEF Patched, IInv, TypeOK
  <2>3. \A d \in Writes(m, f)' : d.seq <= new.seq
    BY <1>1, <1>6 DEF Writes, IInv, TypeOK, Entries
  <2>4. QED
    BY <2>1, <2>2, <2>3
<1>7. CASE ~(m = b.msg /\ f \in DOMAIN b.patch)
  <2>1. Writes(m, f)' = Writes(m, f)
    BY <1>1, <1>7 DEF Writes
  <2>2. flags'[m][f] = flags[m][f]
    BY <1>3, <1>5, <1>7 DEF Patched, IInv, TypeOK
  <2>3. QED
    BY <2>1, <2>2, <1>5 DEF IInv, FieldsAreLastWriter
<1>8. QED
  BY <1>6, <1>7

\* A commit of a delete is the last entry of its message.
LEMMA PurgeStep ==
    ASSUME IInv, NEW a \in Attempts, Commit(a)
    PROVE  PurgeIsLastEntry'
<1> DEFINE new == Entry(a)
<1>1. /\ journal' = journal \cup {new} /\ new.msg \in rows
      /\ \A e \in journal : e.msg = new.msg => e.seq < new.seq
  BY CommitFacts
<1>2. rows' = IF new.op = "delete" THEN rows \ {new.msg} ELSE rows
  BY CommitFacts DEF Commit, Remaining, Target
<1>3. \A e \in journal : e.msg = new.msg => e.op # "delete"
  BY <1>1 DEF IInv, TypeOK, PurgeIsLastEntry
<1>4. ASSUME NEW m \in Msgs
      PROVE  (m \notin rows <=> \E e \in journal : e.msg = m /\ e.op = "delete")'
  BY <1>1, <1>2 DEF IInv, PurgeIsLastEntry
<1>5. ASSUME NEW m \in Msgs, NEW e \in journal', NEW d \in journal',
             e.msg = m, d.msg = m, e.op = "delete", d # e
      PROVE  d.seq < e.seq
  BY <1>1, <1>3, <1>5 DEF IInv, PurgeIsLastEntry
<1>6. QED
  BY <1>4, <1>5 DEF PurgeIsLastEntry

\* An answer is given, and a key recorded, for an entry of the journal.
LEMMA AnswersStep == IInv /\ [Next]_vars => AnswersAreJournaled'
<1> SUFFICES ASSUME IInv, [Next]_vars PROVE AnswersAreJournaled'
  OBVIOUS
<1> USE DEF store
<1>1. CASE UNCHANGED <<journal, idem, answered>>
  BY <1>1 DEF IInv, AnswersAreJournaled
<1>2. ASSUME NEW a \in Attempts, Replay(a)
      PROVE  AnswersAreJournaled'
  <2>1. h[a].key \in Keys /\ idem[h[a].key] # 0
    BY <1>2 DEF Replay, IInv, TypeOK
  <2>2. \E e \in journal : e.key = h[a].key /\ e.seq = idem[h[a].key]
    BY <2>1 DEF IInv, AnswersAreJournaled
  <2>3. QED
    BY <1>2, <2>2 DEF Replay, IInv, AnswersAreJournaled
<1>3. ASSUME NEW a \in Attempts, RecordIdempotency(a)
      PROVE  AnswersAreJournaled'
  <2>1. \E e \in journal : e.key = h[a].key /\ e.seq = h[a].seq
    BY <1>3 DEF RecordIdempotency, IInv, RecordInv
  <2>2. UNCHANGED journal /\ answered' = answered \cup {<<h[a].key, h[a].seq>>}
    BY <1>3 DEF RecordIdempotency
  <2>3. \A p \in answered' : \E e \in journal' : e.key = p[1] /\ e.seq = p[2]
    BY <2>1, <2>2 DEF IInv, AnswersAreJournaled
  <2>4. \A k \in Keys : idem'[k] = idem[k] \/ (k = h[a].key /\ idem'[k] = h[a].seq)
    BY <1>3 DEF RecordIdempotency, Recorded, IInv, TypeOK
  <2>5. QED
    BY <2>1, <2>2, <2>3, <2>4 DEF IInv, AnswersAreJournaled
<1>4. ASSUME NEW a \in Attempts, Commit(a)
      PROVE  AnswersAreJournaled'
  <2>1. journal' = journal \cup {Entry(a)} /\ \A e \in journal : e.seq # Entry(a).seq
    BY <1>4, CommitFacts
  <2>2. UNCHANGED <<idem, answered>>
    BY <1>4 DEF Commit
  <2>3. QED
    BY <2>1, <2>2 DEF IInv, AnswersAreJournaled
<1>5. ASSUME NEW a \in Attempts, Handler(a)
      PROVE  AnswersAreJournaled'
  <2>1. CASE FirstTime(a) \/ NotFound(a) \/ Lock(a) \/ JournalAppend(a)
    BY <2>1, <1>1 DEF FirstTime, NotFound, Lock, JournalAppend
  <2>2. QED
    BY <1>5, <2>1, <1>2, <1>3, <1>4 DEF Handler
<1>6. ASSUME NEW a \in Attempts, NEW k \in Keys, NEW b \in Bodies, Send(a, k, b)
      PROVE  AnswersAreJournaled'
  BY <1>6, <1>1 DEF Send
<1>7. ASSUME NEW a \in Attempts, StatementFails(a)
      PROVE  AnswersAreJournaled'
  BY <1>7, <1>1 DEF StatementFails
<1>8. CASE Crash \/ UNCHANGED vars
  BY <1>8, <1>1 DEF Crash, vars
<1>9. QED
  BY <1>5, <1>6, <1>7, <1>8 DEF Next

\* Only a commit changes the messages, their flags or the journal.
LEMMA OnlyCommits ==
    ASSUME [Next]_vars, ~(\E a \in Attempts : Commit(a))
    PROVE  UNCHANGED <<rows, flags, journal>>
<1>1. ASSUME NEW a \in Attempts, Handler(a)
      PROVE  UNCHANGED <<rows, flags, journal>>
  BY <1>1 DEF Handler, Replay, FirstTime, NotFound, Lock, JournalAppend,
              RecordIdempotency, store
<1>2. ASSUME NEW a \in Attempts, NEW k \in Keys, NEW b \in Bodies, Send(a, k, b)
      PROVE  UNCHANGED <<rows, flags, journal>>
  BY <1>2 DEF Send, store
<1>3. ASSUME NEW a \in Attempts, StatementFails(a)
      PROVE  UNCHANGED <<rows, flags, journal>>
  BY <1>3 DEF StatementFails, store
<1>4. CASE Crash \/ UNCHANGED vars
  BY <1>4 DEF Crash, store, vars
<1>5. QED
  BY <1>1, <1>2, <1>3, <1>4 DEF Next

----------------------------------------------------------------------------
(* The invariant *)

\* The first state: every message there, nothing set, nothing written.
LEMMA InitInv == Init => IInv
<1> SUFFICES ASSUME Init PROVE IInv
  OBVIOUS
<1>1. TypeOK
  BY BoundsAssumption DEF Init, TypeOK, Idle
<1>2. LockInv /\ SeqInv /\ RecordInv
  BY DEF Init, LockInv, SeqInv, RecordInv, Holds, Idle
<1>3. FieldsAreLastWriter /\ PurgeIsLastEntry /\ AnswersAreJournaled
  BY DEF Init, FieldsAreLastWriter, Writes, PurgeIsLastEntry, AnswersAreJournaled
<1>4. QED
  BY <1>1, <1>2, <1>3 DEF IInv

\* Every step keeps the invariant.
LEMMA NextInv == IInv /\ [Next]_vars => IInv'
<1> SUFFICES ASSUME IInv, [Next]_vars PROVE IInv'
  OBVIOUS
<1>1. TypeOK' /\ LockInv' /\ SeqInv' /\ RecordInv'
  BY TypeStep, LockStep, SeqStep DEF IInv
<1>2. AnswersAreJournaled'
  BY AnswersStep
<1>3. FieldsAreLastWriter' /\ PurgeIsLastEntry'
  <2>1. CASE \E a \in Attempts : Commit(a)
    BY <2>1, FieldsStep, PurgeStep
  <2>2. CASE ~(\E a \in Attempts : Commit(a))
    <3>1. UNCHANGED <<rows, flags, journal>>
      BY <2>2, OnlyCommits
    <3>2. QED
      BY <3>1 DEF IInv, FieldsAreLastWriter, Writes, PurgeIsLastEntry
  <2>3. QED
    BY <2>1, <2>2
<1>4. QED
  BY <1>1, <1>2, <1>3 DEF IInv

\* The inductive invariant holds in every reachable state.
THEOREM Invariance == Spec => []IInv
<1>1. QED
  BY InitInv, NextInv, PTL DEF Spec

----------------------------------------------------------------------------
(* A change is applied once *)

\* The attempts under a key that no two attempts shared: there is one, it has
\* no entry before its commit, and an entry without a record is one whose
\* attempt is about to record it.
Once(k) ==
    /\ \A a, b \in Attempts : h[a].key = k /\ h[b].key = k => a = b
    /\ \A a \in Attempts :
          h[a].key = k /\ h[a].pc \in {"apply", "locked", "journaled"} =>
              \A e \in journal : e.key # k
    /\ \A e \in journal :
          e.key = k => idem[k] # 0 \/ \E a \in Attempts : h[a].key = k /\ h[a].pc = "record"
    /\ \A e, d \in journal : e.key = k /\ d.key = k => e = d

OnceInv == faults = 0 => \A k \in Keys \ overlapped : Once(k)

\* What an attempt does to the keys it does not work for.
LEMMA OtherKeys ==
    ASSUME TypeOK, OnceInv, NEW a \in Attempts, NEW new, h' = [h EXCEPT ![a] = new],
           new.key \in {Nil, h[a].key},
           \A e \in journal' : e \in journal \/ e.key = h[a].key,
           journal \subseteq journal',
           \A k \in Keys : k # h[a].key => idem'[k] = idem[k],
           UNCHANGED <<overlapped, faults>>, faults = 0,
           NEW k \in Keys, k \notin overlapped, k # h[a].key
    PROVE  Once(k)'
<1>1. Once(k)
  BY DEF OnceInv
<1>2. h'[a] = new /\ \A b \in Attempts : b # a => h'[b] = h[b]
  BY DEF TypeOK
<1>3. new.key # k
  BY NilAssumption
<1> QED BY <1>1, <1>2, <1>3 DEF Once

\* A request that arrives under a key nobody works for.
LEMMA SendOnce ==
    ASSUME TypeOK, OnceInv, NEW a \in Attempts, NEW k \in Keys, NEW b \in Bodies, Send(a, k, b)
    PROVE  OnceInv'
<1> SUFFICES ASSUME faults = 0, NEW j \in Keys, j \notin overlapped' PROVE Once(j)'
  BY DEF OnceInv, Send, store
<1>1. Once(j) /\ UNCHANGED <<journal, idem>>
  BY DEF OnceInv, Send, store
<1>2. /\ h'[a] = [pc |-> "check", key |-> k, seq |-> 0] /\ h[a].pc = "idle"
      /\ \A c \in Attempts : c # a => h'[c] = h[c]
  BY DEF TypeOK, Send
<1>3. k = j => \A c \in Attempts : h[c].key # j
  BY DEF Send
<1> QED BY <1>1, <1>2, <1>3 DEF Once

\* The steps of an attempt follow its key from the look-up to the record.
LEMMA HandlerOnce ==
    ASSUME IInv, OnceInv, NEW a \in Attempts, Handler(a)
    PROVE  OnceInv'
<1> SUFFICES ASSUME faults = 0, NEW k \in Keys, k \notin overlapped, k = h[a].key
             PROVE  Once(k)'
  <2>1. UNCHANGED <<overlapped, faults>>
    BY DEF Handler, Replay, FirstTime, Lock, NotFound, JournalAppend, Commit, RecordIdempotency
  <2>2. \E new : h' = [h EXCEPT ![a] = new] /\ new.key \in {Nil, h[a].key}
    BY DEF IInv, TypeOK, Handler, Replay, FirstTime, Lock, NotFound, JournalAppend, Commit,
           RecordIdempotency, End, Idle
  <2>3. (\A e \in journal' : e \in journal \/ e.key = h[a].key) /\ journal \subseteq journal'
    BY DEF Handler, Replay, FirstTime, Lock, NotFound, JournalAppend, Commit,
           RecordIdempotency, store, Entry
  <2>4. \A j \in Keys : j # h[a].key => idem'[j] = idem[j]
    BY DEF IInv, TypeOK, Handler, Replay, FirstTime, Lock, NotFound, JournalAppend, Commit,
           RecordIdempotency, store
  <2> QED BY <2>1, <2>2, <2>3, <2>4, OtherKeys DEF IInv, OnceInv
<1> DEFINE new == h'[a]
<1>1. Once(k) /\ TypeOK
  BY DEF OnceInv, IInv
<1>2. \A b \in Attempts : b # a => h'[b] = h[b] /\ h[b].key # k
  BY <1>1 DEF TypeOK, Once, Handler, Replay, FirstTime, Lock, NotFound, JournalAppend, Commit,
              RecordIdempotency, End
<1>3. CASE FirstTime(a)
  <2>1. new.key = k /\ new.pc = "apply" /\ idem[k] = 0 /\ h[a].pc = "check" /\ UNCHANGED <<journal, idem>>
    BY <1>1, <1>3 DEF FirstTime, TypeOK, store
  <2>2. \A e \in journal : e.key # k
    BY <1>1, <1>2, <2>1 DEF Once
  <2> QED BY <1>1, <1>2, <2>1, <2>2 DEF Once
<1>4. CASE Lock(a) \/ JournalAppend(a)
  <2>1. /\ new.key = k /\ new.pc \in {"locked", "journaled"} /\ h[a].pc \in {"apply", "locked"}
        /\ UNCHANGED <<journal, idem>>
    BY <1>1, <1>4 DEF Lock, JournalAppend, TypeOK, store
  <2> QED BY <1>1, <1>2, <2>1 DEF Once
<1>5. CASE Replay(a) \/ NotFound(a)
  <2>1. new.key = Nil /\ h[a].pc \in {"check", "apply"} /\ UNCHANGED <<journal, idem>>
    BY <1>1, <1>5 DEF Replay, NotFound, End, Idle, TypeOK, store
  <2> QED BY <1>1, <1>2, <2>1, NilAssumption DEF Once
<1>6. CASE Commit(a)
  <2>1. /\ new.key = k /\ new.pc = "record" /\ h[a].pc = "journaled"
        /\ idem' = idem /\ journal' = journal \cup {Entry(a)}
    BY <1>1, <1>6 DEF Commit, TypeOK
  <2>2. \A e \in journal : e.key # k
    BY <1>1, <2>1 DEF Once
  <2> QED BY <1>1, <1>2, <2>1, <2>2 DEF Once
<1>7. CASE RecordIdempotency(a)
  <2>1. new.key = Nil /\ h[a].pc = "record" /\ journal' = journal
    BY <1>1, <1>7 DEF RecordIdempotency, End, Idle, TypeOK
  <2>2. h[a].seq # 0
    BY <2>1 DEF IInv, SeqInv
  <2>3. idem'[k] # 0
    BY <1>1, <1>7, <2>2 DEF RecordIdempotency, Recorded, TypeOK
  <2> QED BY <1>1, <1>2, <2>1, <2>3, NilAssumption DEF Once
<1> QED BY <1>3, <1>4, <1>5, <1>6, <1>7 DEF Handler

LEMMA OnceStep == IInv /\ OnceInv /\ [Next]_vars => OnceInv'
<1> SUFFICES ASSUME IInv, OnceInv, [Next]_vars PROVE OnceInv'
  OBVIOUS
<1>1. ASSUME NEW a \in Attempts, NEW k \in Keys, NEW b \in Bodies, Send(a, k, b) PROVE OnceInv'
  BY <1>1, SendOnce DEF IInv
<1>2. ASSUME NEW a \in Attempts, Handler(a) PROVE OnceInv'
  BY <1>2, HandlerOnce
<1>3. CASE (\E a \in Attempts : StatementFails(a)) \/ Crash
  <2>1. faults \in Nat
    BY BoundsAssumption DEF IInv, TypeOK
  <2>2. faults' = faults + 1
    BY <1>3 DEF StatementFails, Crash
  <2> QED BY <2>1, <2>2 DEF OnceInv
<1>4. CASE UNCHANGED vars
  BY <1>4 DEF vars, OnceInv, Once
<1> QED BY <1>1, <1>2, <1>3, <1>4 DEF Next

----------------------------------------------------------------------------
(* Theorems *)

\* The variables of the state endpoints keep their types.
THEOREM TypeCorrectness == Spec => []TypeOK
<1>1. IInv => TypeOK
  BY DEF IInv
<1>2. QED
  BY Invariance, <1>1, PTL

\* Whatever fails, overlaps or is sent again, each flag of a message is the
\* one its latest journal entry for that field gives: apply_state_flags
\* updates state_flags and appends to mail.journal in one transaction.
THEOREM FlagsFollowJournal == Spec => []FieldsAreLastWriter
<1>1. IInv => FieldsAreLastWriter
  BY DEF IInv
<1>2. QED
  BY Invariance, <1>1, PTL

\* purge_message journals a purge once, as the last entry of its message.
THEOREM PurgesAreFinal == Spec => []PurgeIsLastEntry
<1>1. IInv => PurgeIsLastEntry
  BY DEF IInv
<1>2. QED
  BY Invariance, <1>1, PTL

\* The sequence a client is given, first answer or replay, is that of an
\* entry of its own request.
THEOREM AnswersAreTrue == Spec => []AnswersAreJournaled
<1>1. IInv => AnswersAreJournaled
  BY DEF IInv
<1>2. QED
  BY Invariance, <1>1, PTL

\* The row lock makes the entries of one message visible in their order.
THEOREM MessagesInOrder == Spec => MessageEntriesInOrder
<1>1. ASSUME IInv, [Next]_vars
      PROVE  [\A e \in journal' \ journal, d \in journal :
                 d.msg = e.msg => d.seq < e.seq]_vars
  <2>1. CASE \E a \in Attempts : Commit(a)
    BY <1>1, <2>1, CommitFacts
  <2>2. CASE ~(\E a \in Attempts : Commit(a))
    <3>1. journal' = journal
      BY <1>1, <2>2, OnlyCommits
    <3>2. QED
      BY <3>1
  <2>3. QED
    BY <2>1, <2>2
<1>2. QED
  BY Invariance, <1>1, PTL DEF Spec, MessageEntriesInOrder

\* As long as nothing fails and no two attempts of a request overlap, the key of a
\* request stops every repetition of it: already_applied finds the record of
\* record_idempotency before anything is applied.
THEOREM AppliedOnce == Spec => []AppliedOnceWithoutFault
<1>1. Init => OnceInv
  BY NilAssumption DEF Init, OnceInv, Once, Idle
<1>2. IInv /\ OnceInv => AppliedOnceWithoutFault
  <2> SUFFICES ASSUME IInv, OnceInv, faults = 0, NEW e \in journal, NEW d \in journal,
                      e.key = d.key, e.key \notin overlapped
               PROVE  e = d
    BY DEF AppliedOnceWithoutFault
  <2>1. e.key \in Keys
    BY DEF IInv, TypeOK, Entries
  <2> QED BY <2>1 DEF OnceInv, Once
<1> QED BY <1>1, <1>2, OnceStep, Invariance, PTL DEF Spec
=============================================================================
