---------------------------- MODULE ImapMailbox ----------------------------
(***************************************************************************)
(* The IMAP sessions of diamy-bridged on the one mailbox of an account,    *)
(* the catalogue of diamy-maild they read and change over HTTP, and what a *)
(* mail client knows about the numbers of its messages. UIDs come from the *)
(* registry the sessions share (UidRegistry), which is part of the state   *)
(* here.                                                                   *)
(*                                                                         *)
(* A session answers one command at a time. It works on a copy of the      *)
(* catalogue, its box, that only SELECT and NOOP refresh; other sessions,  *)
(* and mail that arrives, change the catalogue in between. Each HTTP call  *)
(* is one step of the server.                                              *)
(***************************************************************************)
EXTENDS Naturals, Sequences, FiniteSets, SequencesExt

CONSTANTS
    Sessions,       \* IMAP connections of the bridge
    Window,         \* the 50 messages maild lists
    Flags,          \* flags in use, within {"seen", "deleted"}
    StoreModes,     \* STORE modes clients use, within {"set", "add", "remove"}
    Messages, Catalogues, MaxUid, RestartTime, MaxClock, MaxFaults

ASSUME FlagsAssumption ==
    Flags \subseteq {"seen", "deleted"} /\ StoreModes \subseteq {"set", "add", "remove"}
ASSUME NumbersAssumption ==
    /\ Window \in Nat /\ IsFiniteSet(Messages)
    /\ MaxUid \in Nat \ {0} /\ RestartTime \in Nat \ {0}
    /\ MaxClock \in Nat /\ MaxFaults \in Nat
\* maild may list any messages it has, each of them once.
ASSUME CataloguesAssumption ==
    Catalogues = UNION {{ids \in [1 .. n -> Messages] : IsInjective(ids)} : n \in 0 .. Window}

VARIABLES
    catalogue,      \* rows of mail.messages of the account, oldest first
    flags,          \* flags[m]: state_flags of m on the server
    session,        \* session[s]: state of connection s in the bridge
    view,           \* view[s]: message the client of s knows by each number
    marked,         \* history: messages a STORE marked deleted
    purged,         \* history: messages removed by an EXPUNGE
    cache, disk, clock, faults, served, unsaved     \* the UID registry

mailVars == <<catalogue, flags, marked, purged>>
registryVars == <<cache, disk, clock, faults, served, unsaved>>
vars == <<mailVars, session, view, registryVars>>

Registry == INSTANCE UidRegistry

Fault == Registry!Fault

----------------------------------------------------------------------------
(* The server *)

\* list_recent_messages: the latest rows.
Recent ==
    IF Len(catalogue) > Window
    THEN SubSeq(catalogue, Len(catalogue) - Window + 1, Len(catalogue)) ELSE catalogue

\* What maild answers: those rows with their flags.
Listing == [i \in DOMAIN Recent |-> [msg |-> Recent[i], flags |-> flags[Recent[i]]]]

Catalogued == ToSet(catalogue)

\* A delivery commits; its received_at may precede that of rows already there.
Arrive(m) ==
    /\ m \notin Catalogued \cup purged
    /\ \E i \in 1 .. Len(catalogue) + 1 : catalogue' = InsertAt(catalogue, i, m)
    /\ UNCHANGED <<flags, marked, purged, session, view, registryVars>>

\* apply_state_flags: the fields named in the request, and no other.
Apply(m, added, removed) ==
    /\ flags' = [flags EXCEPT ![m] = (@ \cup added) \ removed]
    /\ marked' = IF "deleted" \in added THEN marked \cup {m} ELSE marked
    /\ UNCHANGED <<catalogue, purged>>

\* purge_message.
Delete(m) ==
    /\ \E i \in DOMAIN catalogue : catalogue[i] = m /\ catalogue' = RemoveAt(catalogue, i)
    /\ purged' = purged \cup {m}
    /\ UNCHANGED <<flags, marked>>

----------------------------------------------------------------------------
(* Sessions *)

LoggedOut ==
    [at |-> "out", selected |-> FALSE, box |-> <<>>, cmd |-> "none", list |-> <<>>,
     todo |-> <<>>, nth |-> 0, gone |-> <<>>, lines |-> <<>>, refused |-> FALSE]

\* The session returns to reading commands.
Done(ses) ==
    [ses EXCEPT !.at = "idle", !.cmd = "none", !.list = <<>>, !.todo = <<>>,
                !.nth = 0, !.gone = <<>>, !.lines = <<>>, !.refused = FALSE]

Login(s) ==
    /\ session[s].at = "out"
    /\ session' = [session EXCEPT ![s].at = "idle"]
    /\ UNCHANGED <<mailVars, view, registryVars>>

Logout(s) ==
    /\ session[s].at = "idle"
    /\ session' = [session EXCEPT ![s] = LoggedOut]
    /\ view' = [view EXCEPT ![s] = <<>>]
    /\ UNCHANGED <<mailVars, registryVars>>

\* The first half of fetch_mailbox_catalog: maild answers. An error leaves
\* the session as it was.
List(s, cmd) ==
    /\ session[s].at = "idle"
    /\ cmd = "NOOP" => session[s].selected
    /\ session' = [session EXCEPT ![s].at = "listed", ![s].cmd = cmd,
                                  ![s].list = Listing]
    /\ UNCHANGED <<mailVars, view, registryVars>>

\* Mutant: the catalogue keeps the order in which it was listed.
NumberedAsListed(list, uid) ==
    [i \in DOMAIN list |-> [uid |-> uid[list[i].msg], msg |-> list[i].msg,
                            flags |-> list[i].flags]]

\* The members of S from the first to the last; before is a strict order on them.
InOrder(S, before) ==
    LET rank(x) == Cardinality({y \in S : <<y, x>> \in before})
    IN  [n \in 1 .. Cardinality(S) |-> CHOOSE x \in S : rank(x) = n - 1]

\* Rows with the same UID stay in the order of the list.
UidOrder(list, uid) ==
    LET id(i) == uid[list[i].msg]
    IN  {p \in (DOMAIN list) \X (DOMAIN list) :
            id(p[1]) < id(p[2]) \/ (id(p[1]) = id(p[2]) /\ p[1] < p[2])}

\* The second half: the listed messages in the order of their UIDs.
Numbered(list, uid) ==
    LET order == InOrder(DOMAIN list, UidOrder(list, uid))
        row(i) == [uid |-> uid[list[i].msg], msg |-> list[i].msg, flags |-> list[i].flags]
    IN  [n \in DOMAIN order |-> row(order[n])]

\* What a client records of a box.
Known(box) == [i \in DOMAIN box |-> [uid |-> box[i].uid, msg |-> box[i].msg]]

\* On EXISTS n the client fetches the numbers it does not know yet.
Learn(known, box) ==
    IF Len(box) >= Len(known)
    THEN known \o SubSeq(Known(box), Len(known) + 1, Len(box))
    ELSE SubSeq(known, 1, Len(box))

\* Mutant: NOOP announces nothing.
LearnFromNoopNothing(known, old, box) == known

\* NOOP announces EXISTS when the number of messages changed.
LearnFromNoop(known, old, box) ==
    IF Len(box) # Len(old) THEN Learn(known, box) ELSE known

\* UIDs are resolved, with or without an error of the registry.
ResolveListed(ids) ==
    \/ Registry!Resolve(ids) \/ Registry!ResolveUnsaved(ids)
    \/ Registry!ResolveTorn(ids) \/ Registry!ResolveUnread(ids)

Reply(s) ==
    LET ses == session[s]
        box == Numbered(ses.list, cache'.uid)
    IN
    /\ ses.at = "listed"
    /\ ResolveListed([i \in DOMAIN ses.list |-> ses.list[i].msg])
    /\ CASE ses.cmd = "SELECT" ->
              /\ session' = [session EXCEPT ![s] = [Done(ses) EXCEPT !.selected = TRUE, !.box = box]]
              /\ view' = [view EXCEPT ![s] = Known(box)]
         [] ses.cmd = "NOOP" ->
              /\ session' = [session EXCEPT ![s] = [Done(ses) EXCEPT !.box = box]]
              /\ view' = [view EXCEPT ![s] = LearnFromNoop(@, ses.box, box)]
         [] ses.cmd = "STATUS" ->
              /\ session' = [session EXCEPT ![s] = Done(ses)]
              /\ UNCHANGED view
    /\ UNCHANGED mailVars

\* Mutant: -FLAGS clears every flag in the session's copy.
StoredRemoveAll(mode, fs, old) ==
    CASE mode = "set" -> fs
      [] mode = "add" -> old \cup fs
      [] mode = "remove" -> {}

\* The flags the session computes for its own copy and tells the client.
Stored(mode, fs, old) ==
    CASE mode = "set" -> fs
      [] mode = "add" -> old \cup fs
      [] mode = "remove" -> old \ fs

\* What the server is sent: the value of each flag the client named.
StoreOnServer(m, mode, fs) ==
    IF mode = "remove" THEN Apply(m, {}, fs) ELSE Apply(m, fs, {})

\* STORE of one message, by number or by UID. A message purged meanwhile is
\* refused by the server and changes nothing.
Store(s, i, mode, fs) ==
    LET row == session[s].box[i] IN
    /\ session[s].at = "idle" /\ session[s].selected
    /\ row.msg \in Catalogued
    /\ StoreOnServer(row.msg, mode, fs)
    /\ session' = [session EXCEPT ![s].box[i].flags = Stored(mode, fs, @)]
    /\ UNCHANGED <<view, registryVars>>

\* The server applied the change and its answer is an error or is lost.
StoreUnanswered(s, i, mode, fs) ==
    LET row == session[s].box[i] IN
    /\ session[s].at = "idle" /\ session[s].selected
    /\ row.msg \in Catalogued
    /\ Fault
    /\ StoreOnServer(row.msg, mode, fs)
    /\ UNCHANGED <<session, view, cache, disk, clock, served, unsaved>>

\* Mutant: EXPUNGE takes every message of the box.
ToExpungeAll(box) == [i \in DOMAIN box |-> i]

\* Numbers of the messages the session's copy shows deleted, ascending.
ToExpunge(box) ==
    LET deleted == {i \in DOMAIN box : "deleted" \in box[i].flags}
    IN  InOrder(deleted, {p \in deleted \X deleted : p[1] < p[2]})

BeginExpunge(s) ==
    /\ session[s].at = "idle" /\ session[s].selected
    /\ session' = [session EXCEPT ![s].at = "expunge", ![s].todo = ToExpunge(session[s].box)]
    /\ UNCHANGED <<mailVars, view, registryVars>>

\* Mutant: the index of the message instead of its number.
ExpungedNumberFromZero(i, nth) == i - 1 - nth

\* Mutant: the number the message had before the command.
ExpungedNumberRaw(i, nth) == i

\* The number announced for the nth message of the loop, counting from 0.
ExpungedNumber(i, nth) == i - nth

Accepted(ses) ==
    [ses EXCEPT !.todo = Tail(@), !.nth = @ + 1,
                !.gone = Append(@, Head(ses.todo)),
                !.lines = Append(@, ExpungedNumber(Head(ses.todo), ses.nth))]
Refused(ses) ==
    [ses EXCEPT !.todo = Tail(@), !.nth = @ + 1, !.refused = TRUE]

\* One /state/delete of the loop: accepted, or 404 for a message that
\* another session purged.
ExpungeOne(s) ==
    LET ses == session[s]
        m == ses.box[Head(ses.todo)].msg
    IN
    /\ ses.at = "expunge" /\ ses.todo # <<>>
    /\ IF m \in Catalogued
       THEN Delete(m) /\ session' = [session EXCEPT ![s] = Accepted(@)]
       ELSE UNCHANGED mailVars /\ session' = [session EXCEPT ![s] = Refused(@)]
    /\ UNCHANGED <<view, registryVars>>

\* The call fails, before or after the server removed the message.
ExpungeOneFails(s) ==
    LET ses == session[s]
        m == ses.box[Head(ses.todo)].msg
    IN
    /\ ses.at = "expunge" /\ ses.todo # <<>>
    /\ Fault
    /\ UNCHANGED mailVars \/ (m \in Catalogued /\ Delete(m))
    /\ session' = [session EXCEPT ![s] = Refused(@)]
    /\ UNCHANGED <<view, cache, disk, clock, served, unsaved>>

\* Removes from seq the elements at the given ascending indices, the last one first.
Without(seq, indices) ==
    LET left[n \in 0 .. Len(indices)] ==
            IF n = 0 THEN seq ELSE RemoveAt(left[n - 1], indices[Len(indices) + 1 - n])
    IN  left[Len(indices)]

\* What the client makes of * n EXPUNGE lines, one after the other.
AfterExpunges(known, lines) ==
    LET after[n \in 0 .. Len(lines)] ==
            IF n = 0 THEN known
            ELSE IF lines[n] <= Len(after[n - 1]) THEN RemoveAt(after[n - 1], lines[n])
            ELSE after[n - 1]
    IN  after[Len(lines)]

EndExpunge(s) ==
    LET ses == session[s] IN
    /\ ses.at = "expunge" /\ ses.todo = <<>>
    /\ session' = [session EXCEPT ![s] = [Done(ses) EXCEPT !.box = Without(@, ses.gone)]]
    /\ view' = [view EXCEPT ![s] = AfterExpunges(@, ses.lines)]
    /\ UNCHANGED <<mailVars, registryVars>>

\* The bridge ends, in any of its states, and starts again: connections drop.
RestartBridge ==
    /\ \/ Registry!Restart
       \/ \E s \in Sessions :
            /\ session[s].at = "listed"
            /\ Registry!CrashInPersist([i \in DOMAIN session[s].list |-> session[s].list[i].msg])
    /\ session' = [s \in Sessions |-> LoggedOut]
    /\ view' = [s \in Sessions |-> <<>>]
    /\ UNCHANGED mailVars

RegistryStep ==
    /\ Registry!FileDamaged \/ Registry!Tick
    /\ UNCHANGED <<mailVars, session, view>>

----------------------------------------------------------------------------

Init ==
    /\ catalogue = <<>>
    /\ flags = [m \in Messages |-> {}]
    /\ session = [s \in Sessions |-> LoggedOut]
    /\ view = [s \in Sessions |-> <<>>]
    /\ marked = {} /\ purged = {}
    /\ Registry!Init

SessionStep(s) ==
    \/ Login(s) \/ Logout(s)
    \/ \E cmd \in {"SELECT", "NOOP", "STATUS"} : List(s, cmd)
    \/ Reply(s)
    \/ \E i \in DOMAIN session[s].box, mode \in StoreModes, fs \in SUBSET Flags \ {{}} :
         Store(s, i, mode, fs) \/ StoreUnanswered(s, i, mode, fs)
    \/ BeginExpunge(s) \/ ExpungeOne(s) \/ ExpungeOneFails(s) \/ EndExpunge(s)

Next ==
    \/ \E m \in Messages : Arrive(m)
    \/ \E s \in Sessions : SessionStep(s)
    \/ RestartBridge \/ RegistryStep

Spec == Init /\ [][Next]_vars

----------------------------------------------------------------------------
(* Properties *)

Rows == [uid : 1 .. MaxUid, msg : Messages, flags : SUBSET Flags]
Slots == [uid : 1 .. MaxUid, msg : Messages]

\* Every variable keeps its type; an announced EXPUNGE number is a number.
TypeOK ==
    /\ catalogue \in Seq(Messages) /\ IsInjective(catalogue)
    /\ flags \in [Messages -> SUBSET Flags]
    /\ marked \subseteq Messages /\ purged \subseteq Messages
    /\ view \in [Sessions -> Seq(Slots)]
    /\ \A s \in Sessions :
         /\ session[s].at \in {"out", "idle", "listed", "expunge"}
         /\ session[s].box \in Seq(Rows)
         /\ session[s].todo \in Seq(DOMAIN session[s].box)
         /\ session[s].gone \in Seq(DOMAIN session[s].box)
         /\ session[s].lines \in Seq(Nat \ {0})

InStep(s) == view[s] = Known(session[s].box)

\* Sequence numbers of a box follow strictly increasing UIDs, whatever the
\* order in which other sessions had UIDs resolved (fetch_mailbox_catalog).
UidsIncrease ==
    \A s \in Sessions : \A i, j \in DOMAIN session[s].box :
        i < j /\ session[s].box[j].uid # MaxUid
            => session[s].box[i].uid < session[s].box[j].uid

\* Moreover a UID a client knows is, in its session, the UID of the same message or
\* of none: UID FETCH and UID STORE never act on another message, even when
\* the sequence numbers of client and session disagree (cmd_store, cmd_fetch).
UidsAgree ==
    /\ UidsIncrease
    /\ \A s \in Sessions : \A i \in DOMAIN session[s].box, j \in DOMAIN view[s] :
            session[s].box[i].uid = view[s][j].uid /\ view[s][j].uid # MaxUid
                => session[s].box[i].msg = view[s][j].msg

\* Only messages a client marked \Deleted are ever removed, however old the
\* box of the session that runs EXPUNGE is (cmd_expunge).  The mark may have been
\* taken back since in another session: EXPUNGE does not notice.
PurgedWasMarked == purged \subseteq marked

ExpungeEnds(s) == session[s].at = "expunge" /\ session[s].todo = <<>> /\ session'[s].at = "idle"

\* The numbers EXPUNGE announces leave client and session in step, when no
\* delete of the command failed (cmd_expunge).
ExpungeKeepsStep ==
    [][\A s \in Sessions :
          ExpungeEnds(s) /\ ~ session[s].refused /\ InStep(s) => InStep(s)']_vars

\* What the comments of cmd_expunge say: the numbers are right, always.
ExpungeNumbersAreRight ==
    [][\A s \in Sessions : ExpungeEnds(s) /\ InStep(s) => InStep(s)']_vars

\* The copy of the flags in a session, which STORE tells the client and which
\* EXPUNGE and FETCH use, is what the server holds, as long as no call failed
\* (cmd_store).  It holds of one session without STORE FLAGS: another session makes
\* the copy stale, and STORE FLAGS (\Deleted) leaves \Seen set on the server.
CopyIsServer ==
    faults = 0 => \A s \in Sessions : \A i \in DOMAIN session[s].box :
        session[s].box[i].msg \in Catalogued =>
            session[s].box[i].flags = flags[session[s].box[i].msg]

\* The client and its session agree on every number between commands, so that NOOP
\* has announced every message the session has loaded, as long as no call failed and
\* the mailbox has at most Window messages (cmd_noop, cmd_expunge).  It holds of one
\* session: what another one purges shifts the numbers until the next SELECT.
NumbersAgree ==
    faults = 0 => \A s \in Sessions : session[s].at = "idle" => InStep(s)
=============================================================================
