# Verification of diamy-mail

TLA+ modules, TLC configurations and TLAPS proofs about the services and the
storage crate of diamy-mail, an end-to-end encrypted mail system written in
Rust. Paths below are relative to `src/diamy-mail/` unless they start with `src/`.

## 1. The system

Mail comes in over SMTP, is encrypted for the devices of its recipient, is
stored in Postgres and in a directory of files, and is read through an HTTP API,
directly by a device or by an ordinary mail client through a bridge.

```
 other servers --SMTP--> diamy-mxd ----+                      +--HTTP-- devices
                            ^          v                      v
                            |     diamy-mail-storage <-- diamy-maild <--HTTP--+
                     SMTP   |    (Postgres + blob files)                      |
                       diamy-submitd <------HTTP------ diamy-bridged <--IMAP, SMTP-- mail client
```

| Component | Source | State it keeps | Operations | Status |
|---|---|---|---|---|
| catalogue and blob store | `crates/diamy-mail-storage/src/lib.rs` | tables `mail.messages`, `blobs`, `envelopes`, `hold_queue`, `journal`, `idempotency_keys`, `folders`, `keydir`; one file per body | store inbound, store held, list, fetch for a device, patch flags, purge, publish keys, journal, idempotency records | `MailStore`, `ImapMailbox`, `StateSync` |
| hold queue and release sweep | same, and `services/diamy-mxd/src/main.rs` 176-233 | rows of `hold_queue`, the sweep's position | count, insert, expire, release | `MailStore` |
| SMTP reception | `services/diamy-mxd/src/main.rs` | one session per connection | command loop, STARTTLS, DATA, delivery to each recipient, reply | `SmtpReception`; delivery call by call in `MailStore`; lines and addresses in `MailText` |
| sync API | `services/diamy-maild/src/sync_api.rs` | none of its own | list, fetch, `/state/flags`, `/state/delete`, with idempotency keys | `MailStore`, `ImapMailbox`, `StateSync` |
| IMAP session | `services/diamy-bridged/src/main.rs` | per connection: login, the selected box (a copy of the catalogue with UIDs and flags) | LOGIN, SELECT, STATUS, NOOP, FETCH, STORE, EXPUNGE, LOGOUT | `ImapMailbox`; the reader of commands, sets, items and dates in `ImapText` |
| UID registry | same, 380-547 | per mailbox: UIDVALIDITY, next UID, UID of each message; in memory and in a JSON file | resolve, persist, load | `UidRegistry` |
| SMTP submission | same, 1848-2214 | one session per connection | AUTH, MAIL, RCPT, DATA, hand over to submitd | `Submission` |
| submission service | `services/diamy-submitd/src/` | one handler per request | authenticate, relay to each recipient over SMTP, classify the replies | `Submission`; dot stuffing in `MailText` |
| device authentication | `services/diamy-maild/src/auth.rs` | none | verify a token | not modelled: stateless |
| addresses | `crates/diamy-addr` | none | canonical form | `Address` |
| IAM | `crates/diamy-mail-iam` | a fixed directory | look up an address, verify a token | look-up in `Address`, expiry in `Submission` |
| crypto, MIME, rendering, model, observability | `crates/` | none that others read | pure functions | not modelled: see section 8 |

How they interact: diamy-mxd and diamy-maild share the database and the blob
directory and nothing else, with no lock above one transaction. The bridge calls
diamy-maild once per HTTP request; its connections share one process, one UID
registry behind a mutex, and no mailbox state. All services are tokio
programs: any two connections interleave at every `await`.

What is hard, and what makes each part correct:

- **storage**: two transactions with file operations around them, any of which
  may fail or be cut by a crash. A message that was acknowledged is never without
  a way to its key; a catalogued message has its file; a purge is total.
- **hold queue**: a message for someone without a device is kept with a key the
  server can unwrap, and that copy must disappear with the step that makes the
  message readable. The sweep must resume after any failure. The size bound is
  checked several calls before the insertion.
- **SMTP reception**: a peer that sends ahead of the answers and a server that may refuse
  any command must agree on the transaction; what was said in clear is not part of the
  encrypted session; a text ends with a dot or with its connection; one reply for
  several recipients, after partial failures.
- **submission**: three programs in a row between a mail client and its recipient's
  mailbox. A fault on any hop leaves the hop before it in doubt; nobody may be told of
  success without a copy, and no hop may make a second copy.
- **text**: the same message and the same address are read and written by up to four programs,
  each with its own bounds and its own idea of where things end.
- **UIDs**: a client caches by UID for years. A UID never changes message under
  one UIDVALIDITY, over restarts, torn and lost files, and a saturated counter.
- **state endpoints**: three database steps per request, a client that sends it
  again, and a journal others replay. The journal must explain every flag and
  every purge, and an answer must name what was really done.
- **sessions**: each works on a copy that only SELECT and NOOP refresh, and
  client and server agree on message numbers only by counting the same lines.

The complete list of hazards, each at its line, is under `hazards` in
`PROJECT.json`, with the property that covers it or the reason none does.

## 2. Modules

| Module | What it is |
|---|---|
| `MailPromise` | abstract: the life cycle of one message |
| `MailStore` | catalogue, blob files, hold queue, SMTP deliveries, sweep, purge, fetch |
| `MCMailStore` | its instances: owners of devices, symmetry, fault-free definitions |
| `MailStore_proofs` | types and the safety invariants of `MailStore`; the bounds on the hold queue and on inboxes; `MailStore` implements `MailPromise` |
| `UidRegistry`, `MCUidRegistry` | UIDs of one mailbox, memory and file |
| `UidRegistry_proofs` | types and the three UID invariants; what an assignment does to the counter |
| `ImapMailbox`, `MCImapMailbox` | sessions of the bridge, the catalogue they share, what clients know; contains `UidRegistry` by INSTANCE, whose variables are part of its state |
| `ImapMailbox_proofs` | types and the five IMAP properties, with the promises of the registry inside |
| `StateSync`, `MCStateSync` | `/state/flags` and `/state/delete`: idempotency keys, row lock, journal |
| `StateSync_proofs` | types and five safety properties of the journal and the keys |
| `SmtpReception`, `MCSmtpReception` | one connection to diamy-mxd, with the peer's view of it |
| `SmtpReception_proofs` | types, agreement of peer and server, copies, verdicts |
| `SubmitPromise` | abstract: what the submission path owes a mail client |
| `Submission`, `MCSubmission` | AUTH to the answer to DATA: bridge, diamy-submitd, the relay to diamy-mxd |
| `Submission_proofs` | types, exact answers, `Submission` implements `SubmitPromise` |
| `Text` | functions of `str` the text modules use |
| `MailText` | the text of a message from hop to hop, address extraction |
| `Address` | `diamy_addr_canon`, the recipient from RCPT TO to the directory |
| `ImapText` | literals, arguments, number sets, item lists and dates of the IMAP session |
| `MCText` | all short inputs of `MailText`, `Address` and `ImapText` |
| `MailText_proofs` | `Split`, `Trim`, `InOrder`; texts from hop to hop |
| `MCText_proofs` | the functions of `Address` and `ImapText`; the properties of the inputs of `MCText` |

Definitions marked `Mutant` in a module are wrong versions of the definition
after them, kept to show that the properties notice; `PROJECT.json` pairs each
with the property it breaks. No specification uses them.

### MailStore

| Variable | In the code |
|---|---|
| `keydir[d]` | row of `keydir.mail_device_keys`; its key is usable or malformed |
| `inboxes[p]` | number of inbox rows in `mail.folders` |
| `rowOwner[m]` | `principal_id` of the row of `m` in `mail.messages` and, in the same transaction and cascade, of its row in `mail.blobs` |
| `envelopes[m]` | devices with a row in `mail.envelopes` |
| `hold[m]` | row in `mail.hold_queue`; `"due"` once `expires_at` has passed |
| `blobs`, `doomed` | files of the blob store; files a committed purge still has to delete |
| `delivery[s]` | `deliver_to_recipients`: recipients left, devices read, message being written, messages stored, failures, reply |
| `sweep` | `hold_release_sweep_loop` and `release_held_messages_for_principal`: principals left, devices and messages listed |
| `reader[r]` | `fetch_message_for_device` between its three reads |
| `issued`, `lapsed`, `erased`, `faults` | ids drawn; history of expired and of purged messages; errors so far |

A delivery is `StartData`, then per recipient `FindNoDevice` or `WrapForDevices`
(the directory is read), `CountHeld` when held, `FindInbox`/`CreateInbox`,
`WriteBody` (transaction open, file written), `CommitInbound` or `CommitHeld`, and
at the end `Reply`. `RecipientFails` is an error of any of these calls;
`CommitSeen` also has the commit take effect while its answer is lost. The sweep
is `SweepExpired`, `SweepPrincipals`, then `SweepDevices`, `SweepList` and one
`SweepRelease` (one transaction) or `SweepAborts` per message, with
`SweepFails` at any call. `RestartMxd` and `RestartMaild` drop everything in memory.
A database transaction that touches rows only is one step.

Abstractions: ciphertext is left out and a key is only usable or malformed; the
seed of the hold key is the same in all runs of mxd, as its configuration; the
filter of recipients unknown to the IAM is left out (it only shortens the list);
there is one mxd process.

### UidRegistry

`cache` is the entry of the mailbox in `UidRegistry.cache`, `disk` the JSON file,
`clock` the seconds `fresh_validity` reads. `Resolve` is `resolve` (under its
mutex, one step) with a successful `persist`; `ResolveUnsaved` cannot open the file,
`ResolveTorn` truncates it and fails, `CrashInPersist` stops between the two,
`ResolveUnread` cannot read it at first use, `FileDamaged` loses it or makes its
counter too small, `Restart` empties the memory. `served` records what clients were
told, `unsaved` the part of it whose write failed and left an older file.

Assumptions: a restart takes at least one second and the clock does not go back
(`RestartTime > 0`). `fresh_validity` has second granularity, and its comment says
it is strictly greater than any earlier value; two fresh states in one second
would share a UIDVALIDITY. A file is never replaced by an older coherent one.

### ImapMailbox

`catalogue` and `flags` are rows of `mail.messages` of the account. `session[s]` is
the `Session` of a connection, with the command in progress: after `List` it holds
the answer of diamy-maild (`list`), and `Reply` resolves UIDs, sorts, replaces the
box and answers, so that other sessions can act between the two. `BeginExpunge`
computes the messages to remove, `ExpungeOne` is one `/state/delete`,
`EndExpunge` updates the box and sends the lines. `view[s]` is what the client at
the other end knows: the message it has seen under each number. It follows
RFC 3501: on `EXISTS n` it fetches the numbers it does not know, on `n EXPUNGE` it
removes one. `marked` and `purged` are history.

Abstractions: one account; a STORE names one message (a set of numbers is a
sequence of such steps, and its lines change no state); FETCH changes nothing in
the bridge and is how a client learns a number; a failed `List` or an unknown
command changes nothing; `CLOSE` does nothing in the code, and is left out for that
reason; a request of a client is answered before it sends the next one.
`Arrive` may insert a message anywhere in the catalogue: its order is `received_at`,
the start of a transaction that commits later.

### StateSync

| Variable | In the code |
|---|---|
| `rows`, `flags` | rows of `mail.messages` and their `state_flags` (`read`, `deleted`) |
| `lock[m]` | the transaction that holds the row since `SELECT ... FOR UPDATE` |
| `journal`, `nextSeq` | committed rows of `mail.journal`; its identity column, drawn at the INSERT, visible at the COMMIT, never given back |
| `idem[k]` | `seq` in the row of `k` in `mail.idempotency_keys` |
| `h[a]` | a handler `state_flags` or `state_delete` in progress: where it is, its key, its `seq` |
| `body[k]` | the request a client makes under `k`, the same at each attempt |
| `answered`, `overlapped` | history: sequences told to clients; keys that two handlers had together |

`Send` starts a handler. `Replay` and `FirstTime` are the two outcomes of
`already_applied`. `Lock`, `JournalAppend` and `Commit` are the transaction of
`apply_state_flags` or `purge_message`, `NotFound` its 404. `RecordIdempotency` is
the statement after it, and the answer. `StatementFails` is an error at any of them,
with the rollback (404 inside the transaction, 500 outside: the code maps them so);
`Crash` is a restart of maild.

Abstractions: one mailbox, and a request always carries a key (without one, the
first and the last step are skipped); the deletion of the file after the commit of a purge
is in `MailStore`; the row is locked before it is read, as in the code, and the purge
deletes it in the same step as it becomes visible.

### SmtpReception

| Variable | In the code |
|---|---|
| `phase`, `mode` | which of the two `run_command_loop` of `handle_connection` runs, or the handshake between them; whether it reads commands, reads a text or delivers it |
| `session` | `Session`: sender and recipients |
| `body` | `read_data_bounded`: what it kept, and `too_large` |
| `job` | `deliver_to_recipients`: next recipient, `delivered`, `failed` |
| `store` | copies delivered |
| `wire`, `acks`, `open` | lines and answers on their way, the peer's end of the connection |
| `peer` | what the peer believes: commands without an answer yet, sender, recipients, layer |
| `messages`, `verdict` | history: text sent under each MAIL, answer its DATA got |

Each branch of `run_command_loop` is an action (`Aside`, `StartTls`, `MailFrom`, `RcptTo`, `Data`,
`Rset`, `Quit`, `Eof`) that takes the head of `wire` and appends its answer to `acks`. DATA is
`TextLine` for each line, then `TooLarge`, or `Body` with `Deliver` or `DeliverFails` per recipient
and `Delivered`. `Handshake` is `into_inner` and the second loop, with a session of its own.
The peer follows RFC 5321: it may send `MaxAhead` commands ahead of their answers, but waits after
DATA, and `Learn` is what each answer tells it. An error of the storage may come after the commit took
effect (`tx.commit().await?` in `store_inbound_message` and `store_held_message`): `DeliverFails` may leave
a copy, whose field `answered` is then `FALSE`. `Disconnect` loses any end of what was on the wire.
Each line carries the layer it was sent in and each message the MAIL it belongs to, so that
properties can tell what came from where.

Abstractions: a text is a number of lines and the bound on its bytes a bound on lines (bytes are
in `MailText`); delivery to one recipient is one step (its calls are in `MailStore`); the verdicts of MIME parsing in the metadata and the metrics are left out.

### Submission

`bridge[s]` is `SmtpSession` and where its loop stands, `client[s]` whether the mail client is still
there, `handler[s]` `submit_handler` with the stage of `relay_via_smtp` (`connect`, `banner`, `ehlo`,
`mail`, `rcpt`, `data`, `text`, `final`, `quit`), `expired` the token of the bridge. `copies`, `cut`,
`told`, `doubt` and `barred` are history: what each DATA made and what its client was told.

A DATA is read (`TextRead`, or `TextCut` when its client left), refused by the middleware
(`Unauthorized`), by axum (`BodyTooLarge`), or accepted; each recipient is routed (`Route`,
`RejectExternal`) and relayed (`Exchange` for each command, `RcptRefused`, `MxdStores`, `FinalRead`,
`Quit`), and `Respond` answers. Faults are `MxdFails` (451), `RelayLost` at any stage, `HttpLost`
and `Stop`; `Dropped` is what they leave at diamy-mxd: in the middle of a text it may store what it has.
`SmtpReception` shows that diamy-mxd behaves as `MxdStores`, `MxdFails` and `Dropped` say: a 451 may
hide a copy whose commit was not answered, and puts the attempt in doubt.

`SubmitPromise` is the abstract specification, with `copies`, `told` and `doubt` only: one answer per
attempt, at most one copy per recipient named, success only of a message somebody has, an
error of a message somebody has only after a fault, nothing delivered after a final answer.
The refinement mapping is the identity on these three.

Abstractions: a command answered by an error only changes nothing and is not an action; the text is a
size against the three bounds it meets; the external relay is off, as in every deployment the
repository describes (`DIAMY_SUBMITD_ALLOW_EXTERNAL_RELAY`).

### Text modules

These are functions, without state of their own: `MCText` builds every input up to a bound and evaluates
the properties on each. `MailText` has the writer of diamy-submitd (`Wire`) and the reader of diamy-mxd
and the bridge (`ReadText`), on characters. `Address` has `Canon` with its steps in the order of the
code, and the recipient as each hop reads it (`BridgeRecipient`, `SubmitdDomain`, `RelayedRecipient`,
`Resolves`). `ImapText` has `read_command` (`Answers`: the answers a client gets to one command with its
literals), `tokenize_args` (`Tokens`) and `imap_quote` (`Quoted`), `parse_number_set` (`NumberSet`) with the
rows `cmd_fetch` answers (`Fetched`), `parse_fetch_items` with the attributes of the answer, and the
conversion of dates. The loops over lines, characters and parts are functions of the position reached,
whose step is an operator of its own (`NextMark`, `AfterLiteral`, `NextChar`, `AddPart`).

Abstractions: one character stands for its class ("a" and "A" letters, "ZW" an invisible character); in
item lists a word is one character; a mailbox is the list of its UIDs.

## 3. Runs

Every passing run explores its whole state space.

| Run | Instance | Shows |
|---|---|---|
| `MailStoreHold` | 2 SMTP sessions, 3 messages, 1 device (usable or malformed key), 1 fault, hold bound 1 | `NothingLost`, `KeysFollowTheMail` (`HeldXorReleased` and `PurgeIsComplete`), `BodyOnDisk`, `RacesAreBounded` (`HoldQueueBound` and `InboxBound`), `TypeOK` |
| `MailStoreRcpts` | 2 principals with a device each, up to 2 recipients, 1 fault | `EnvelopesStayHome`, `ReplyIsDurable`, and the refinement `KeepsPromise` |
| `MailStoreRelease` | 2 messages, 1 device, 1 session, hold bound 2 (a sweep may stop between two messages), 1 reader, 1 fault, fairness | `HeldMailIsReleased` (liveness), `MissingFileMeansPurged` |
| `UidRegistry` | 4 messages, 3 UIDs, lists of up to 2, 1 fault, 2 restarts | `UidNamesOneMessage`, `MessageKeepsUid`, `ValidityIsStable`, `TypeOK` |
| `ImapShared` | 2 sessions, 2 messages, 1 fault | `UidsAgree` (with `UidsIncrease`), `PurgedWasMarked`, `ExpungeKeepsStep` |
| `ImapAlone` | 1 session, 3 messages, both flags, 1 fault, 1 restart | while no call failed: `CopyIsServer`, `NumbersAgree`; always `TypeOK` |
| `UidReassigned` | 1 failed write, 1 restart | violated: `UidNeverReassigned` |
| `ImapExpunge` | 2 sessions: a delete is refused because the other session purged the message | violated: `ExpungeNumbersAreRight` |
| `StateSync` | 2 messages, 2 keys, 2 handlers, 4 attempts, 2 faults, fairness | `FieldsAreLastWriter`, `PurgeIsLastEntry`, `AnswersAreJournaled`, `MessageEntriesInOrder`, `AppliedOnceWithoutFault`, `AttemptsEnd` (liveness), `TypeOK` |
| `SmtpReception` | a mailbox, an unknown and an invalid address, 2 recipients, texts of 2 lines with a bound of 1, 2 MAIL, 2 other commands, 2 sent ahead, 1 fault, fairness | `ViewsAgree` (with `AnswersInOrder`), `CopiesAreAsSent` (with `NothingCrossesStartTls`), `VerdictIsTrue`, `NoPeerWaitsForEver` (liveness), `TypeOK` |
| `Submission` | 1 session that may reconnect, 4 kinds of recipients, 2 recipients, 2 attempts, 1 fault, fairness | `FaultlessAnswersAreExact`, the refinement `KeepsSubmitPromise`, `SubmissionsEnd` (liveness), `TypeOK` |
| `TextAlgorithms` | every input of 4 to 7 characters, lines or parts over alphabets of 4 to 30, bounds of the same order; years 2024 to 2101 | `TextsAreRead`; `AddressesAreKept` (canonical forms, recipients, spellings of a mailbox); `CommandsAreAnswered` (answers, literals, sets of numbers); `ItemsAreAnswered` (items and dates of FETCH) |

**Bounds and why they are enough.** `Messages` is the pool of ids (`WriteBody` never
draws one twice, so its size also bounds the number of deliveries): two suffice for
every pairwise interaction, three for a queue that overflows its bound of one while
two sessions are past the check. `MaxFaults = 1` puts one error or crash at every
possible point; the proofs have no such bound. `MaxRcpts = 2` is the smallest
partial failure. `Window` stands for the 50 rows of `list_messages`: larger than the
pool, because in a full window numbers shift (section 4). `MaxUid` stands for `u32::MAX`;
with 3 the counter saturates and the last UID is shared. `MaxClock` bounds restarts.
`MaxSends = 4` over two keys lets each request be sent again, before or after the
first attempt ends; two handlers are enough for two transactions on one row.
In `SmtpReception`, two MAIL let a transaction follow another, on either side of STARTTLS, and two
commands ahead put a refusal before a command that depends on it; one line of text too many is a
text too large. In `Submission` the four addresses are the four ways a recipient can go: served,
unknown to diamy-mxd, refused by diamy-submitd only, refused by the bridge; two recipients are the
smallest partial acceptance, two attempts a retry. In `TextAlgorithms` the bounds of the code (line,
text, address, literals, set) are constants small enough for inputs on both sides of each.
Symmetry is used on ids that no property orders, and not in the liveness runs.

**Fairness.** In `MailStore`, only `WF_vars(SweepStep)`: the sweep is a tokio task driven
by a ticker of five seconds that waits for nobody; its calls, when they do not fail,
return. In `StateSync`, `WF_vars(Handler(a))` for each handler: the runtime polls every task,
and PostgreSQL gives a row to a waiter once its holder has ended. Weak fairness is enough
because only one other handler can hold the row. In `SmtpReception`, `WF_vars(Serve)`, the task of the
connection, and `WF_vars(Receive)`, a peer that reads what it is sent. In `Submission`,
`WF_vars(Handle(s))`: the handler runs and diamy-mxd answers each command, which
`NoPeerWaitsForEver` shows of it; neither hop has a timeout, so that a connection that stays open and
silent is outside of `SubmissionsEnd`. Nothing is assumed of clients, devices, owners or faults.

**Deadlock** is checked in every run but `StateSync`, `SmtpReception` and `Submission`, where a finite
number of requests or commands is sent and the system rests when all are answered (their liveness
properties say that it does not rest before), and `TextAlgorithms`, whose inputs stop at a length.

## 4. Where the code departs from its documentation

Two of these are runs above that TLC refutes, with their quotes in `PROJECT.json`.

- A failed write of the registry followed by a restart gives a UID to a second message
  under the same UIDVALIDITY (`UidReassigned`).
- A delete that fails inside EXPUNGE makes the later numbers wrong, because the
  correction counts the failed ones too (`ImapExpunge`).

Others are visible in the models without a run of their own, most of them as the exception a
property names.

- `purge_expired_holds` deletes the hold row and leaves a message that is listed and
  that nobody can ever read.
- In a mailbox of 50 messages or more, NOOP announces no arrival, and numbers shift
  under the client: `NumbersAgree` fails with `Window` smaller than the pool.
- When the statement that records an idempotency key fails, the change is committed and
  the retry of the client applies it again, without any concurrency; `AppliedOnceWithoutFault`
  is what remains.
- The hold queue exceeds `MAX_HELD_PER_PRINCIPAL` by as many sessions as pass the check
  together, less one: that is exactly what `HoldQueueBound` states.
- An error of the commit counts as a failed recipient, even when the commit took effect and only its
  answer was lost (`diamy-mxd/src/main.rs:766`): the sender is told 451, or "partiellement", of a message
  that is in the mailbox, and sending it again makes a second copy. `VerdictIsTrue` states the exception,
  at most one such copy per fault.
- A device published while its owner's held mail is being released gets no key for what is released: the
  devices were read before (`diamy-mail-storage/src/lib.rs:976`), and the hold row goes away.
- `ensure_inbox_folder` selects, then inserts: first deliveries at once make an inbox each
  (`InboxBound`, one per session at most, with `HoldQueueBound` in `RacesAreBounded`).
- EXPUNGE in one session removes a message that another session has un-deleted since:
  `CopyIsServer` holds for one session only, `PurgedWasMarked` is what remains with two.
- One malformed key among the devices of a principal stops the release of all its
  held mail, for every device (`diamy-mail-storage/src/lib.rs:1001-1005`). `HeldMailIsReleased`
  therefore asks that all keys stay usable.
- `STORE FLAGS (\Deleted)` tells the client that `\Seen` is cleared and does not clear it on
  the server (`diamy-bridged/src/main.rs:1518`): `CopyIsServer` fails once
  `StoreModes` has `"set"`, which `ImapAlone` leaves out.
- Entries of two messages can become visible against the order of their sequences, so
  that a reader who keeps the highest sequence it saw as its cursor misses one.
  `MessageEntriesInOrder` is stated for each message.
- A write of QUIT that fails after diamy-mxd accepted the text is reported as a transient failure
  (`diamy-submitd/src/relay.rs:105`): the recipient has the message and the client is told 550 or
  250 depending on the other recipients. `KeepsSubmitPromise` allows an error of a stored
  message after a fault for this reason.
- When every recipient failed, be it for a passing reason, the client is told 550, a permanent refusal
  (`diamy-bridged/src/main.rs:2004-2030`); 451 is only told when diamy-submitd gave no usable answer.
- `axum::Json` refuses a body of more than 2 MB before `MAX_MESSAGE_BYTES` is looked at: a text
  the bridge accepted is then answered 451, at every retry (`BodyTooLarge`).
- The bridge tests the domain behind the last `@` of a recipient and diamy-submitd behind the first
  one: `"a@b"@w3.tel` is accepted at RCPT TO and refused after DATA.
- A text cut by a lost connection is stored by diamy-mxd, and submitted by the bridge, as if the
  dot had come (`CopiesAreAsSent` names the exception).
- `imap_quote` escapes quotes and backslashes and `tokenize_args` does not read escapes: a password
  with a quote sent as a literal is read as two arguments (`LiteralsArrive`).
- A command with eight literals is refused, `MAX_LITERALS_PER_COMMAND` being the number of lines,
  and the line behind the last literal is read as a command (`EachCommandIsAnsweredOnce`).
- `*:4` in a set is read as `1:4`, where RFC 3501 has it mean `4:*`; and a set stops at
  `MAX_SET_EXPANSION` numbers, those of no message included (`FetchAnswersTheDesignated`).
- An address whose local part has nothing but invisible characters canonicalises to an empty local
  part, which is not its own canonical form; and when an invisible character stands behind a backslash
  inside quotes, taking it away leaves a backslash that hides the closing quote, so that the canonical
  form of `"\<ZWSP>"@a` is not an address at all (`strip_format_chars` after `split_local_and_domain`;
  `CanonIsStable` excepts both).

## 5. Proofs

The proofs have no bound on messages, principals, devices, sessions, faults, UIDs or
restarts. They use the ASSUMEs of the modules, which TLC evaluates on each instance.

**`MailStore_proofs`**. The invariants of the runs are not inductive one by one:
`BodyOnDisk` needs that a message about to be committed already has its file and
that no committed purge deletes the file of a catalogued message; `EnvelopesStayHome`
that the devices a session or the sweep has read belong to the principal it works
for; `MissingFileMeansPurged` that a fetch past its first read concerns a message
that is catalogued or erased. `IInv` is `TypeOK` with what holds of sessions
(`DeliveryInv`, `OpeningsDiffer`: two sessions never have a transaction open on the same
message, `ReplyInv`) and of the rest (`CatalogueInv`: ids are drawn before they are
catalogued and erased messages stay away, `SweepInv`, `ReaderInv`), together with the
properties themselves. One lemma per action or group of actions, joined by
`NextKeepsInv`.

*Bounds.* `Holding(p)` is the set of sessions past the check for `p`
with their message not yet stored. `QueueInv` says
`|HeldFor(p)| + |Holding(p)| <= MaxHeld + |Sessions| - 1`: the session that passes the
check finds fewer than `MaxHeld` rows and at most all sessions are then past it; a
commit moves one unit from one summand to the other, and everything else shrinks them.
The argument for inboxes is of the same form: the inboxes a principal has and the sessions that found
none and are about to make one are never more than the sessions there are, because a session that
finds none finds zero.

*Refinement.* Under the refinement mapping `Fate`, every step of
`MailStore` moves each message along `MayBecome` or leaves it. `IInv` supplies that
an id being committed is not yet catalogued and that a rolled back one stays gone.

**`UidRegistry_proofs`**. A UID told to a client must stay where it is in memory and in
any file that a restart may load. `IInv` says that the state in memory knows
every pair served under its UIDVALIDITY that is not `unsaved` (`Knows`), that a
loadable file knows them too and misses nothing of memory but `unsaved` pairs
(`Lags`), that UIDs are below the counter and have one owner short of saturation
(`Below`, `OneOwner`), and that every UIDVALIDITY in use is in the past when a fresh
one may be drawn (`Past`). The arithmetic is in `AssignFacts`: new messages get the
counter plus their rank among the new ones (`RankInNew`, `RankGrows`,
`NewAreOrdered`), hence different UIDs between the old counter and the new one.

`ValidityIsStable` has an invariant of its own, `StableInv`: while nothing went wrong and
the last UID is not reached, everything served was served under the UIDVALIDITY in
force, and the file, if one was written, loads and equals the memory it came from.
`Counted` (UIDs given out are above 0 and the counter is at most their number plus one)
and `ResolveCounts` say when a counter cannot saturate; `ImapMailbox_proofs` needs them.

**`StateSync_proofs`**. `FieldsAreLastWriter` needs that the entry being committed has a
higher sequence than every entry of its message, which holds because a sequence is
drawn under the lock of the row. `IInv` adds `LockInv` (a handler between `Lock` and
`Commit` holds the row of its message, which exists, and nobody else holds it),
`SeqInv` (every sequence in use is below `nextSeq`, two handlers and the journal
never share one, and a handler's sequence is above the entries of its message)
and `RecordInv` (a handler about to record has its entry in the journal). One
lemma per conjunct. `MessageEntriesInOrder` is an action property from the same invariant.
`AppliedOnceWithoutFault` is proved from `OnceInv`, which says where the one entry of a key
is at each moment: not written, in the hands of the only handler of the key, or in
the journal with its record.

**`Submission_proofs`**. A relay works through the recipients of one attempt, and an answer
sums up what happened to each, so `IInv` says where each handler stands: `Own` and `Before`
(its list is that of its attempt, and the recipients before its position have a result that
agrees with the copies made), `Turn` (the one being relayed has at most a copy in doubt, and
only after a fault), `Place` (no result for those behind it), `TriesDiffer` and `Future` (two
handlers never work on one attempt, and no copy belongs to an attempt still to come), `Once` and
`Exact` (no second copy; with no fault, copies and results are the same). `Alone` says that a step
touches the attempt of one session, which leaves one case per action.
`Refinement` shows under the identity mapping that each step is a step of `SubmitPromise`, which
admits an error of a stored message only after a fault, or a stutter.

**`SmtpReception_proofs`**. `ViewsAgree` only speaks of moments without answers on their way, and
is not inductive. `DialogueInv` says what the peer will believe after each answer in the queue
(`WireInv`, `ViewInv`): each of these views is that of a peer which would have waited for
that answer, and the last one is the session of diamy-mxd (`SessionInv`); `WritingInv` relates what
the peer is still sending to the text the server expects. It also bounds the recipients and the text,
and so proves the types. The
copies and the verdicts need `MessageInv` on top, one conjunct per place a text can be in: on the wire
(`TextInv`), in the body, in the job (`JobInv`), in the store (`StoreInv`), and in the verdicts not
yet read (`VerdictInv`), which say of each copy whether mxd knows of it: it counts those whose commit was
answered. `LossInv` bounds the others by the faults, on its own; `FreshInv` and `LeftInv` say that a MAIL not yet served has none of these, and `LayerInv`
that nothing from before STARTTLS is among them.

**`ImapMailbox_proofs`**. The invariant of the registry is used through
`R == INSTANCE UidRegistry_proofs`, whose theorems then hold of the registry inside.

- `IInv` says that what a session holds and what its client knows carry the UIDs the registry gave
  (`Attached`), that a box is sorted by UID (`Sorted`), and that what is shown as deleted was
  marked (`DeletedIn`, `MarkInv`), however old the box is: `PurgedWasMarked` is the last one. Rows that
  share the last UID stay in the order of the list, as the stable sort of the code leaves them.
- `ExpungeKeepsStep` relates many lines at once. The client removes in ascending order, with numbers
  corrected by those removed before; the session removes from its box in descending order, with the
  numbers it had. `IsRest` gives what remains after any number of removals in closed form, and
  both are shown to be it.
- `CopyIsServer` follows from `CopyInv` (a pending list and the box have the flags of the server), for one
  session and no `STORE FLAGS`, without which it is false (section 4).
- `NumbersAgree` needs `NumberedInv`, by which the counter of the registry cannot saturate when there are
  more UIDs than messages, and `AgreeInv`: the client knows the box, row by row, what left the catalogue
  since is what the session removed, and what arrived since has, or will get, higher UIDs than the box,
  so that it sorts behind it. Both bounds come in there: in a window with room nothing drops out of the
  list, and with UIDs to spare a new message does not share one.
  The hypotheses are those of the run `ImapAlone`, for every size: one session,
  `Cardinality(Messages) <= Window`, `Cardinality(Messages) < MaxUid`.

**`MailText_proofs`**. A text is read whole whatever it is, over any alphabet and for any bounds that
`BoundsAssumption` admits (a line holds the two characters of the final dot). A text is a line, or a
shorter text, a line feed and a line: every fact about texts is proved along this, on the set of
texts that have it. `SplitJoin` says that the last line adds one piece; `WrittenJoin` that
`dot_stuff_for_wire` then adds one line of the wire; `WireLineRead` that diamy-mxd reads in such a line
what was written, and never the end of the text. The total size is followed along the way, so that a
text is refused exactly when it, or a line of it, is too large. The second theorem puts the
reader of the bridge in front.

**`MCText_proofs`** turns this into the properties of the run: an input, at each moment, is a sequence
over the alphabet of its kind (`AlphabetAssumption` relates that of commands and sets to the
model), and the rest is about every such sequence.

- The loops of `ImapText` are recursive functions; `Recursion` states what such a function is at each
  position, and every loop has its invariant over positions.
- A command: before the first literal that does not fit nothing is answered, and after it exactly
  one answer is left to come (`AnsweringFacts`, `CommandsAreAnsweredOnce`), for any `MaxLiterals` above 0.
- A set of numbers: as long as the bound is not reached, what `parse_number_set` pushed is every number
  of every part up to the highest (`NumberSetFacts`), and on a mailbox sorted by UID a part has the
  numbers it designates (`PartFacts`): `FetchesAnswerTheDesignated`, for every mailbox.
- Literals: without a quote or a backslash, the scanner is back between two tokens after each
  literal, with that literal as its last one (`LiteralsReadSoFar`). With one, the first such literal
  leaves a token that is not it (`LiteralSpoilt`), and no later character changes a token that is
  not the last (`KeptByText`), which gives the other direction.
- An address: the split of a text (`Scan`) depends on its quotes, backslashes and "@"s only
  (`ScanAlike`), and taking invisible characters away moves it with the text around it
  (`ScanStripped`), unless one stands behind a backslash in quotes: that is where the exception of
  `CanonIsStable` comes from. So the canonical form splits where it was joined (`CanonicalSplits`),
  and canonicalising it again changes nothing. Folding letters goes through every step of
  `diamy_addr_canon` (`FoldedTrim`, `FoldedAddrSpec`, `FoldedStripped`, `FoldedSplits`), which gives
  the spellings. The bridge looks for the domain behind the last "@": it is another one only if
  that "@" is quoted, and then a quote follows it (`LateMarkIsQuoted`).
  `AddressAssumption` says that the two bounds are numbers, and no more.

Looking for these proofs corrected two properties that the bounds of the run had let through: an
escaped invisible character (section 4, now `EscapesInvisible`), and what is asked of a client that ends
its lines properly (`SubmittedTextIsRead` now asks it of the lines before the final dot only). They
also removed a condition: `SpellingsFindOneMailbox` holds of addresses with invisible characters,
brackets and blanks too.

**Only model-checked**: liveness (`HeldMailIsReleased`, `AttemptsEnd`, `NoPeerWaitsForEver`,
`SubmissionsEnd`), which is out of the prover's reach, and `ItemsAreAnswered`: FETCH items are
picked with `SelectSeq` and `FoldLeft`, which the prover cannot expand, and the dates are about
the digits of numbers (`ToString`), of which it has no theory. Every other property of a passing run is
stated by a theorem. Where a proof needs an induction over numbers or texts, it is done on the set
of those that have the property, by the smallest number that is not in it.

## 6. Plan

In this order, most important behaviour first.

1. `MailStore` with `MailPromise`, the hold queue bound, their proofs: done.
2. `UidRegistry` and its proofs: done.
3. `ImapMailbox` and its proofs: done.
4. `StateSync` and its proofs: done.
5. `SmtpReception` and its proofs: done.
6. `Submission` with `SubmitPromise`, and the proof of the refinement: done.
7. Text algorithms, and the proofs about texts, addresses and commands: done.
8. Left to prove: what `CopyIsServer` leaves with two sessions (a copy is what some earlier moment of
   the server was).

## 7. How to check

`tlc -config X.cfg M` with the pairs of `PROJECT.json`; `tlapm M.tla` for the eight modules
named `_proofs`. The longest run takes about three minutes with two workers, the longest proof
(`SmtpReception_proofs`) about six.

## 8. Not modelled

- cryptography, MIME parsing, HTML rendering: stateless functions on bytes, whose properties are those
  of the libraries they call. `MailStore` has what the store sees of cryptography: a key is
  usable or malformed.
- device authentication of diamy-maild, signatures of tokens: a stateless check, for which
  `DeviceOwner` stands.
- addresses: display names, flags of suspicious addresses, letters outside ASCII, and the policies
  other than the default one, which the services use.
- the relay to external hosts, which no deployment in the repository turns on.
- IMAP LIST, CAPABILITY, the rendering of a message and of its envelope; the wording of answers, logging,
  metrics, examples, deployment.
