----------------------------- MODULE MailStore -----------------------------
(***************************************************************************)
(* The catalogue of diamy-mail: the Postgres tables mail.messages,         *)
(* mail.envelopes, mail.hold_queue and keydir.mail_device_keys, the        *)
(* directory of encrypted blobs beside them, and the actors that share     *)
(* them without a lock:                                                    *)
(*                                                                         *)
(*   - SMTP sessions of diamy-mxd that deliver one DATA to its recipients, *)
(*     one database call at a time (deliver_to_recipients, hold_recipient);*)
(*   - the hold-queue sweep of diamy-mxd (hold_release_sweep_loop);        *)
(*   - diamy-maild, which purges a message (purge_message) and serves it   *)
(*     to a device (fetch_message_for_device);                             *)
(*   - devices that publish their key (publish_device_bundle).             *)
(*                                                                         *)
(* A database transaction that touches only rows is one step; the calls    *)
(* and the file operations around it are steps of their own, and a crash   *)
(* can come between any two of them. A delivered body is not modelled: a   *)
(* message stands for its row in mail.messages and in mail.blobs, which    *)
(* one transaction inserts and ON DELETE CASCADE removes together.         *)
(***************************************************************************)
EXTENDS Naturals, Sequences, FiniteSets

CONSTANTS
    Principals,     \* mailboxes known to the IAM directory
    Devices,        \* device ids
    DeviceOwner,    \* the principal each device belongs to
    Messages,       \* pool of message ids (bound: UUIDv7 never run out)
    Sessions,       \* concurrent SMTP sessions of diamy-mxd
    Readers,        \* concurrent GET requests on diamy-maild
    PublishedKeys,  \* kinds of keys devices publish, within KeyKinds
    MaxHeld,        \* MAX_HELD_PER_PRINCIPAL
    MaxRcpts,       \* bound on the recipients of one DATA (50 in the code)
    MaxFaults,      \* bound on database or I/O errors and on crashes
    None            \* no owner, no message, no device

KeyKinds == {"usable", "malformed"}

ASSUME OwnerAssumption == DeviceOwner \in [Devices -> Principals]
ASSUME KeysAssumption == PublishedKeys \subseteq KeyKinds
ASSUME BoundsAssumption == MaxHeld \in Nat /\ MaxRcpts \in Nat /\ MaxFaults \in Nat
ASSUME NoneAssumption == None \notin Principals \cup Messages \cup Devices
ASSUME FiniteAssumption ==
    IsFiniteSet(Messages) /\ IsFiniteSet(Sessions) /\ Sessions # {}

VARIABLES
    keydir,     \* keydir[d]: the key published for device d, "none" before
    inboxes,    \* inboxes[p]: number of inbox rows of p in mail.folders
    rowOwner,   \* rowOwner[m]: owner of the committed mail.messages row of m
    envelopes,  \* envelopes[m]: devices with a row in mail.envelopes for m
    hold,       \* hold[m]: hold_queue row of m; "due" once past expires_at
    blobs,      \* messages whose encrypted body is a file of the blob store
    issued,     \* message ids drawn so far
    delivery,   \* delivery[s]: progress of SMTP session s through one DATA
    sweep,      \* progress of the hold-queue sweep
    doomed,     \* files that committed purges have yet to delete
    reader,     \* reader[r]: progress of one fetch
    faults,     \* errors and crashes so far
    lapsed,     \* history: messages whose hold row the sweep purged
    erased      \* history: messages purged by their owner

storeVars == <<rowOwner, envelopes, hold, lapsed, erased>>
vars == <<keydir, inboxes, rowOwner, envelopes, hold, blobs, issued, delivery,
          sweep, doomed, reader, faults, lapsed, erased>>

----------------------------------------------------------------------------
(* Queries *)

\* Mutant: the query forgets the principal.
ActiveDevicesOfAnyone(p) == {d \in Devices : keydir[d] # "none"}

\* SELECT ... FROM keydir.mail_device_keys WHERE validity_state = 'active'
ActiveDevices(p) ==
    {d \in Devices : DeviceOwner[d] = p /\ keydir[d] # "none"}

\* SELECT ... FROM mail.hold_queue WHERE principal_id = p
HeldFor(p) == {m \in Messages : rowOwner[m] = p /\ hold[m] # "none"}

\* wrap_key_for_device fails on a key that is not an ML-KEM-768 key
Wrappable(ds) == {d \in ds : keydir[d] = "usable"}

\* An error of the database or of the blob store, or a crash.
Fault == faults < MaxFaults /\ faults' = faults + 1

----------------------------------------------------------------------------
(* SMTP deliveries (diamy-mxd) *)

IdleDelivery ==
    [at |-> "idle", todo |-> <<>>, devs |-> {}, msg |-> None,
     stored |-> {}, failed |-> 0, reply |-> "none"]

\* The recipient at the head of todo is done, stored as m or failed.
Served(job, m) ==
    [job EXCEPT !.at = "directory", !.todo = Tail(@), !.devs = {},
                !.msg = None, !.stored = @ \cup {m}]
Refused(job) ==
    [job EXCEPT !.at = "directory", !.todo = Tail(@), !.devs = {},
                !.msg = None, !.failed = @ + 1]

Recipient(s) == Head(delivery[s].todo)

\* DATA was read: the loop over the recipients of the session begins.
StartData(s, rcpts) ==
    /\ delivery[s].at = "idle"
    /\ delivery' = [delivery EXCEPT
                      ![s] = [IdleDelivery EXCEPT !.at = "directory", !.todo = rcpts]]
    /\ UNCHANGED <<keydir, inboxes, storeVars, blobs, issued, sweep, doomed,
                   reader, faults>>

\* active_device_keys returned no device: the message is to be held.
FindNoDevice(s) ==
    /\ delivery[s].at = "directory" /\ delivery[s].todo # <<>>
    /\ ActiveDevices(Recipient(s)) = {}
    /\ delivery' = [delivery EXCEPT ![s].at = "count"]
    /\ UNCHANGED <<keydir, inboxes, storeVars, blobs, issued, sweep, doomed,
                   reader, faults>>

\* k_msg is wrapped for each active device; a key that cannot be used is
\* skipped, and the recipient fails only when none is left.
WrapForDevices(s) ==
    LET active == ActiveDevices(Recipient(s)) IN
    /\ delivery[s].at = "directory" /\ delivery[s].todo # <<>>
    /\ active # {}
    /\ delivery' = [delivery EXCEPT ![s] =
                      IF Wrappable(active) = {} THEN Refused(@)
                      ELSE [@ EXCEPT !.at = "folder", !.devs = Wrappable(active)]]
    /\ UNCHANGED <<keydir, inboxes, storeVars, blobs, issued, sweep, doomed,
                   reader, faults>>

\* Mutant: > for >=.
CountHeldOffByOne(s) ==
    /\ delivery[s].at = "count"
    /\ delivery' = [delivery EXCEPT ![s] =
                      IF Cardinality(HeldFor(Recipient(s))) > MaxHeld THEN Refused(@)
                      ELSE [@ EXCEPT !.at = "folder"]]
    /\ UNCHANGED <<keydir, inboxes, storeVars, blobs, issued, sweep, doomed,
                   reader, faults>>

\* count_held_for_principal is compared with the bound; the row itself is
\* inserted several steps later.
CountHeld(s) ==
    /\ delivery[s].at = "count"
    /\ delivery' = [delivery EXCEPT ![s] =
                      IF Cardinality(HeldFor(Recipient(s))) >= MaxHeld THEN Refused(@)
                      ELSE [@ EXCEPT !.at = "folder"]]
    /\ UNCHANGED <<keydir, inboxes, storeVars, blobs, issued, sweep, doomed,
                   reader, faults>>

\* ensure_inbox_folder, its SELECT then its INSERT.
FindInbox(s) ==
    /\ delivery[s].at = "folder"
    /\ delivery' = [delivery EXCEPT ![s].at =
                      IF inboxes[Recipient(s)] > 0 THEN "store" ELSE "mkfolder"]
    /\ UNCHANGED <<keydir, inboxes, storeVars, blobs, issued, sweep, doomed,
                   reader, faults>>
CreateInbox(s) ==
    /\ delivery[s].at = "mkfolder"
    /\ inboxes' = [inboxes EXCEPT ![Recipient(s)] = @ + 1]
    /\ delivery' = [delivery EXCEPT ![s].at = "store"]
    /\ UNCHANGED <<keydir, storeVars, blobs, issued, sweep, doomed, reader, faults>>

\* Mutant: the recipient counts as delivered once its body is written.
WriteBodyCountedEarly(s, m) ==
    /\ delivery[s].at = "store"
    /\ m \notin issued
    /\ issued' = issued \cup {m}
    /\ blobs' = blobs \cup {m}
    /\ delivery' = [delivery EXCEPT ![s] = Served(@, m)]
    /\ UNCHANGED <<keydir, inboxes, storeVars, sweep, doomed, reader, faults>>

\* Mutant: a message id may be drawn again once its row is gone.
WriteBodyReusedId(s, m) ==
    /\ delivery[s].at = "store"
    /\ rowOwner[m] = None /\ \A t \in Sessions : delivery[t].msg # m
    /\ issued' = issued \cup {m}
    /\ blobs' = blobs \cup {m}
    /\ delivery' = [delivery EXCEPT ![s].at = "commit", ![s].msg = m]
    /\ UNCHANGED <<keydir, inboxes, storeVars, sweep, doomed, reader, faults>>

\* The transaction is open and the body file is written inside it, before
\* anything commits: insert_message_and_body.
WriteBody(s, m) ==
    /\ delivery[s].at = "store"
    /\ m \notin issued
    /\ issued' = issued \cup {m}
    /\ blobs' = blobs \cup {m}
    /\ delivery' = [delivery EXCEPT ![s].at = "commit", ![s].msg = m]
    /\ UNCHANGED <<keydir, inboxes, storeVars, sweep, doomed, reader, faults>>

\* The commit is acknowledged, or it took effect and its answer was lost.
CommitSeen(s) ==
    \/ /\ delivery' = [delivery EXCEPT ![s] = Served(@, delivery[s].msg)]
       /\ UNCHANGED faults
    \/ /\ Fault
       /\ delivery' = [delivery EXCEPT ![s] = Refused(@)]

\* Mutant: the envelopes are keyed by the principal, not by the device.
CommitInboundSwappedIds(s) ==
    LET job == delivery[s] IN
    /\ job.at = "commit" /\ job.devs # {}
    /\ rowOwner' = [rowOwner EXCEPT ![job.msg] = Recipient(s)]
    /\ envelopes' = [envelopes EXCEPT ![job.msg] = {Recipient(s)}]
    /\ CommitSeen(s)
    /\ UNCHANGED <<keydir, inboxes, hold, blobs, issued, sweep, doomed, reader,
                   lapsed, erased>>

\* store_inbound_message commits the row, the blob row and the envelopes.
CommitInbound(s) ==
    LET job == delivery[s] IN
    /\ job.at = "commit" /\ job.devs # {}
    /\ rowOwner' = [rowOwner EXCEPT ![job.msg] = Recipient(s)]
    /\ envelopes' = [envelopes EXCEPT ![job.msg] = job.devs]
    /\ CommitSeen(s)
    /\ UNCHANGED <<keydir, inboxes, hold, blobs, issued, sweep, doomed, reader,
                   lapsed, erased>>

\* store_held_message commits the row, the blob row and the hold row.
CommitHeld(s) ==
    LET job == delivery[s] IN
    /\ job.at = "commit" /\ job.devs = {}
    /\ rowOwner' = [rowOwner EXCEPT ![job.msg] = Recipient(s)]
    /\ hold' = [hold EXCEPT ![job.msg] = "held"]
    /\ CommitSeen(s)
    /\ UNCHANGED <<keydir, inboxes, envelopes, blobs, issued, sweep, doomed, reader,
                   lapsed, erased>>

\* Any call made for a recipient returns an error: its transaction, if one is
\* open, is rolled back, and the body file it wrote stays behind.
RecipientFails(s) ==
    /\ delivery[s].at # "idle" /\ delivery[s].todo # <<>>
    /\ Fault
    /\ delivery' = [delivery EXCEPT ![s] = Refused(@)]
    /\ UNCHANGED <<keydir, inboxes, storeVars, blobs, issued, sweep, doomed, reader>>

\* 250 when at least one recipient was stored, 451 when none was.
Reply(s) ==
    /\ delivery[s].at = "directory" /\ delivery[s].todo = <<>>
    /\ delivery' = [delivery EXCEPT ![s].at = "idle",
                      ![s].reply = IF delivery[s].stored # {} THEN "250" ELSE "451"]
    /\ UNCHANGED <<keydir, inboxes, storeVars, blobs, issued, sweep, doomed,
                   reader, faults>>

----------------------------------------------------------------------------
(* The hold-queue sweep (diamy-mxd), every five seconds *)

IdleSweep == [at |-> "idle", todo |-> {}, who |-> None, devs |-> {},
              sound |-> TRUE, items |-> {}]

\* The principal being released is left, done or not.
NextPrincipal == [IdleSweep EXCEPT !.at = "next", !.todo = sweep.todo \ {sweep.who}]

\* purge_expired_holds deletes the hold rows past their expiry, nothing else.
SweepExpired ==
    LET due == {m \in Messages : hold[m] = "due"} IN
    /\ sweep.at = "idle"
    /\ hold' = [m \in Messages |-> IF m \in due THEN "none" ELSE hold[m]]
    /\ lapsed' = lapsed \cup due
    /\ sweep' = [sweep EXCEPT !.at = "principals"]
    /\ UNCHANGED <<keydir, inboxes, rowOwner, envelopes, blobs, issued, delivery,
                   doomed, reader, faults, erased>>

\* Its failure is logged and the pass goes on.
SweepExpiredFails ==
    /\ sweep.at = "idle"
    /\ Fault
    /\ sweep' = [sweep EXCEPT !.at = "principals"]
    /\ UNCHANGED <<keydir, inboxes, storeVars, blobs, issued, delivery, doomed, reader>>

\* distinct_held_principal_ids
SweepPrincipals ==
    /\ sweep.at = "principals"
    /\ sweep' = [sweep EXCEPT !.at = "next",
                              !.todo = {p \in Principals : HeldFor(p) # {}}]
    /\ UNCHANGED <<keydir, inboxes, storeVars, blobs, issued, delivery, doomed,
                   reader, faults>>

\* release_held_messages_for_principal reads the devices once; with none, it
\* is a no-op for this principal.
SweepDevices(p) ==
    LET active == ActiveDevices(p) IN
    /\ sweep.at = "next" /\ p \in sweep.todo
    /\ sweep' = IF active = {} THEN [sweep EXCEPT !.todo = @ \ {p}]
                ELSE [sweep EXCEPT !.at = "list", !.who = p, !.devs = active,
                                   !.sound = (Wrappable(active) = active)]
    /\ UNCHANGED <<keydir, inboxes, storeVars, blobs, issued, delivery, doomed,
                   reader, faults>>

\* list_held_for_principal
SweepList ==
    /\ sweep.at = "list"
    /\ sweep' = [sweep EXCEPT !.at = "release", !.items = HeldFor(sweep.who)]
    /\ UNCHANGED <<keydir, inboxes, storeVars, blobs, issued, delivery, doomed,
                   reader, faults>>

\* Mutant: keys that cannot be used are skipped, as in a delivery, even when
\* none is left.
SweepReleaseSkipsKeys(m) ==
    /\ sweep.at = "release" /\ m \in sweep.items
    /\ rowOwner[m] # None
    /\ envelopes' = [envelopes EXCEPT ![m] = @ \cup Wrappable(sweep.devs)]
    /\ hold' = [hold EXCEPT ![m] = "none"]
    /\ sweep' = [sweep EXCEPT !.items = @ \ {m}]
    /\ UNCHANGED <<keydir, inboxes, rowOwner, blobs, issued, delivery, doomed,
                   reader, faults, lapsed, erased>>

\* Mutant: mail.envelopes has no foreign key to mail.messages.
SweepReleaseNoForeignKey(m) ==
    /\ sweep.at = "release" /\ m \in sweep.items /\ sweep.sound
    /\ envelopes' = [envelopes EXCEPT ![m] = @ \cup sweep.devs]
    /\ hold' = [hold EXCEPT ![m] = "none"]
    /\ sweep' = [sweep EXCEPT !.items = @ \ {m}]
    /\ UNCHANGED <<keydir, inboxes, rowOwner, blobs, issued, delivery, doomed,
                   reader, faults, lapsed, erased>>

\* One held message: envelopes for every device of the snapshot and deletion
\* of the hold row, in one transaction. The foreign key of mail.envelopes
\* requires the row of the message.
SweepRelease(m) ==
    /\ sweep.at = "release" /\ m \in sweep.items /\ sweep.sound
    /\ rowOwner[m] # None
    /\ envelopes' = [envelopes EXCEPT ![m] = @ \cup sweep.devs]
    /\ hold' = [hold EXCEPT ![m] = "none"]
    /\ sweep' = [sweep EXCEPT !.items = @ \ {m}]
    /\ UNCHANGED <<keydir, inboxes, rowOwner, blobs, issued, delivery, doomed,
                   reader, faults, lapsed, erased>>

\* A key that cannot be used makes wrap_key_for_device fail, and a message
\* purged since the list makes the INSERT fail: either way `?` leaves the
\* function, and the other messages of this principal wait for a later pass.
SweepAborts(m) ==
    /\ sweep.at = "release" /\ m \in sweep.items
    /\ ~sweep.sound \/ rowOwner[m] = None
    /\ sweep' = NextPrincipal
    /\ UNCHANGED <<keydir, inboxes, storeVars, blobs, issued, delivery, doomed,
                   reader, faults>>

SweepPrincipalDone ==
    /\ sweep.at = "release" /\ sweep.items = {}
    /\ sweep' = NextPrincipal
    /\ UNCHANGED <<keydir, inboxes, storeVars, blobs, issued, delivery, doomed,
                   reader, faults>>

SweepDone ==
    /\ sweep.at = "next" /\ sweep.todo = {}
    /\ sweep' = IdleSweep
    /\ UNCHANGED <<keydir, inboxes, storeVars, blobs, issued, delivery, doomed,
                   reader, faults>>

\* Mutant: the error leaves the loop and ends the task.
SweepFailsForGood ==
    /\ Fault
    /\ sweep.at \in {"principals", "list", "release"}
    /\ sweep' = [IdleSweep EXCEPT !.at = "ended"]
    /\ UNCHANGED <<keydir, inboxes, storeVars, blobs, issued, delivery, doomed, reader>>

\* A database error: the pass ends when the principals cannot be read, and the
\* principal is skipped when one of its calls fails.
SweepFails ==
    /\ Fault
    /\ \/ /\ sweep.at = "principals"
          /\ sweep' = IdleSweep
       \/ /\ sweep.at \in {"list", "release"}
          /\ sweep' = NextPrincipal
    /\ UNCHANGED <<keydir, inboxes, storeVars, blobs, issued, delivery, doomed, reader>>

\* diamy-mxd stops and starts again: every session and the sweep are lost,
\* open transactions are rolled back, files already written stay.
RestartMxd ==
    /\ Fault
    /\ delivery' = [s \in Sessions |-> IdleDelivery]
    /\ sweep' = IdleSweep
    /\ UNCHANGED <<keydir, inboxes, storeVars, blobs, issued, doomed, reader>>

----------------------------------------------------------------------------
(* Owners, devices and the clock *)

\* publish_device_bundle: an UPSERT that always ends with an active key.
Publish(d, k) ==
    /\ keydir' = [keydir EXCEPT ![d] = k]
    /\ UNCHANGED <<inboxes, storeVars, blobs, issued, delivery, sweep, doomed,
                   reader, faults>>

\* Thirty days have passed since the message was held.
HoldExpires(m) ==
    /\ hold[m] = "held"
    /\ hold' = [hold EXCEPT ![m] = "due"]
    /\ UNCHANGED <<keydir, inboxes, rowOwner, envelopes, blobs, issued, delivery,
                   sweep, doomed, reader, faults, lapsed, erased>>

\* Mutant: the file is deleted before the transaction, which may fail.
PurgeFileFirst(m) ==
    /\ rowOwner[m] # None
    /\ blobs' = blobs \ {m}
    /\ \/ /\ rowOwner' = [rowOwner EXCEPT ![m] = None]
          /\ envelopes' = [envelopes EXCEPT ![m] = {}]
          /\ hold' = [hold EXCEPT ![m] = "none"]
          /\ erased' = erased \cup {m}
          /\ UNCHANGED <<faults, lapsed>>
       \/ /\ Fault
          /\ UNCHANGED storeVars
    /\ UNCHANGED <<keydir, inboxes, issued, delivery, sweep, doomed, reader>>

\* purge_message: the row goes, its envelopes, blob row and hold row with it;
\* the file is deleted only after the commit.
Purge(m) ==
    /\ rowOwner[m] # None
    /\ rowOwner' = [rowOwner EXCEPT ![m] = None]
    /\ envelopes' = [envelopes EXCEPT ![m] = {}]
    /\ hold' = [hold EXCEPT ![m] = "none"]
    /\ doomed' = doomed \cup {m}
    /\ erased' = erased \cup {m}
    /\ UNCHANGED <<keydir, inboxes, blobs, issued, delivery, sweep, reader, faults,
                   lapsed>>

DeleteBody(m) ==
    /\ m \in doomed
    /\ blobs' = blobs \ {m}
    /\ doomed' = doomed \ {m}
    /\ UNCHANGED <<keydir, inboxes, storeVars, issued, delivery, sweep, reader, faults>>

\* The deletion fails and is only logged.
DeleteBodyFails(m) ==
    /\ m \in doomed
    /\ Fault
    /\ doomed' = doomed \ {m}
    /\ UNCHANGED <<keydir, inboxes, storeVars, blobs, issued, delivery, sweep, reader>>

IdleReader == [at |-> "idle", msg |-> None, dev |-> None, result |-> "none"]

\* diamy-maild stops and starts again.
RestartMaild ==
    /\ Fault
    /\ doomed' = {}
    /\ reader' = [r \in Readers |-> IdleReader]
    /\ UNCHANGED <<keydir, inboxes, storeVars, blobs, issued, delivery, sweep>>

----------------------------------------------------------------------------
(* fetch_message_for_device (diamy-maild): three reads, no transaction *)

Answer(r, result) == reader' = [reader EXCEPT ![r].at = "idle", ![r].result = result]

\* SELECT of the blob row joined to the message row and its owner.
FetchRow(r, m, d) ==
    /\ reader[r].at = "idle"
    /\ reader' = [reader EXCEPT ![r] =
                    IF rowOwner[m] = DeviceOwner[d]
                    THEN [at |-> "file", msg |-> m, dev |-> d, result |-> "none"]
                    ELSE [at |-> "idle", msg |-> m, dev |-> d, result |-> "no message"]]
    /\ UNCHANGED <<keydir, inboxes, storeVars, blobs, issued, delivery, sweep,
                   doomed, faults>>

\* blob_store.read
FetchFile(r) ==
    /\ reader[r].at = "file"
    /\ IF reader[r].msg \in blobs
       THEN reader' = [reader EXCEPT ![r].at = "envelope"]
       ELSE Answer(r, "no file")
    /\ UNCHANGED <<keydir, inboxes, storeVars, blobs, issued, delivery, sweep,
                   doomed, faults>>

\* SELECT of the envelope of this device, joined to the owner again.
FetchEnvelope(r) ==
    /\ reader[r].at = "envelope"
    /\ Answer(r, IF /\ reader[r].dev \in envelopes[reader[r].msg]
                    /\ rowOwner[reader[r].msg] = DeviceOwner[reader[r].dev]
                 THEN "found" ELSE "no envelope")
    /\ UNCHANGED <<keydir, inboxes, storeVars, blobs, issued, delivery, sweep,
                   doomed, faults>>

----------------------------------------------------------------------------
(* Specification *)

RecipientLists == UNION {[1..n -> Principals] : n \in 1..MaxRcpts}

Init ==
    /\ keydir = [d \in Devices |-> "none"]
    /\ inboxes = [p \in Principals |-> 0]
    /\ rowOwner = [m \in Messages |-> None]
    /\ envelopes = [m \in Messages |-> {}]
    /\ hold = [m \in Messages |-> "none"]
    /\ blobs = {} /\ issued = {} /\ doomed = {}
    /\ delivery = [s \in Sessions |-> IdleDelivery]
    /\ sweep = IdleSweep
    /\ reader = [r \in Readers |-> IdleReader]
    /\ faults = 0
    /\ lapsed = {} /\ erased = {}

SessionStep(s) ==
    \/ \E rcpts \in RecipientLists : StartData(s, rcpts)
    \/ FindNoDevice(s) \/ WrapForDevices(s) \/ CountHeld(s)
    \/ FindInbox(s) \/ CreateInbox(s)
    \/ \E m \in Messages : WriteBody(s, m)
    \/ CommitInbound(s) \/ CommitHeld(s) \/ RecipientFails(s) \/ Reply(s)

\* What the sweep does when nothing fails.
SweepStep ==
    \/ SweepExpired \/ SweepPrincipals \/ SweepList
    \/ \E p \in Principals : SweepDevices(p)
    \/ \E m \in Messages : SweepRelease(m) \/ SweepAborts(m)
    \/ SweepPrincipalDone \/ SweepDone

FetchStep(r) ==
    \/ \E m \in Messages, d \in Devices : FetchRow(r, m, d)
    \/ FetchFile(r) \/ FetchEnvelope(r)

Next ==
    \/ \E s \in Sessions : SessionStep(s)
    \/ SweepStep \/ SweepExpiredFails \/ SweepFails
    \/ RestartMxd \/ RestartMaild
    \/ \E d \in Devices, k \in PublishedKeys : Publish(d, k)
    \/ \E m \in Messages :
          HoldExpires(m) \/ Purge(m) \/ DeleteBody(m) \/ DeleteBodyFails(m)
    \/ \E r \in Readers : FetchStep(r)

Spec == Init /\ [][Next]_vars

\* Only the sweep is scheduled by the program itself: a tokio task driven by
\* a ticker, which never waits for a session, a device or an owner.
FairSpec == Spec /\ WF_vars(SweepStep)

----------------------------------------------------------------------------
(* Properties *)

DeliverySteps == {"idle", "directory", "count", "folder", "mkfolder", "store", "commit"}
SweepSteps == {"idle", "principals", "next", "list", "release"}

Jobs ==
    [at : DeliverySteps, todo : Seq(Principals), devs : SUBSET Devices,
     msg : Messages \cup {None}, stored : SUBSET Messages, failed : Nat,
     reply : {"none", "250", "451"}]
Sweeps ==
    [at : SweepSteps, todo : SUBSET Principals, who : Principals \cup {None},
     devs : SUBSET Devices, sound : BOOLEAN, items : SUBSET Messages]
Fetches ==
    [at : {"idle", "file", "envelope"}, msg : Messages \cup {None},
     dev : Devices \cup {None},
     result : {"none", "no message", "no file", "no envelope", "found"}]

\* Types of the variables; shown by every run of this module.
TypeOK ==
    /\ keydir \in [Devices -> KeyKinds \cup {"none"}]
    /\ inboxes \in [Principals -> Nat]
    /\ rowOwner \in [Messages -> Principals \cup {None}]
    /\ envelopes \in [Messages -> SUBSET Devices]
    /\ hold \in [Messages -> {"none", "held", "due"}]
    /\ blobs \subseteq Messages /\ issued \subseteq Messages
    /\ delivery \in [Sessions -> Jobs]
    /\ sweep \in Sweeps
    /\ doomed \subseteq Messages
    /\ reader \in [Readers -> Fetches]
    /\ faults \in Nat
    /\ lapsed \subseteq Messages /\ erased \subseteq Messages

Catalogued(m) == rowOwner[m] # None

\* A catalogued message is never without a way to its key: it has a device
\* envelope, or a hold row from which k_msg can still be released, or its hold
\* has expired. It is about the two places that write the hold row and the
\* envelopes (store_held_message, release_held_messages_for_principal), which
\* must stay in one transaction each, in front of every error and crash.
NothingLost ==
    \A m \in Messages :
        Catalogued(m) => envelopes[m] # {} \/ hold[m] # "none" \/ m \in lapsed

\* k_msg is never wrapped under k_hold and for a device at the same time: a
\* message is held or released, and the server-side copy of the key is
\* destroyed by the very step that makes the message readable.
HeldXorReleased ==
    \A m \in Messages : hold[m] # "none" => Catalogued(m) /\ envelopes[m] = {}

\* A purge leaves nothing behind in the catalogue even when the sweep has
\* already listed the message and wrapped its key.
PurgeIsComplete ==
    \A m \in Messages :
        ~Catalogued(m) => envelopes[m] = {} /\ hold[m] = "none"

\* The key of a message is kept in one place for as long as the message is in the
\* catalogue, and in none afterwards (store_held_message,
\* release_held_messages_for_principal, purge_message).
KeysFollowTheMail == HeldXorReleased /\ PurgeIsComplete

\* The key of a message is only ever wrapped for devices of its owner, though
\* deliveries and the sweep both work from a snapshot of the directory.
EnvelopesStayHome ==
    \A m \in Messages : \A d \in envelopes[m] : DeviceOwner[d] = rowOwner[m]

\* The body file of a catalogued message exists: it is written before the
\* commit and deleted after the commit of the purge, whatever crashes.
BodyOnDisk == \A m \in Messages : Catalogued(m) => m \in blobs

\* 250 is answered only for mail that was durably stored (and that its owner
\* may have purged since); 451 only when nothing was acknowledged as stored.
ReplyIsDurable ==
    \A s \in Sessions :
        LET job == delivery[s] IN
        /\ \A m \in job.stored : Catalogued(m) \/ m \in erased
        /\ job.reply = "250" => job.stored # {}
        /\ job.reply = "451" => job.stored = {} /\ job.failed > 0

\* Sessions that passed the check of count_held_for_principal for p and have
\* not stored their message yet.
Holding(p) ==
    {s \in Sessions : /\ delivery[s].at \in {"folder", "mkfolder", "store", "commit"}
                      /\ delivery[s].devs = {}
                      /\ Recipient(s) = p}

\* The hold queue of a principal never exceeds its bound by more than the
\* number of sessions that can pass the check together, less one.
HoldQueueBound ==
    \A p \in Principals :
        Cardinality(HeldFor(p)) <= MaxHeld + Cardinality(Sessions) - 1

\* Sessions that found no inbox of p and have not inserted one yet.
Creating(p) == {s \in Sessions : delivery[s].at = "mkfolder" /\ Recipient(s) = p}

\* First deliveries at once may create several inboxes of a principal, one each, but
\* no later delivery creates another, whatever fails or restarts between the two
\* statements of ensure_inbox_folder.
InboxBound == \A p \in Principals : inboxes[p] <= Cardinality(Sessions)

\* What is tested in one call and done in a later one overshoots by what the other
\* sessions can do in between (count_held_for_principal, ensure_inbox_folder).
RacesAreBounded == HoldQueueBound /\ InboxBound

\* A fetch that finds the row and then no body file has met a purge: the
\* missing file never concerns a message that is still catalogued.
MissingFileMeansPurged ==
    \A r \in Readers :
        reader[r].result = "no file" => reader[r].msg \in erased

\* A principal that the sweep can serve: it has a device, and no unusable key.
Servable(p) ==
    ActiveDevices(p) # {} /\ Wrappable(ActiveDevices(p)) = ActiveDevices(p)

\* Mail held for a principal with devices leaves the queue: its envelopes are
\* made, unless the hold expires or the owner purges the message first. It is
\* about the sweep being resumable after any error, crash or concurrent purge.
\* All the keys have to be usable: a key that cannot be wrapped to stops the
\* release for every device (lib.rs:1005).
HeldMailIsReleased ==
    \A m \in Messages :
        (hold[m] # "none" /\ Servable(rowOwner[m])) ~>
            (hold[m] = "none" \/ ~Servable(rowOwner[m]))

\* The detailed store implements the life cycle of MailPromise: a message
\* whose id was drawn is absent while its transaction is open, and gone when
\* it was rolled back or purged.
Opening(m) == \E s \in Sessions : delivery[s].at = "commit" /\ delivery[s].msg = m
Fate(m) ==
    IF Catalogued(m)
    THEN IF envelopes[m] # {} THEN "readable"
         ELSE IF hold[m] # "none" THEN "held" ELSE "stranded"
    ELSE IF m \in issued /\ ~Opening(m) THEN "gone" ELSE "absent"

Promise == INSTANCE MailPromise WITH fate <- [m \in Messages |-> Fate(m)]
KeepsPromise == Promise!PSpec
=============================================================================
