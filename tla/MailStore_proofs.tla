-------------------------- MODULE MailStore_proofs --------------------------
(***************************************************************************)
(* Safety of MailStore for any principals, devices, messages, sessions,    *)
(* readers and bounds.                                                     *)
(***************************************************************************)
EXTENDS MailStore, FiniteSetTheorems, TLAPS

----------------------------------------------------------------------------
(* Records *)

LEMMA JobUpdates ==
    ASSUME NEW job \in Jobs
    PROVE  /\ \A a \in DeliverySteps : [job EXCEPT !.at = a] \in Jobs
           /\ \A a \in DeliverySteps, ds \in SUBSET Devices :
                [job EXCEPT !.at = a, !.devs = ds] \in Jobs
           /\ \A a \in DeliverySteps, m \in Messages :
                [job EXCEPT !.at = a, !.msg = m] \in Jobs
           /\ \A a \in DeliverySteps, r \in {"none", "250", "451"} :
                [job EXCEPT !.at = a, !.reply = r] \in Jobs
           /\ \A rcpts \in Seq(Principals) : 
                [IdleDelivery EXCEPT !.at = "directory", !.todo = rcpts] \in Jobs
BY DEF Jobs, DeliverySteps, IdleDelivery

LEMMA JobServed ==
    ASSUME NEW job \in Jobs, job.todo # <<>>
    PROVE  Refused(job) \in Jobs /\ \A m \in Messages : Served(job, m) \in Jobs
<1>1. Tail(job.todo) \in Seq(Principals)
  BY DEF Jobs
<1>2. job.failed + 1 \in Nat /\ \A m \in Messages : job.stored \cup {m} \in SUBSET Messages
  BY DEF Jobs
<1>3. "directory" \in DeliverySteps
  BY DEF DeliverySteps
<1> QED
  BY <1>1, <1>2, <1>3 DEF Jobs, Served, Refused

LEMMA SweepUpdates ==
    ASSUME NEW sw \in Sweeps
    PROVE  /\ \A a \in SweepSteps : [sw EXCEPT !.at = a] \in Sweeps
           /\ \A a \in SweepSteps, ps \in SUBSET Principals :
                [sw EXCEPT !.at = a, !.todo = ps] \in Sweeps
           /\ \A ps \in SUBSET Principals : [sw EXCEPT !.todo = ps] \in Sweeps
           /\ \A a \in SweepSteps, p \in Principals, ds \in SUBSET Devices, b \in BOOLEAN :
                [sw EXCEPT !.at = a, !.who = p, !.devs = ds, !.sound = b] \in Sweeps
           /\ \A a \in SweepSteps, ms \in SUBSET Messages :
                [sw EXCEPT !.at = a, !.items = ms] \in Sweeps
           /\ \A ms \in SUBSET Messages : [sw EXCEPT !.items = ms] \in Sweeps
           /\ IdleSweep \in Sweeps
           /\ \A ps \in SUBSET Principals :
                [IdleSweep EXCEPT !.at = "next", !.todo = ps] \in Sweeps
BY DEF Sweeps, SweepSteps, IdleSweep

LEMMA FetchUpdates ==
    ASSUME NEW f \in Fetches
    PROVE  /\ [f EXCEPT !.at = "envelope"] \in Fetches
           /\ \A x \in {"no file", "no envelope", "found"} :
                [f EXCEPT !.at = "idle", !.result = x] \in Fetches
           /\ IdleReader \in Fetches
BY DEF Fetches, IdleReader

LEMMA FaultCounts == TypeOK /\ Fault => faults' \in Nat
<1> SUFFICES ASSUME faults \in Nat, Fault PROVE faults' \in Nat
  BY DEF TypeOK
<1> QED
  BY DEF Fault

----------------------------------------------------------------------------
(* The inductive invariant *)

\* What a session holds between two calls: a recipient from the moment its
\* devices are looked up, devices of that recipient, and in an open
\* transaction a message that no one else can see.
DeliveryInv ==
    \A s \in Sessions : LET job == delivery[s] IN
        /\ job.at \notin {"idle", "directory"} => job.todo # <<>>
        /\ job.devs # {} => job.at \notin {"idle", "directory"}
        /\ \A d \in job.devs : DeviceOwner[d] = Head(job.todo)
        /\ job.at = "commit" => /\ job.msg \in issued \cap blobs
                                /\ rowOwner[job.msg] = None
                                /\ job.msg \notin erased

\* Two sessions never have a transaction open on the same message.
OpeningsDiffer ==
    \A s, t \in Sessions :
        delivery[s].at = "commit" /\ delivery[t].at = "commit"
            /\ delivery[s].msg = delivery[t].msg => s = t

\* A session that answered, or is about to, served or refused every recipient.
ReplyInv ==
    \A s \in Sessions : LET job == delivery[s] IN
        /\ job.at # "idle" => job.reply = "none"
        /\ job.at # "idle" /\ job.todo = <<>> => job.stored # {} \/ job.failed > 0

\* An id is drawn before it is catalogued, and no id comes back once purged.
CatalogueInv ==
    /\ \A m \in Messages : Catalogued(m) => m \in issued \ erased
    /\ erased \subseteq issued
    /\ doomed \subseteq erased

\* The snapshot of the sweep: devices of one principal, messages still held for
\* the same principal unless they were purged since the list was read.
SweepInv ==
    /\ sweep.at \in {"list", "release"} =>
           sweep.devs # {} /\ \A d \in sweep.devs : DeviceOwner[d] = sweep.who
    /\ sweep.at # "release" => sweep.items = {}
    /\ \A m \in sweep.items :
           (rowOwner[m] = sweep.who /\ hold[m] # "none") \/ m \in erased

\* A fetch past its first read concerns a message that is or was catalogued.
ReaderInv ==
    \A r \in Readers :
        reader[r].at # "idle" => /\ reader[r].msg \in Messages
                                 /\ Catalogued(reader[r].msg) \/ reader[r].msg \in erased

\* The part that speaks of sessions, and the part that does not.
SessionInv == DeliveryInv /\ OpeningsDiffer /\ ReplyInv /\ ReplyIsDurable
StoreInv ==
    /\ CatalogueInv /\ SweepInv /\ ReaderInv
    /\ NothingLost /\ HeldXorReleased /\ PurgeIsComplete
    /\ BodyOnDisk /\ EnvelopesStayHome /\ MissingFileMeansPurged
IInv == TypeOK /\ SessionInv /\ StoreInv

----------------------------------------------------------------------------
(* Types *)

LEMMA InitTypes == Init => TypeOK
<1> SUFFICES ASSUME Init PROVE TypeOK
  OBVIOUS
<1>1. IdleDelivery \in Jobs
  BY DEF Jobs, IdleDelivery, DeliverySteps
<1>2. IdleSweep \in Sweeps /\ IdleReader \in Fetches
  BY DEF Sweeps, SweepSteps, IdleSweep, Fetches, IdleReader
<1> QED
  BY <1>1, <1>2 DEF Init, TypeOK

LEMMA SessionTypes ==
    ASSUME TypeOK, DeliveryInv, NEW s \in Sessions, SessionStep(s) PROVE TypeOK'
<1> USE DEF storeVars
<1>0. /\ delivery[s] \in Jobs
      /\ delivery[s].at \notin {"idle", "directory"} => delivery[s].todo # <<>>
      /\ delivery[s].at = "commit" => delivery[s].msg \in Messages
  BY DEF TypeOK, DeliveryInv
<1>r. delivery[s].todo # <<>> => Recipient(s) \in Principals
  BY <1>0 DEF Jobs, Recipient
<1>1. ASSUME NEW rcpts \in RecipientLists, StartData(s, rcpts) PROVE TypeOK'
  <2>1. rcpts \in Seq(Principals)
    BY DEF RecipientLists
  <2> QED
    BY <1>1, <2>1, JobUpdates DEF TypeOK, StartData
<1>2. CASE FindNoDevice(s)
  BY <1>2, JobUpdates DEF TypeOK, FindNoDevice, DeliverySteps
<1>3. CASE WrapForDevices(s)
  BY <1>3, JobUpdates, JobServed DEF TypeOK, WrapForDevices, Wrappable, ActiveDevices, DeliverySteps
<1>4. CASE CountHeld(s)
  BY <1>0, <1>4, JobUpdates, JobServed DEF TypeOK, CountHeld, DeliverySteps
<1>5. CASE FindInbox(s)
  BY <1>5, JobUpdates DEF TypeOK, FindInbox, DeliverySteps
<1>6. CASE CreateInbox(s)
  <2>1. delivery[s].todo # <<>>
    BY <1>0, <1>6 DEF CreateInbox
  <2>2. inboxes' \in [Principals -> Nat]
    BY <1>6, <2>1, <1>r DEF TypeOK, CreateInbox
  <2> QED
    BY <1>6, <2>2, JobUpdates DEF TypeOK, CreateInbox, DeliverySteps
<1>7. ASSUME NEW m \in Messages, WriteBody(s, m) PROVE TypeOK'
  BY <1>7, JobUpdates DEF TypeOK, WriteBody, DeliverySteps
<1>8. CASE CommitInbound(s)
  <2>1. delivery[s].todo # <<>> /\ delivery[s].msg \in Messages /\ delivery[s].devs \in SUBSET Devices
    BY <1>0, <1>8 DEF CommitInbound, Jobs
  <2>2. faults' \in Nat /\ delivery' \in [Sessions -> Jobs]
    BY <1>0, <1>8, <2>1, JobServed DEF TypeOK, CommitInbound, CommitSeen, Fault
  <2>3. rowOwner' \in [Messages -> Principals \cup {None}]
    BY <1>8, <2>1, <1>r DEF TypeOK, CommitInbound
  <2> QED
    BY <1>8, <2>1, <2>2, <2>3 DEF TypeOK, CommitInbound
<1>9. CASE CommitHeld(s)
  <2>1. delivery[s].todo # <<>> /\ delivery[s].msg \in Messages /\ delivery[s].devs \in SUBSET Devices
    BY <1>0, <1>9 DEF CommitHeld, Jobs
  <2>2. faults' \in Nat /\ delivery' \in [Sessions -> Jobs]
    BY <1>0, <1>9, <2>1, JobServed DEF TypeOK, CommitHeld, CommitSeen, Fault
  <2>3. rowOwner' \in [Messages -> Principals \cup {None}]
    BY <1>9, <2>1, <1>r DEF TypeOK, CommitHeld
  <2> QED
    BY <1>9, <2>1, <2>2, <2>3 DEF TypeOK, CommitHeld
<1>10. CASE RecipientFails(s)
  BY <1>0, <1>10, JobServed DEF TypeOK, RecipientFails, Fault
<1>11. CASE Reply(s)
  BY <1>11, JobUpdates DEF TypeOK, Reply, DeliverySteps
<1> QED
  BY <1>1, <1>2, <1>3, <1>4, <1>5, <1>6, <1>7, <1>8, <1>9, <1>10, <1>11 DEF SessionStep

LEMMA SweepTypes ==
    ASSUME TypeOK, SweepStep \/ SweepExpiredFails \/ SweepFails \/ RestartMxd
    PROVE  TypeOK'
<1> USE DEF storeVars
<1>1. CASE SweepExpired
  BY <1>1, SweepUpdates DEF TypeOK, SweepExpired, SweepSteps
<1>2. CASE SweepExpiredFails
  BY <1>2, SweepUpdates, FaultCounts DEF TypeOK, SweepExpiredFails, SweepSteps
<1>3. CASE SweepPrincipals
  BY <1>3, SweepUpdates DEF TypeOK, SweepPrincipals, SweepSteps
<1>4. ASSUME NEW p \in Principals, SweepDevices(p) PROVE TypeOK'
  <2>1. sweep.todo \ {p} \in SUBSET Principals /\ ActiveDevices(p) \in SUBSET Devices
    BY DEF TypeOK, Sweeps, ActiveDevices
  <2> QED
    BY <1>4, <2>1, SweepUpdates DEF TypeOK, SweepDevices, SweepSteps
<1>5. CASE SweepList
  BY <1>5, SweepUpdates DEF TypeOK, SweepList, HeldFor, SweepSteps
<1>6. ASSUME NEW m \in Messages, SweepRelease(m) PROVE TypeOK'
  <2>1. sweep.items \ {m} \in SUBSET Messages /\ sweep.devs \in SUBSET Devices
    BY DEF TypeOK, Sweeps
  <2> QED
    BY <1>6, <2>1, SweepUpdates DEF TypeOK, SweepRelease
<1>n. NextPrincipal \in Sweeps
  <2>1. sweep.todo \ {sweep.who} \in SUBSET Principals
    BY DEF TypeOK, Sweeps
  <2> QED
    BY <2>1, SweepUpdates DEF TypeOK, NextPrincipal
<1>7. ASSUME NEW m \in Messages, SweepAborts(m) PROVE TypeOK'
  BY <1>7, <1>n DEF TypeOK, SweepAborts
<1>8. CASE SweepPrincipalDone
  BY <1>8, <1>n DEF TypeOK, SweepPrincipalDone
<1>9. CASE SweepDone
  BY <1>9, SweepUpdates DEF TypeOK, SweepDone
<1>10. CASE SweepFails
  BY <1>10, <1>n, SweepUpdates, FaultCounts DEF TypeOK, SweepFails
<1>11. CASE RestartMxd
  <2>1. IdleDelivery \in Jobs
    BY DEF Jobs, IdleDelivery, DeliverySteps
  <2> QED
    BY <1>11, <2>1, SweepUpdates, FaultCounts DEF TypeOK, RestartMxd
<1> QED
  BY <1>1, <1>2, <1>3, <1>4, <1>5, <1>6, <1>7, <1>8, <1>9, <1>10, <1>11 DEF SweepStep

LEMMA OwnerTypes ==
    ASSUME TypeOK,
           \/ RestartMaild
           \/ \E d \in Devices, k \in PublishedKeys : Publish(d, k)
           \/ \E m \in Messages :
                 HoldExpires(m) \/ Purge(m) \/ DeleteBody(m) \/ DeleteBodyFails(m)
           \/ \E r \in Readers : FetchStep(r)
    PROVE  TypeOK'
<1> USE DEF storeVars
<1>1. CASE RestartMaild
  <2>1. IdleReader \in Fetches
    BY DEF IdleReader, Fetches
  <2> QED
    BY <1>1, <2>1, FaultCounts DEF TypeOK, RestartMaild
<1>2. ASSUME NEW d \in Devices, NEW k \in PublishedKeys, Publish(d, k) PROVE TypeOK'
  BY <1>2, KeysAssumption DEF TypeOK, Publish
<1>3. ASSUME NEW m \in Messages, HoldExpires(m) PROVE TypeOK'
  BY <1>3 DEF TypeOK, HoldExpires
<1>4. ASSUME NEW m \in Messages, Purge(m) PROVE TypeOK'
  BY <1>4 DEF TypeOK, Purge
<1>5. ASSUME NEW m \in Messages, DeleteBody(m) \/ DeleteBodyFails(m) PROVE TypeOK'
  BY <1>5 DEF TypeOK, DeleteBody, DeleteBodyFails, Fault
<1>6. ASSUME NEW r \in Readers, NEW m \in Messages, NEW d \in Devices, FetchRow(r, m, d)
      PROVE  TypeOK'
  <2>1. \A a \in {"idle", "file"}, x \in {"none", "no message"} :
          [at |-> a, msg |-> m, dev |-> d, result |-> x] \in Fetches
    BY DEF Fetches
  <2> QED
    BY <1>6, <2>1 DEF TypeOK, FetchRow
<1>7. ASSUME NEW r \in Readers, FetchFile(r) \/ FetchEnvelope(r) PROVE TypeOK'
  <2>1. /\ [reader[r] EXCEPT !.at = "envelope"] \in Fetches
        /\ \A x \in {"no file", "no envelope", "found"} :
             [reader[r] EXCEPT !.at = "idle", !.result = x] \in Fetches
    BY FetchUpdates DEF TypeOK
  <2>2. CASE FetchFile(r)
    BY <2>1, <2>2 DEF TypeOK, FetchFile, Answer
  <2>3. CASE FetchEnvelope(r)
    BY <2>1, <2>3 DEF TypeOK, FetchEnvelope, Answer
  <2> QED
    BY <1>7, <2>2, <2>3
<1> QED
  BY <1>1, <1>2, <1>3, <1>4, <1>5, <1>6, <1>7 DEF FetchStep

LEMMA Typing == TypeOK /\ DeliveryInv /\ [Next]_vars => TypeOK'
<1>1. ASSUME TypeOK, UNCHANGED vars PROVE TypeOK'
  BY <1>1 DEF TypeOK, vars
<1> QED
  BY <1>1, SessionTypes, SweepTypes, OwnerTypes DEF Next

----------------------------------------------------------------------------
(* Sessions *)

\* Steps that leave the store, the sweep and the fetches alone.
LEMMA StoreQuiet ==
    ASSUME StoreInv, UNCHANGED <<storeVars, blobs, issued, sweep, doomed, reader>>
    PROVE  StoreInv'
BY DEF StoreInv, storeVars, CatalogueInv, SweepInv, ReaderInv, NothingLost, HeldXorReleased,
       PurgeIsComplete, BodyOnDisk, EnvelopesStayHome, MissingFileMeansPurged, Catalogued

\* Steps that leave the sessions, and what they know of the store, alone.
LEMMA SessionQuiet ==
    ASSUME SessionInv, UNCHANGED <<delivery, rowOwner, issued, blobs, erased>>
    PROVE  SessionInv'
BY DEF SessionInv, DeliveryInv, OpeningsDiffer, ReplyInv, ReplyIsDurable, Catalogued

\* What a session may become between two calls, its messages being stored.
Sound(job) ==
    /\ job.at # "commit"
    /\ job.at \notin {"idle", "directory"} => job.todo # <<>>
    /\ job.devs # {} => job.at \notin {"idle", "directory"}
    /\ \A d \in job.devs : DeviceOwner[d] = Head(job.todo)
    /\ job.at # "idle" => job.reply = "none"
    /\ job.at # "idle" /\ job.todo = <<>> => job.stored # {} \/ job.failed > 0
    /\ \A m \in job.stored : Catalogued(m) \/ m \in erased
    /\ job.reply = "250" => job.stored # {}
    /\ job.reply = "451" => job.stored = {} /\ job.failed > 0

LEMMA SessionMoves ==
    ASSUME TypeOK, SessionInv, NEW s \in Sessions, NEW job, Sound(job),
           delivery' = [delivery EXCEPT ![s] = job],
           UNCHANGED <<storeVars, blobs, issued, sweep, doomed, reader>>
    PROVE  SessionInv'
<1>1. /\ delivery'[s] = job
      /\ \A t \in Sessions : t # s => delivery'[t] = delivery[t]
  BY DEF TypeOK
<1>2. UNCHANGED <<rowOwner, erased>>
  BY DEF storeVars
<1>3. DeliveryInv'
  BY <1>1, <1>2 DEF SessionInv, DeliveryInv, Sound
<1>4. OpeningsDiffer'
  BY <1>1 DEF SessionInv, OpeningsDiffer, Sound
<1>5. ReplyInv'
  BY <1>1 DEF SessionInv, ReplyInv, Sound
<1>6. ReplyIsDurable'
  BY <1>1, <1>2 DEF SessionInv, ReplyIsDurable, Sound, Catalogued
<1> QED
  BY <1>3, <1>4, <1>5, <1>6 DEF SessionInv

LEMMA RunningJob ==
    ASSUME TypeOK, SessionInv, NEW s \in Sessions, delivery[s].at # "idle"
    PROVE  /\ delivery[s] \in Jobs
           /\ delivery[s].at # "commit" => Sound(delivery[s])
           /\ delivery[s].todo # <<>> => Sound(Refused(delivery[s]))
<1>1. delivery[s] \in Jobs
  BY DEF TypeOK
<1>2. delivery[s].at # "commit" => Sound(delivery[s])
  BY DEF SessionInv, DeliveryInv, ReplyInv, ReplyIsDurable, Sound
<1>3. ASSUME delivery[s].todo # <<>> PROVE Sound(Refused(delivery[s]))
  <2>1. /\ Refused(delivery[s]).at = "directory"
        /\ Refused(delivery[s]).devs = {}
        /\ Refused(delivery[s]).stored = delivery[s].stored
        /\ Refused(delivery[s]).failed = delivery[s].failed + 1
        /\ Refused(delivery[s]).reply = "none"
    BY <1>1 DEF Refused, Jobs, SessionInv, ReplyInv
  <2>2. delivery[s].failed + 1 > 0
    BY <1>1 DEF Jobs
  <2> QED
    BY <2>1, <2>2 DEF Sound, SessionInv, ReplyIsDurable
<1> QED
  BY <1>1, <1>2, <1>3

\* Steps that change nothing but the session that takes them.
LEMMA CallsKeepInv ==
    ASSUME TypeOK, SessionInv, NEW s \in Sessions,
           \/ \E rcpts \in RecipientLists : StartData(s, rcpts)
           \/ FindNoDevice(s) \/ WrapForDevices(s) \/ CountHeld(s)
           \/ FindInbox(s) \/ CreateInbox(s) \/ RecipientFails(s) \/ Reply(s)
    PROVE  /\ SessionInv'
           /\ UNCHANGED <<storeVars, blobs, issued, sweep, doomed, reader>>
<1> DEFINE Moves(job) == /\ delivery' = [delivery EXCEPT ![s] = job]
                         /\ Sound(job)
<1>u. UNCHANGED <<storeVars, blobs, issued, sweep, doomed, reader>>
  BY DEF StartData, FindNoDevice, WrapForDevices, CountHeld, FindInbox, CreateInbox,
         RecipientFails, Reply
<1> SUFFICES \E job : Moves(job)
  BY <1>u, SessionMoves
<1> USE RunningJob DEF Jobs
<1>1. ASSUME NEW rcpts \in RecipientLists, StartData(s, rcpts) PROVE \E job : Moves(job)
  <2> DEFINE job == [IdleDelivery EXCEPT !.at = "directory", !.todo = rcpts]
  <2>1. rcpts # <<>>
    BY BoundsAssumption DEF RecipientLists
  <2>2. Moves(job)
    BY <1>1, <2>1 DEF StartData, IdleDelivery, Sound
  <2> QED
    BY <2>2
<1>2. CASE FindNoDevice(s)
  <2>1. Moves([delivery[s] EXCEPT !.at = "count"])
    BY <1>2 DEF FindNoDevice, Sound
  <2> QED
    BY <2>1
<1>3. CASE WrapForDevices(s)
  <2> DEFINE ds == Wrappable(ActiveDevices(Recipient(s)))
             job == [delivery[s] EXCEPT !.at = "folder", !.devs = ds]
  <2>1. CASE ds = {}
    <3>1. Moves(Refused(delivery[s]))
      BY <1>3, <2>1 DEF WrapForDevices
    <3> QED
      BY <3>1
  <2>2. CASE ds # {}
    <3>1. \A d \in ds : DeviceOwner[d] = Head(delivery[s].todo)
      BY DEF Wrappable, ActiveDevices, Recipient
    <3>2. delivery' = [delivery EXCEPT ![s] = job]
      BY <1>3, <2>2 DEF WrapForDevices
    <3>3. Sound(job)
      BY <1>3, <3>1 DEF WrapForDevices, Sound
    <3>4. Moves(job)
      BY <3>2, <3>3
    <3> QED
      BY <3>4
  <2> QED
    BY <2>1, <2>2
<1>4. CASE CountHeld(s)
  <2>0. delivery[s].todo # <<>>
    BY <1>4 DEF CountHeld, SessionInv, DeliveryInv
  <2>1. CASE Cardinality(HeldFor(Recipient(s))) >= MaxHeld
    <3>1. Moves(Refused(delivery[s]))
      BY <1>4, <2>0, <2>1 DEF CountHeld
    <3> QED
      BY <3>1
  <2>2. CASE ~(Cardinality(HeldFor(Recipient(s))) >= MaxHeld)
    <3>1. Moves([delivery[s] EXCEPT !.at = "folder"])
      BY <1>4, <2>0, <2>2 DEF CountHeld, Sound
    <3> QED
      BY <3>1
  <2> QED
    BY <2>1, <2>2
<1>5. CASE FindInbox(s) \/ CreateInbox(s)
  <2>1. PICK a \in {"store", "mkfolder"} : delivery' = [delivery EXCEPT ![s].at = a]
    BY <1>5 DEF FindInbox, CreateInbox
  <2>2. delivery[s].at \in {"folder", "mkfolder"}
    BY <1>5 DEF FindInbox, CreateInbox
  <2>3. Moves([delivery[s] EXCEPT !.at = a])
    BY <2>1, <2>2 DEF Sound
  <2> QED
    BY <2>3
<1>6. CASE RecipientFails(s)
  <2>1. Moves(Refused(delivery[s]))
    BY <1>6 DEF RecipientFails
  <2> QED
    BY <2>1
<1>7. CASE Reply(s)
  <2> DEFINE r == IF delivery[s].stored # {} THEN "250" ELSE "451"
  <2>1. Moves([delivery[s] EXCEPT !.at = "idle", !.reply = r])
    BY <1>7 DEF Reply, Sound
  <2> QED
    BY <2>1
<1> QED
  BY <1>1, <1>2, <1>3, <1>4, <1>5, <1>6, <1>7

LEMMA WriteBodyKeepsInv ==
    ASSUME IInv, NEW s \in Sessions, NEW m \in Messages, WriteBody(s, m)
    PROVE  SessionInv' /\ StoreInv'
<1>1. /\ TypeOK /\ DeliveryInv /\ OpeningsDiffer /\ ReplyInv /\ ReplyIsDurable
      /\ CatalogueInv /\ StoreInv
  BY DEF IInv, SessionInv, StoreInv
<1>2. /\ delivery[s] \in Jobs /\ delivery[s].at = "store" /\ m \notin issued
      /\ delivery' = [delivery EXCEPT ![s].at = "commit", ![s].msg = m]
      /\ issued' = issued \cup {m} /\ blobs' = blobs \cup {m}
      /\ UNCHANGED <<rowOwner, envelopes, hold, lapsed, erased, sweep, doomed, reader>>
  BY <1>1 DEF WriteBody, TypeOK, storeVars
<1>2a. delivery[s].at = "store" /\ m \notin issued
  BY <1>2
<1>3. /\ \A t \in Sessions : t # s => delivery'[t] = delivery[t]
      /\ delivery'[s].at = "commit" /\ delivery'[s].msg = m
      /\ delivery'[s].todo = delivery[s].todo /\ delivery'[s].devs = delivery[s].devs
      /\ delivery'[s].stored = delivery[s].stored /\ delivery'[s].reply = delivery[s].reply
      /\ delivery'[s].failed = delivery[s].failed
  BY <1>1, <1>2 DEF TypeOK, Jobs
<1>g. /\ issued \subseteq issued' /\ blobs \subseteq blobs' /\ m \in issued' \cap blobs'
      /\ rowOwner' = rowOwner /\ erased' = erased
  BY <1>2
<1>4. rowOwner[m] = None /\ m \notin erased
  BY <1>1, <1>2 DEF CatalogueInv, Catalogued
<1>5. DeliveryInv'
  <2> SUFFICES ASSUME NEW t \in Sessions
               PROVE  LET job == delivery'[t] IN
                      /\ job.at \notin {"idle", "directory"} => job.todo # <<>>
                      /\ job.devs # {} => job.at \notin {"idle", "directory"}
                      /\ \A d \in job.devs : DeviceOwner[d] = Head(job.todo)
                      /\ job.at = "commit" => /\ job.msg \in issued' \cap blobs'
                                              /\ rowOwner'[job.msg] = None
                                              /\ job.msg \notin erased'
    BY DEF DeliveryInv
  <2>1. CASE t = s
    BY <1>1, <1>g, <1>3, <1>4, <1>2a, <2>1 DEF DeliveryInv
  <2>2. CASE t # s
    BY <1>1, <1>g, <1>3, <2>2 DEF DeliveryInv
  <2> QED
    BY <2>1, <2>2
<1>6. OpeningsDiffer'
  BY <1>1, <1>2a, <1>3 DEF OpeningsDiffer, DeliveryInv
<1>7. ReplyInv' /\ ReplyIsDurable'
  BY <1>1, <1>2a, <1>3, <1>g DEF ReplyInv, ReplyIsDurable, DeliveryInv, Catalogued
<1>8. CatalogueInv' /\ SweepInv' /\ ReaderInv'
  BY <1>1, <1>2 DEF StoreInv, CatalogueInv, SweepInv, ReaderInv, Catalogued
<1>9. /\ NothingLost' /\ HeldXorReleased' /\ PurgeIsComplete'
      /\ BodyOnDisk' /\ EnvelopesStayHome' /\ MissingFileMeansPurged'
  BY <1>1, <1>2 DEF StoreInv, NothingLost, HeldXorReleased, PurgeIsComplete, BodyOnDisk,
                    EnvelopesStayHome, MissingFileMeansPurged, Catalogued
<1> QED
  BY <1>5, <1>6, <1>7, <1>8, <1>9 DEF SessionInv, StoreInv

\* A commit catalogues the message of the transaction for its recipient, with
\* the envelopes or with the hold row that go with it.
LEMMA CommitKeepsInv ==
    ASSUME IInv, NEW s \in Sessions, CommitInbound(s) \/ CommitHeld(s)
    PROVE  SessionInv' /\ StoreInv'
<1> DEFINE p == Recipient(s)
<1> USE DEF IInv, SessionInv, StoreInv
<1>0. PICK m : m = delivery[s].msg
  OBVIOUS
<1>1. /\ m = delivery[s].msg
      /\ delivery[s] \in Jobs /\ delivery[s].at = "commit" /\ delivery[s].todo # <<>>
      /\ m \in issued \cap blobs /\ rowOwner[m] = None /\ m \notin erased /\ m \in Messages
      /\ delivery[s].reply = "none"
  BY <1>0 DEF CommitInbound, CommitHeld, DeliveryInv, ReplyInv, TypeOK
<1>2. p \in Principals /\ p # None
  BY <1>1, NoneAssumption DEF Jobs, Recipient
<1>3. /\ rowOwner'[m] = p
      /\ \A x \in Messages : x # m => rowOwner'[x] = rowOwner[x]
      /\ UNCHANGED <<blobs, issued, sweep, doomed, reader, lapsed, erased>>
  BY <1>1 DEF CommitInbound, CommitHeld, TypeOK
<1>4. \A x \in Messages : x # m => envelopes'[x] = envelopes[x] /\ hold'[x] = hold[x]
  BY <1>1 DEF CommitInbound, CommitHeld, TypeOK
<1>5. \/ /\ envelopes'[m] = delivery[s].devs /\ delivery[s].devs # {}
         /\ hold'[m] = hold[m]
      \/ envelopes'[m] = envelopes[m] /\ hold'[m] = "held"
  BY <1>1 DEF CommitInbound, CommitHeld, TypeOK
<1>6. envelopes[m] = {} /\ hold[m] = "none"
  BY <1>1 DEF PurgeIsComplete, Catalogued
<1>7. CatalogueInv'
  BY <1>1, <1>3 DEF CatalogueInv, Catalogued
<1>8. SweepInv'
  <2>1. sweep.items # {} => sweep.who \in Principals
    BY OwnerAssumption DEF SweepInv, TypeOK, Sweeps
  <2>2. \A x \in sweep.items : x = m => FALSE
    BY <1>1, <2>1, NoneAssumption DEF SweepInv
  <2>3. \A x \in sweep.items : x \in Messages
    BY DEF TypeOK, Sweeps
  <2> QED
    BY <1>3, <1>4, <2>2, <2>3 DEF SweepInv
<1>9. ReaderInv' /\ MissingFileMeansPurged'
  BY <1>1, <1>2, <1>3 DEF ReaderInv, MissingFileMeansPurged, Catalogued
<1>10. NothingLost' /\ BodyOnDisk'
  BY <1>1, <1>3, <1>4, <1>5 DEF NothingLost, BodyOnDisk, Catalogued
<1>11. HeldXorReleased' /\ PurgeIsComplete'
  BY <1>1, <1>2, <1>3, <1>4, <1>5, <1>6 DEF HeldXorReleased, PurgeIsComplete, Catalogued
<1>12. EnvelopesStayHome'
  <2>1. \A d \in delivery[s].devs : DeviceOwner[d] = p
    BY DEF DeliveryInv, Recipient
  <2> QED
    BY <1>3, <1>4, <1>5, <1>6, <2>1 DEF EnvelopesStayHome
<1>14. PICK job : /\ delivery' = [delivery EXCEPT ![s] = job]
                  /\ job = Refused(delivery[s]) \/ job = Served(delivery[s], m)
  <2>1. CommitSeen(s)
    BY DEF CommitInbound, CommitHeld
  <2> QED
    BY <1>1, <2>1 DEF CommitSeen
<1>15. /\ delivery'[s] = job
       /\ \A t \in Sessions : t # s => delivery'[t] = delivery[t]
  BY <1>14 DEF TypeOK
<1>16. /\ job.at = "directory" /\ job.devs = {} /\ job.reply = "none"
       /\ \/ job.stored = delivery[s].stored \cup {m} 
          \/ job.stored = delivery[s].stored /\ job.failed > 0
  <2>1. delivery[s].failed + 1 > 0
    BY <1>1 DEF Jobs
  <2>2. CASE job = Refused(delivery[s])
    BY <1>1, <2>1, <2>2 DEF Refused, Jobs
  <2>3. CASE job = Served(delivery[s], m)
    BY <1>1, <2>3 DEF Served, Jobs
  <2> QED
    BY <1>14, <2>2, <2>3
<1>17. \A t \in Sessions : t # s /\ delivery[t].at = "commit" => delivery[t].msg # m
  BY <1>1 DEF OpeningsDiffer
<1>18. DeliveryInv' /\ OpeningsDiffer' /\ ReplyInv'
  <2>1. DeliveryInv /\ OpeningsDiffer /\ ReplyInv
    OBVIOUS
  <2>2. DeliveryInv'
    <3>1. \A t \in Sessions : delivery[t].at = "commit" => delivery[t].msg \in Messages
      BY <2>1 DEF DeliveryInv, TypeOK
    <3>2. issued' = issued /\ blobs' = blobs /\ erased' = erased
      BY <1>3
    <3>3. \A t \in Sessions : t # s /\ delivery[t].at = "commit" => rowOwner'[delivery[t].msg] = None
      BY <1>3, <1>17, <2>1, <3>1 DEF DeliveryInv
    <3> HIDE DEF IInv, SessionInv, StoreInv
    <3> QED
      BY <1>15, <1>16, <2>1, <3>2, <3>3 DEF DeliveryInv
  <2>3. OpeningsDiffer'
    BY <1>15, <1>16, <2>1 DEF OpeningsDiffer
  <2>4. ReplyInv'
    BY <1>15, <1>16, <2>1 DEF ReplyInv
  <2> QED
    BY <2>2, <2>3, <2>4
<1>19. ReplyIsDurable'
  <2>1. \A x \in Messages : Catalogued(x) => Catalogued(x)'
    BY <1>2, <1>3 DEF Catalogued
  <2>2. Catalogued(m)'
    BY <1>2, <1>3 DEF Catalogued
  <2>3. \A t \in Sessions : delivery[t].stored \subseteq Messages
    BY DEF TypeOK, Jobs
  <2> QED
    BY <1>3, <1>15, <1>16, <2>1, <2>2, <2>3 DEF ReplyIsDurable
<1> QED
  BY <1>7, <1>8, <1>9, <1>10, <1>11, <1>12, <1>18, <1>19

LEMMA SessionKeepsInv ==
    ASSUME IInv, NEW s \in Sessions, SessionStep(s) PROVE SessionInv' /\ StoreInv'
BY CallsKeepInv, StoreQuiet, WriteBodyKeepsInv, CommitKeepsInv DEF SessionStep, IInv

----------------------------------------------------------------------------
(* The sweep *)

\* A step of the sweep that touches nothing but what the sweep remembers.
LEMMA SweepMoves ==
    ASSUME StoreInv, SweepInv', UNCHANGED <<storeVars, blobs, issued, doomed, reader>>
    PROVE  StoreInv'
BY DEF StoreInv, storeVars, CatalogueInv, ReaderInv, NothingLost, HeldXorReleased,
       PurgeIsComplete, BodyOnDisk, EnvelopesStayHome, MissingFileMeansPurged, Catalogued

LEMMA SweepReadsKeepInv ==
    ASSUME IInv,
           \/ SweepExpiredFails \/ SweepPrincipals \/ SweepList
           \/ \E p \in Principals : SweepDevices(p)
           \/ \E m \in Messages : SweepAborts(m)
           \/ SweepPrincipalDone \/ SweepDone \/ SweepFails
    PROVE  SessionInv' /\ StoreInv'
<1>1. TypeOK /\ SessionInv /\ StoreInv /\ SweepInv /\ sweep \in Sweeps
  BY DEF IInv, StoreInv, TypeOK
<1>2. UNCHANGED <<storeVars, blobs, issued, doomed, reader, delivery>>
  BY DEF SweepExpiredFails, SweepPrincipals, SweepList, SweepDevices, SweepAborts,
         SweepPrincipalDone, SweepDone, SweepFails
<1>3. UNCHANGED <<rowOwner, hold, erased>>
  BY <1>2 DEF storeVars
<1> SUFFICES SweepInv'
  BY <1>1, <1>2, <1>3, SessionQuiet, SweepMoves
<1>a. SweepInv' = (
        /\ sweep'.at \in {"list", "release"} =>
              sweep'.devs # {} /\ \A d \in sweep'.devs : DeviceOwner[d] = sweep'.who
        /\ sweep'.at # "release" => sweep'.items = {}
        /\ \A m \in sweep'.items :
              (rowOwner[m] = sweep'.who /\ hold[m] # "none") \/ m \in erased)
  BY <1>3 DEF SweepInv
<1>4. ASSUME sweep' \in {NextPrincipal, IdleSweep} PROVE SweepInv'
  <2>0. /\ NextPrincipal.at = "next" /\ NextPrincipal.items = {}
        /\ IdleSweep.at = "idle" /\ IdleSweep.items = {}
    BY DEF NextPrincipal, IdleSweep
  <2>1. sweep'.at \in {"next", "idle"} /\ sweep'.items = {}
    BY <1>4, <2>0
  <2> QED
    BY <1>a, <2>1
<1>5. CASE SweepExpiredFails \/ SweepPrincipals
  BY <1>1, <1>a, <1>5 DEF SweepExpiredFails, SweepPrincipals, SweepInv, Sweeps
<1>6. CASE SweepList
  BY <1>1, <1>a, <1>6 DEF SweepList, HeldFor, SweepInv, Sweeps
<1>7. ASSUME NEW p \in Principals, SweepDevices(p) PROVE SweepInv'
  <2>1. \A d \in ActiveDevices(p) : DeviceOwner[d] = p
    BY DEF ActiveDevices
  <2> QED
    BY <1>1, <1>a, <1>7, <2>1 DEF SweepDevices, SweepInv, Sweeps
<1> QED
  BY <1>4, <1>5, <1>6, <1>7 DEF SweepAborts, SweepPrincipalDone, SweepDone, SweepFails

LEMMA SweepExpiredKeepsInv == ASSUME IInv, SweepExpired PROVE SessionInv' /\ StoreInv'
<1>1. /\ \A m \in Messages : /\ hold[m] = "due" => hold'[m] = "none" /\ m \in lapsed'
                             /\ hold[m] # "due" => hold'[m] = hold[m]
                             /\ m \in lapsed => m \in lapsed'
      /\ UNCHANGED <<rowOwner, envelopes, blobs, issued, delivery, doomed, reader, erased>>
  BY DEF SweepExpired
<1>2. sweep'.at = "principals" /\ sweep'.items = {}
  BY DEF SweepExpired, IInv, StoreInv, SweepInv, TypeOK, Sweeps
<1>3. SessionInv'
  BY <1>1, SessionQuiet DEF IInv
<1>4. CatalogueInv' /\ SweepInv' /\ ReaderInv'
  BY <1>1, <1>2 DEF IInv, StoreInv, CatalogueInv, SweepInv, ReaderInv, Catalogued
<1>5. NothingLost' /\ HeldXorReleased' /\ PurgeIsComplete'
  BY <1>1 DEF IInv, StoreInv, NothingLost, HeldXorReleased, PurgeIsComplete, Catalogued
<1>6. BodyOnDisk' /\ EnvelopesStayHome' /\ MissingFileMeansPurged'
  BY <1>1 DEF IInv, StoreInv, BodyOnDisk, EnvelopesStayHome, MissingFileMeansPurged, Catalogued
<1> QED
  BY <1>3, <1>4, <1>5, <1>6 DEF StoreInv

LEMMA SweepReleaseKeepsInv ==
    ASSUME IInv, NEW m \in Messages, SweepRelease(m) PROVE SessionInv' /\ StoreInv'
<1>1. /\ m \in sweep.items /\ rowOwner[m] # None
      /\ envelopes'[m] = envelopes[m] \cup sweep.devs /\ hold'[m] = "none"
      /\ \A x \in Messages : x # m => envelopes'[x] = envelopes[x] /\ hold'[x] = hold[x]
      /\ UNCHANGED <<rowOwner, blobs, issued, delivery, doomed, reader, lapsed, erased>>
  BY DEF SweepRelease, IInv, TypeOK
<1>2. /\ sweep.devs # {} /\ \A d \in sweep.devs : DeviceOwner[d] = sweep.who
      /\ rowOwner[m] = sweep.who
  BY <1>1 DEF SweepRelease, IInv, StoreInv, SweepInv, CatalogueInv, Catalogued
<1>3. SessionInv'
  BY <1>1, SessionQuiet DEF IInv
<1>4. CatalogueInv' /\ ReaderInv'
  BY <1>1 DEF IInv, StoreInv, CatalogueInv, ReaderInv, Catalogued
<1>5. SweepInv'
  BY <1>1 DEF IInv, StoreInv, SweepInv, SweepRelease, TypeOK, Sweeps
<1>6. NothingLost' /\ HeldXorReleased' /\ PurgeIsComplete'
  BY <1>1, <1>2 DEF IInv, StoreInv, NothingLost, HeldXorReleased, PurgeIsComplete, Catalogued
<1>7. BodyOnDisk' /\ EnvelopesStayHome' /\ MissingFileMeansPurged'
  BY <1>1, <1>2 DEF IInv, StoreInv, BodyOnDisk, EnvelopesStayHome, MissingFileMeansPurged, Catalogued
<1> QED
  BY <1>3, <1>4, <1>5, <1>6, <1>7 DEF StoreInv

LEMMA RestartMxdKeepsInv == ASSUME IInv, RestartMxd PROVE SessionInv' /\ StoreInv'
<1>1. UNCHANGED <<storeVars, blobs, issued, doomed, reader>>
  BY DEF RestartMxd
<1>2. SweepInv'
  BY DEF RestartMxd, IdleSweep, SweepInv
<1>3. \A s \in Sessions : delivery'[s] = IdleDelivery
  BY DEF RestartMxd
<1>4. SessionInv'
  BY <1>3 DEF IdleDelivery, SessionInv, DeliveryInv, OpeningsDiffer, ReplyInv, ReplyIsDurable
<1> QED
  BY <1>1, <1>2, <1>4, SweepMoves DEF IInv

----------------------------------------------------------------------------
(* Owners, devices, the clock and the fetches *)

LEMMA PurgeKeepsInv ==
    ASSUME IInv, NEW m \in Messages, Purge(m) PROVE SessionInv' /\ StoreInv'
<1>1. /\ rowOwner[m] # None /\ rowOwner'[m] = None
      /\ envelopes'[m] = {} /\ hold'[m] = "none"
      /\ \A x \in Messages : x # m => /\ rowOwner'[x] = rowOwner[x]
                                      /\ envelopes'[x] = envelopes[x] /\ hold'[x] = hold[x]
      /\ doomed' = doomed \cup {m} /\ erased' = erased \cup {m}
      /\ UNCHANGED <<blobs, issued, delivery, sweep, reader, lapsed>>
  BY DEF Purge, IInv, TypeOK
<1>2. \A s \in Sessions : delivery[s].at = "commit" => delivery[s].msg # m
  BY <1>1 DEF IInv, SessionInv, DeliveryInv
<1>3. DeliveryInv'
  <2>1. \A s \in Sessions : delivery[s].at = "commit" => rowOwner'[delivery[s].msg] = None
    BY <1>1, <1>2 DEF IInv, SessionInv, DeliveryInv, TypeOK
  <2> QED
    BY <1>1, <1>2, <2>1 DEF IInv, SessionInv, DeliveryInv
<1>4. OpeningsDiffer' /\ ReplyInv'
  BY <1>1 DEF IInv, SessionInv, OpeningsDiffer, ReplyInv
<1>5. ReplyIsDurable'
  <2>1. \A s \in Sessions : delivery[s].stored \subseteq Messages
    BY DEF IInv, TypeOK, Jobs
  <2> QED
    BY <1>1, <2>1 DEF IInv, SessionInv, ReplyIsDurable, Catalogued
<1>6. CatalogueInv' /\ ReaderInv'
  BY <1>1 DEF IInv, StoreInv, CatalogueInv, ReaderInv, Catalogued
<1>7. SweepInv'
  <2>1. sweep.items \subseteq Messages
    BY DEF IInv, TypeOK, Sweeps
  <2> QED
    BY <1>1, <2>1 DEF IInv, StoreInv, SweepInv
<1>8. NothingLost' /\ HeldXorReleased' /\ PurgeIsComplete'
  BY <1>1 DEF IInv, StoreInv, NothingLost, HeldXorReleased, PurgeIsComplete, Catalogued
<1>9. BodyOnDisk' /\ EnvelopesStayHome' /\ MissingFileMeansPurged'
  BY <1>1 DEF IInv, StoreInv, BodyOnDisk, EnvelopesStayHome, MissingFileMeansPurged, Catalogued
<1> QED
  BY <1>3, <1>4, <1>5, <1>6, <1>7, <1>8, <1>9 DEF SessionInv, StoreInv

LEMMA DeleteBodyKeepsInv ==
    ASSUME IInv, NEW m \in Messages, DeleteBody(m) PROVE SessionInv' /\ StoreInv'
<1>1. /\ m \in doomed /\ m \in erased /\ rowOwner[m] = None
      /\ blobs' = blobs \ {m} /\ doomed' = doomed \ {m}
      /\ UNCHANGED <<rowOwner, envelopes, hold, lapsed, erased, issued, delivery, sweep, reader>>
  BY DEF DeleteBody, storeVars, IInv, StoreInv, CatalogueInv, Catalogued
<1>2. SessionInv'
  BY <1>1 DEF IInv, SessionInv, DeliveryInv, OpeningsDiffer, ReplyInv, ReplyIsDurable, Catalogued
<1>3. CatalogueInv' /\ SweepInv' /\ ReaderInv'
  BY <1>1 DEF IInv, StoreInv, CatalogueInv, SweepInv, ReaderInv, Catalogued
<1>4. /\ NothingLost' /\ HeldXorReleased' /\ PurgeIsComplete'
      /\ BodyOnDisk' /\ EnvelopesStayHome' /\ MissingFileMeansPurged'
  BY <1>1 DEF IInv, StoreInv, NothingLost, HeldXorReleased, PurgeIsComplete, BodyOnDisk,
              EnvelopesStayHome, MissingFileMeansPurged, Catalogued
<1> QED
  BY <1>2, <1>3, <1>4 DEF StoreInv

LEMMA HoldExpiresKeepsInv ==
    ASSUME IInv, NEW m \in Messages, HoldExpires(m) PROVE SessionInv' /\ StoreInv'
<1>1. /\ hold[m] # "none" /\ hold'[m] # "none"
      /\ \A x \in Messages : x # m => hold'[x] = hold[x]
      /\ UNCHANGED <<rowOwner, envelopes, lapsed, erased, blobs, issued, delivery, sweep, doomed, reader>>
  BY DEF HoldExpires, IInv, TypeOK
<1>2. SessionInv'
  BY <1>1, SessionQuiet DEF IInv
<1>3. CatalogueInv' /\ SweepInv' /\ ReaderInv'
  <2>1. sweep.items \subseteq Messages
    BY DEF IInv, TypeOK, Sweeps
  <2> QED
    BY <1>1, <2>1 DEF IInv, StoreInv, CatalogueInv, SweepInv, ReaderInv, Catalogued
<1>4. /\ NothingLost' /\ HeldXorReleased' /\ PurgeIsComplete'
      /\ BodyOnDisk' /\ EnvelopesStayHome' /\ MissingFileMeansPurged'
  BY <1>1 DEF IInv, StoreInv, NothingLost, HeldXorReleased, PurgeIsComplete, BodyOnDisk,
              EnvelopesStayHome, MissingFileMeansPurged, Catalogued
<1> QED
  BY <1>2, <1>3, <1>4 DEF StoreInv

LEMMA FetchKeepsInv ==
    ASSUME IInv, NEW r \in Readers, FetchStep(r) PROVE SessionInv' /\ StoreInv'
<1>1. UNCHANGED <<rowOwner, envelopes, hold, lapsed, erased, blobs, issued, delivery, sweep, doomed>>
  BY DEF FetchStep, FetchRow, FetchFile, FetchEnvelope, storeVars
<1>2. SessionInv'
  BY <1>1, SessionQuiet DEF IInv
<1>3. /\ CatalogueInv' /\ SweepInv' /\ NothingLost' /\ HeldXorReleased'
      /\ PurgeIsComplete' /\ BodyOnDisk' /\ EnvelopesStayHome'
  BY <1>1 DEF IInv, StoreInv, CatalogueInv, SweepInv, NothingLost, HeldXorReleased,
              PurgeIsComplete, BodyOnDisk, EnvelopesStayHome, Catalogued
<1>4. \A x \in Readers : x # r => reader'[x] = reader[x]
  BY DEF FetchStep, FetchRow, FetchFile, FetchEnvelope, Answer, IInv, TypeOK
<1>5. /\ reader'[r].at # "idle" => /\ reader'[r].msg \in Messages
                                   /\ Catalogued(reader'[r].msg) \/ reader'[r].msg \in erased
      /\ reader'[r].result = "no file" => reader'[r].msg \in erased
  <2>1. ASSUME NEW m \in Messages, NEW d \in Devices, FetchRow(r, m, d)
        PROVE  /\ reader'[r].msg = m /\ reader'[r].result # "no file"
               /\ reader'[r].at # "idle" => rowOwner[m] # None
    <3>1. DeviceOwner[d] # None
      BY OwnerAssumption, NoneAssumption
    <3> QED
      BY <2>1, <3>1 DEF FetchRow, IInv, TypeOK
  <2>2. CASE FetchFile(r)
    <3>1. /\ reader[r].msg \in Messages
          /\ reader[r].msg \in blobs \/ reader[r].msg \in erased
          /\ reader[r].result = "no file" => reader[r].msg \in erased
          /\ Catalogued(reader[r].msg) \/ reader[r].msg \in erased
      BY <2>2 DEF FetchFile, IInv, StoreInv, ReaderInv, BodyOnDisk, MissingFileMeansPurged
    <3>2. /\ reader'[r].msg = reader[r].msg
          /\ \/ reader'[r].result = reader[r].result
             \/ reader[r].msg \notin blobs
      <4>1. reader \in [Readers -> Fetches]
        BY DEF IInv, TypeOK
      <4>2. /\ reader[r].msg \in blobs => reader' = [reader EXCEPT ![r].at = "envelope"]
            /\ reader[r].msg \notin blobs =>
                  reader' = [reader EXCEPT ![r].at = "idle", ![r].result = "no file"]
        BY <2>2 DEF FetchFile, Answer
      <4>3. CASE reader[r].msg \in blobs
        BY <4>1, <4>2, <4>3 DEF Fetches
      <4>4. CASE reader[r].msg \notin blobs
        <5> DEFINE left == [reader EXCEPT ![r].at = "idle"]
        <5>1. left \in [Readers -> Fetches] /\ left[r].msg = reader[r].msg
          BY <4>1 DEF Fetches
        <5>2. reader' = [left EXCEPT ![r].result = "no file"]
          BY <4>2, <4>4
        <5> HIDE DEF left
        <5> QED BY <4>4, <5>1, <5>2 DEF Fetches
      <4> QED BY <4>3, <4>4
    <3> QED BY <3>1, <3>2
  <2>3. CASE FetchEnvelope(r)
    BY <2>3 DEF FetchEnvelope, Answer, IInv, TypeOK, Fetches
  <2> QED
    BY <2>1, <2>2, <2>3 DEF FetchStep, Catalogued
<1>6. ReaderInv' /\ MissingFileMeansPurged'
  BY <1>1, <1>4, <1>5 DEF IInv, StoreInv, ReaderInv, MissingFileMeansPurged, Catalogued
<1> QED
  BY <1>2, <1>3, <1>6 DEF StoreInv

LEMMA OthersKeepInv ==
    ASSUME IInv,
           \/ RestartMaild
           \/ \E d \in Devices, k \in PublishedKeys : Publish(d, k)
           \/ \E m \in Messages : DeleteBodyFails(m)
    PROVE  SessionInv' /\ StoreInv'
<1>1. UNCHANGED <<rowOwner, envelopes, hold, lapsed, erased, blobs, issued, delivery, sweep>>
  BY DEF RestartMaild, Publish, DeleteBodyFails, storeVars
<1>2. doomed' \subseteq doomed
  BY DEF RestartMaild, Publish, DeleteBodyFails
<1>3. SessionInv'
  BY <1>1, SessionQuiet DEF IInv
<1>4. ReaderInv' /\ MissingFileMeansPurged'
  <2>1. CASE UNCHANGED reader
    BY <1>1, <2>1 DEF IInv, StoreInv, ReaderInv, MissingFileMeansPurged, Catalogued
  <2>2. CASE RestartMaild
    BY <2>2 DEF RestartMaild, IdleReader, ReaderInv, MissingFileMeansPurged
  <2> QED
    BY <2>1, <2>2 DEF Publish, DeleteBodyFails
<1>5. /\ CatalogueInv' /\ SweepInv' /\ NothingLost' /\ HeldXorReleased'
      /\ PurgeIsComplete' /\ BodyOnDisk' /\ EnvelopesStayHome'
  BY <1>1, <1>2 DEF IInv, StoreInv, CatalogueInv, SweepInv, NothingLost, HeldXorReleased,
                    PurgeIsComplete, BodyOnDisk, EnvelopesStayHome, Catalogued
<1> QED
  BY <1>3, <1>4, <1>5 DEF StoreInv

----------------------------------------------------------------------------
(* Theorems *)

LEMMA InitInv == Init => IInv
<1> SUFFICES ASSUME Init PROVE IInv
  OBVIOUS
<1>1. /\ \A s \in Sessions : delivery[s] = IdleDelivery
      /\ \A r \in Readers : reader[r] = IdleReader
      /\ \A m \in Messages : rowOwner[m] = None /\ envelopes[m] = {} /\ hold[m] = "none"
      /\ sweep = IdleSweep /\ doomed = {} /\ erased = {} /\ issued = {}
  BY DEF Init
<1>2. SessionInv
  BY <1>1 DEF IdleDelivery, SessionInv, DeliveryInv, OpeningsDiffer, ReplyInv, ReplyIsDurable
<1>3. CatalogueInv /\ SweepInv /\ ReaderInv
  BY <1>1 DEF IdleSweep, IdleReader, CatalogueInv, SweepInv, ReaderInv, Catalogued
<1>4. /\ NothingLost /\ HeldXorReleased /\ PurgeIsComplete
      /\ BodyOnDisk /\ EnvelopesStayHome
  BY <1>1 DEF NothingLost, HeldXorReleased, PurgeIsComplete, BodyOnDisk, EnvelopesStayHome,
              Catalogued
<1>5. MissingFileMeansPurged
  <2>1. IdleReader.result # "no file"
    BY DEF IdleReader
  <2> QED
    BY <1>1, <2>1 DEF MissingFileMeansPurged
<1> QED
  BY <1>2, <1>3, <1>4, <1>5, InitTypes DEF IInv, StoreInv

LEMMA NextKeepsInv == IInv /\ [Next]_vars => IInv'
<1> SUFFICES ASSUME IInv, [Next]_vars PROVE IInv'
  OBVIOUS
<1>1. TypeOK'
  BY Typing DEF IInv, SessionInv
<1>2. CASE UNCHANGED vars
  <2>1. SessionInv' /\ StoreInv'
    BY <1>2, SessionQuiet, StoreQuiet DEF IInv, vars, storeVars
  <2> QED
    BY <1>1, <2>1 DEF IInv
<1>3. CASE Next
  <2>1. SessionInv' /\ StoreInv'
    BY <1>3, SessionKeepsInv, SweepReadsKeepInv, SweepExpiredKeepsInv, SweepReleaseKeepsInv,
       RestartMxdKeepsInv, PurgeKeepsInv, DeleteBodyKeepsInv, HoldExpiresKeepsInv,
       FetchKeepsInv, OthersKeepInv DEF Next, SweepStep
  <2> QED
    BY <1>1, <2>1 DEF IInv
<1> QED
  BY <1>2, <1>3

\* The inductive invariant holds in every reachable state.
THEOREM Invariance == Spec => []IInv
BY InitInv, NextKeepsInv, PTL DEF Spec

\* Every variable keeps its type in every behaviour of the store.
THEOREM TypeCorrectness == Spec => []TypeOK
<1>1. IInv => TypeOK
  BY DEF IInv
<1> QED
  BY <1>1, Invariance, PTL

\* No crash, error or interleaving leaves a catalogued message without an
\* envelope and without a hold row, except the expiry of its hold.
THEOREM NoMailLost == Spec => []NothingLost
<1>1. IInv => NothingLost
  BY DEF IInv, StoreInv
<1> QED
  BY <1>1, Invariance, PTL

\* The server-side copy of a message key and the device envelopes of the
\* message never exist together, and a purge that races the release of the same
\* message, or a delivery, leaves neither behind.
THEOREM KeysStayWithTheMail == Spec => []KeysFollowTheMail
<1>1. IInv => KeysFollowTheMail
  BY DEF IInv, StoreInv, KeysFollowTheMail
<1> QED
  BY <1>1, Invariance, PTL

\* The file of a catalogued message is on disk at every moment.
THEOREM BodiesAreOnDisk == Spec => []BodyOnDisk
<1>1. IInv => BodyOnDisk
  BY DEF IInv, StoreInv
<1> QED
  BY <1>1, Invariance, PTL

\* No key reaches a device of another principal, whatever snapshots of the
\* directory the deliveries and the sweep work from.
THEOREM EnvelopesNeverLeak == Spec => []EnvelopesStayHome
<1>1. IInv => EnvelopesStayHome
  BY DEF IInv, StoreInv
<1> QED
  BY <1>1, Invariance, PTL

\* The reply to DATA agrees with what was stored, for any list of recipients.
THEOREM RepliesAreDurable == Spec => []ReplyIsDurable
<1>1. IInv => ReplyIsDurable
  BY DEF IInv, SessionInv
<1> QED
  BY <1>1, Invariance, PTL

\* A fetch that misses the body file has met a purge, for any number of
\* concurrent fetches.
THEOREM MissingFilesArePurged == Spec => []MissingFileMeansPurged
<1>1. IInv => MissingFileMeansPurged
  BY DEF IInv, StoreInv
<1> QED
  BY <1>1, Invariance, PTL

----------------------------------------------------------------------------
(* The bound of the hold queue: the size check and the insertion are       *)
(* separate calls, so every session that passed the check counts as a      *)
(* message to come.                                                        *)

\* Held messages of p, and messages that will be held without another check.
QueueInv ==
    \A p \in Principals :
        Cardinality(HeldFor(p)) + Cardinality(Holding(p))
            <= MaxHeld + Cardinality(Sessions) - 1

LEMMA Finiteness ==
    ASSUME NEW p
    PROVE  /\ IsFiniteSet(HeldFor(p)) /\ IsFiniteSet(Holding(p))
           /\ Cardinality(HeldFor(p)) \in Nat /\ Cardinality(Holding(p)) \in Nat
           /\ Cardinality(Sessions) \in Nat /\ Cardinality(Holding(p)) <= Cardinality(Sessions)
<1>1. HeldFor(p) \subseteq Messages /\ Holding(p) \subseteq Sessions
  BY DEF HeldFor, Holding
<1> QED
  BY <1>1, FiniteAssumption, FS_Subset, FS_CardinalityType

LEMMA Shrinks ==
    ASSUME QueueInv,
           \A p \in Principals : /\ HeldFor(p)' \subseteq HeldFor(p)
                                 /\ Holding(p)' \subseteq Holding(p)
    PROVE  QueueInv'
<1> SUFFICES ASSUME NEW p \in Principals
             PROVE  Cardinality(HeldFor(p)') + Cardinality(Holding(p)')
                        <= MaxHeld + Cardinality(Sessions) - 1
  BY DEF QueueInv
<1>1. /\ IsFiniteSet(HeldFor(p)') /\ Cardinality(HeldFor(p)') <= Cardinality(HeldFor(p))
      /\ IsFiniteSet(Holding(p)') /\ Cardinality(Holding(p)') <= Cardinality(Holding(p))
  BY Finiteness, FS_Subset
<1>2. Cardinality(HeldFor(p)') \in Nat /\ Cardinality(Holding(p)') \in Nat
  BY <1>1, FS_CardinalityType
<1> QED
  BY <1>1, <1>2, Finiteness, BoundsAssumption DEF QueueInv

\* A session counts as holding for p only if it already did, unless it goes
\* from the check of the bound to the part of the code that inserts.
LEMMA HoldingShrinks ==
    ASSUME IInv, NEW p \in Principals, NEW s \in Sessions, NEW job,
           delivery' = [delivery EXCEPT ![s] = job],
           \/ job.at \in {"idle", "directory", "count"} \/ job.devs # {}
           \/ /\ job.todo = delivery[s].todo /\ job.devs = delivery[s].devs
              /\ delivery[s].at \in {"folder", "mkfolder", "store"}
    PROVE  Holding(p)' \subseteq Holding(p)
<1>1. /\ delivery'[s] = job
      /\ \A t \in Sessions : t # s => delivery'[t] = delivery[t]
  BY DEF IInv, TypeOK
<1> QED
  BY <1>1 DEF Holding, Recipient

\* The check leaves room for one message of every session.
LEMMA CheckLeavesRoom ==
    ASSUME IInv, QueueInv, NEW s \in Sessions, CountHeld(s) PROVE QueueInv'
<1>0. delivery[s] \in Jobs /\ delivery[s].todo # <<>>
  BY DEF IInv, TypeOK, SessionInv, DeliveryInv, CountHeld
<1>1. \A p \in Principals : HeldFor(p)' = HeldFor(p)
  BY DEF CountHeld, storeVars, HeldFor
<1>2. CASE Cardinality(HeldFor(Recipient(s))) >= MaxHeld
  <2>1. delivery' = [delivery EXCEPT ![s] = Refused(delivery[s])]
    BY <1>2 DEF CountHeld
  <2>2. Refused(delivery[s]).at = "directory"
    BY <1>0 DEF Refused, Jobs
  <2> QED
    BY <1>1, <2>1, <2>2, HoldingShrinks, Shrinks
<1>3. CASE ~(Cardinality(HeldFor(Recipient(s))) >= MaxHeld)
  <2> DEFINE job == [delivery[s] EXCEPT !.at = "folder"]
  <2>1. /\ delivery'[s] = job
        /\ \A t \in Sessions : t # s => delivery'[t] = delivery[t]
    BY <1>3 DEF CountHeld, IInv, TypeOK
  <2>2. job.todo = delivery[s].todo
    BY <1>0 DEF Jobs
  <2> SUFFICES ASSUME NEW p \in Principals
               PROVE  Cardinality(HeldFor(p)') + Cardinality(Holding(p)')
                          <= MaxHeld + Cardinality(Sessions) - 1
    BY DEF QueueInv
  <2>3. CASE p = Recipient(s)
    <3>1. Holding(p)' \subseteq Sessions
      BY DEF Holding
    <3>2. Cardinality(Holding(p)') <= Cardinality(Sessions) /\ Cardinality(Holding(p)') \in Nat
      BY <3>1, FiniteAssumption, FS_Subset, FS_CardinalityType
    <3>3. Cardinality(HeldFor(p)') < MaxHeld
      BY <1>1, <1>3, <2>3, Finiteness, BoundsAssumption
    <3>4. Cardinality(HeldFor(p)') \in Nat
      BY <1>1, Finiteness
    <3>5. \A h, k, b, n \in Nat : h < b /\ k <= n => h + k <= b + n - 1
      OBVIOUS
    <3>6. Cardinality(Sessions) \in Nat
      BY Finiteness
    <3> QED
      BY <3>2, <3>3, <3>4, <3>5, <3>6, BoundsAssumption
  <2>4. CASE p # Recipient(s)
    <3>1. Holding(p)' \subseteq Holding(p)
      BY <2>1, <2>2, <2>4 DEF Holding, Recipient
    <3>2. /\ Cardinality(Holding(p)') <= Cardinality(Holding(p))
          /\ Cardinality(Holding(p)') \in Nat
      BY <3>1, Finiteness, FS_Subset, FS_CardinalityType
    <3> QED
      BY <1>1, <3>2, Finiteness, BoundsAssumption DEF QueueInv
  <2> QED
    BY <2>3, <2>4
<1> QED
  BY <1>2, <1>3

\* The insertion moves a message from the ones to come to the queue.
LEMMA CommitHeldKeepsBound ==
    ASSUME IInv, QueueInv, NEW s \in Sessions, CommitHeld(s) PROVE QueueInv'
<1>1. /\ delivery[s] \in Jobs /\ delivery[s].todo # <<>> /\ delivery[s].msg \in Messages
      /\ delivery[s].at = "commit" /\ delivery[s].devs = {}
  BY DEF IInv, TypeOK, SessionInv, DeliveryInv, CommitHeld
<1>2. PICK job : delivery' = [delivery EXCEPT ![s] = job] /\ job.at = "directory"
  <2>1. /\ Refused(delivery[s]).at = "directory"
        /\ Served(delivery[s], delivery[s].msg).at = "directory"
    BY <1>1 DEF Refused, Served, Jobs
  <2> QED
    BY <2>1 DEF CommitHeld, CommitSeen
<1>3. /\ delivery'[s].at = "directory"
      /\ \A t \in Sessions : t # s => delivery'[t] = delivery[t]
  BY <1>2 DEF IInv, TypeOK
<1> SUFFICES ASSUME NEW p \in Principals
             PROVE  Cardinality(HeldFor(p)') + Cardinality(Holding(p)')
                        <= MaxHeld + Cardinality(Sessions) - 1
  BY DEF QueueInv
<1>4. /\ rowOwner' = [rowOwner EXCEPT ![delivery[s].msg] = Recipient(s)]
      /\ hold' = [hold EXCEPT ![delivery[s].msg] = "held"]
  BY DEF CommitHeld
<1>5. CASE p = Recipient(s)
  <2>1. HeldFor(p)' \subseteq HeldFor(p) \cup {delivery[s].msg}
    BY <1>1, <1>4 DEF HeldFor, IInv, TypeOK
  <2>2. Holding(p)' \subseteq Holding(p) \ {s} /\ s \in Holding(p)
    BY <1>1, <1>3, <1>5 DEF Holding, Recipient
  <2>3. /\ Cardinality(HeldFor(p)') \in Nat
        /\ Cardinality(HeldFor(p)') <= Cardinality(HeldFor(p)) + 1
    <3>0. IsFiniteSet(HeldFor(p)) /\ Cardinality(HeldFor(p)) \in Nat
      BY Finiteness
    <3>1. /\ IsFiniteSet(HeldFor(p) \cup {delivery[s].msg})
          /\ Cardinality(HeldFor(p) \cup {delivery[s].msg}) <= Cardinality(HeldFor(p)) + 1
      <4>1. /\ IsFiniteSet(HeldFor(p) \cup {delivery[s].msg})
            /\ Cardinality(HeldFor(p) \cup {delivery[s].msg})
                   \in {Cardinality(HeldFor(p)), Cardinality(HeldFor(p)) + 1}
        BY <3>0, FS_AddElement
      <4> QED BY <3>0, <4>1
    <3>2. /\ IsFiniteSet(HeldFor(p)')
          /\ Cardinality(HeldFor(p)') <= Cardinality(HeldFor(p) \cup {delivery[s].msg})
      BY <2>1, <3>1, FS_Subset
    <3> QED
      BY <3>1, <3>2, Finiteness, FS_CardinalityType
  <2>4. /\ Cardinality(Holding(p)') \in Nat
        /\ Cardinality(Holding(p)') <= Cardinality(Holding(p)) - 1
    <3>1. /\ IsFiniteSet(Holding(p) \ {s})
          /\ Cardinality(Holding(p) \ {s}) = Cardinality(Holding(p)) - 1
      BY <2>2, Finiteness, FS_RemoveElement
    <3>2. /\ IsFiniteSet(Holding(p)')
          /\ Cardinality(Holding(p)') <= Cardinality(Holding(p) \ {s})
      BY <2>2, <3>1, FS_Subset
    <3> QED
      BY <3>1, <3>2, FS_CardinalityType
  <2> QED
    BY <2>3, <2>4, Finiteness, BoundsAssumption DEF QueueInv
<1>6. CASE p # Recipient(s)
  <2>1. HeldFor(p)' \subseteq HeldFor(p)
    BY <1>1, <1>4, <1>6 DEF HeldFor, IInv, TypeOK
  <2>2. Holding(p)' \subseteq Holding(p)
    BY <1>2, HoldingShrinks
  <2>3. /\ Cardinality(HeldFor(p)') \in Nat /\ Cardinality(Holding(p)') \in Nat
        /\ Cardinality(HeldFor(p)') <= Cardinality(HeldFor(p))
        /\ Cardinality(Holding(p)') <= Cardinality(Holding(p))
    BY <2>1, <2>2, Finiteness, FS_Subset, FS_CardinalityType
  <2> QED
    BY <2>3, Finiteness, BoundsAssumption DEF QueueInv
<1> QED
  BY <1>5, <1>6

LEMMA SessionBound ==
    ASSUME IInv, QueueInv, NEW s \in Sessions, SessionStep(s) PROVE QueueInv'
<1>0. /\ delivery[s] \in Jobs
      /\ delivery[s].at = "commit" => delivery[s].todo # <<>> /\ delivery[s].msg \in Messages
  BY DEF IInv, TypeOK, SessionInv, DeliveryInv
<1>m. ASSUME NEW job, delivery' = [delivery EXCEPT ![s] = job],
             \/ job.at \in {"idle", "directory", "count"} \/ job.devs # {}
             \/ /\ job.todo = delivery[s].todo /\ job.devs = delivery[s].devs
                /\ delivery[s].at \in {"folder", "mkfolder", "store"},
             \A p \in Principals : HeldFor(p)' \subseteq HeldFor(p)
      PROVE  QueueInv'
  BY <1>m, HoldingShrinks, Shrinks
<1>r. Refused(delivery[s]).at = "directory"
  BY <1>0 DEF Refused, Jobs
<1>q. ASSUME UNCHANGED storeVars PROVE \A p \in Principals : HeldFor(p)' \subseteq HeldFor(p)
  BY <1>q DEF HeldFor, storeVars
<1>1. ASSUME NEW rcpts \in RecipientLists, StartData(s, rcpts) PROVE QueueInv'
  <2> DEFINE job == [IdleDelivery EXCEPT !.at = "directory", !.todo = rcpts]
  <2>1. delivery' = [delivery EXCEPT ![s] = job] /\ UNCHANGED storeVars
    BY <1>1 DEF StartData
  <2>2. job.at = "directory"
    BY DEF IdleDelivery
  <2> QED
    BY <1>m, <1>q, <2>1, <2>2
<1>2. CASE FindNoDevice(s)
  <2>1. [delivery[s] EXCEPT !.at = "count"].at = "count"
    BY <1>0 DEF Jobs
  <2> QED
    BY <1>2, <1>m, <1>q, <2>1 DEF FindNoDevice
<1>3. CASE WrapForDevices(s)
  <2> DEFINE ds == Wrappable(ActiveDevices(Recipient(s)))
             job == [delivery[s] EXCEPT !.at = "folder", !.devs = ds]
  <2>1. job.devs = ds
    BY <1>0 DEF Jobs
  <2>2. CASE ds = {}
    BY <1>3, <1>m, <1>q, <1>r, <2>2 DEF WrapForDevices
  <2>3. CASE ds # {}
    BY <1>3, <1>m, <1>q, <2>1, <2>3 DEF WrapForDevices
  <2> QED
    BY <2>2, <2>3
<1>5. CASE FindInbox(s) \/ CreateInbox(s)
  <2>1. PICK a : delivery' = [delivery EXCEPT ![s].at = a]
    BY <1>5 DEF FindInbox, CreateInbox
  <2> DEFINE job == [delivery[s] EXCEPT !.at = a]
  <2>2. job.todo = delivery[s].todo /\ job.devs = delivery[s].devs
    BY <1>0 DEF Jobs
  <2>3. delivery[s].at \in {"folder", "mkfolder"} /\ UNCHANGED storeVars
    BY <1>5 DEF FindInbox, CreateInbox
  <2> QED
    BY <1>m, <1>q, <2>1, <2>2, <2>3
<1>6. ASSUME NEW m \in Messages, WriteBody(s, m) PROVE QueueInv'
  <2> DEFINE job == [delivery[s] EXCEPT !.at = "commit", !.msg = m]
  <2>1. job.todo = delivery[s].todo /\ job.devs = delivery[s].devs
    BY <1>0 DEF Jobs
  <2>2. /\ delivery' = [delivery EXCEPT ![s] = job] /\ delivery[s].at = "store"
        /\ UNCHANGED storeVars
    BY <1>6 DEF WriteBody
  <2> QED
    BY <1>m, <1>q, <2>1, <2>2
<1>7. CASE CommitInbound(s)
  <2>1. /\ delivery[s].msg \in Messages /\ rowOwner[delivery[s].msg] = None
        /\ hold[delivery[s].msg] = "none"
    BY <1>0, <1>7 DEF CommitInbound, IInv, SessionInv, DeliveryInv, StoreInv, PurgeIsComplete,
                      Catalogued
  <2>2. \A p \in Principals : HeldFor(p)' \subseteq HeldFor(p)
    BY <1>7, <2>1 DEF CommitInbound, HeldFor, IInv, TypeOK
  <2>3. Served(delivery[s], delivery[s].msg).at = "directory"
    BY <1>0 DEF Served, Jobs
  <2> QED
    BY <1>7, <1>m, <1>r, <2>2, <2>3 DEF CommitInbound, CommitSeen
<1>8. CASE RecipientFails(s)
  BY <1>8, <1>m, <1>q, <1>r DEF RecipientFails
<1>9. CASE Reply(s)
  <2> DEFINE r == IF delivery[s].stored # {} THEN "250" ELSE "451"
             job == [delivery[s] EXCEPT !.at = "idle", !.reply = r]
  <2>1. job.at = "idle"
    BY <1>0 DEF Jobs
  <2>2. delivery' = [delivery EXCEPT ![s] = job] /\ UNCHANGED storeVars
    BY <1>9 DEF Reply
  <2> QED
    BY <1>m, <1>q, <2>1, <2>2
<1> QED
  BY <1>1, <1>2, <1>3, <1>5, <1>6, <1>7, <1>8, <1>9, CheckLeavesRoom, CommitHeldKeepsBound
     DEF SessionStep

LEMMA OthersBound ==
    ASSUME IInv, QueueInv, ~(\E s \in Sessions : SessionStep(s)), [Next]_vars PROVE QueueInv'
<1>1. \A p \in Principals : Holding(p)' \subseteq Holding(p)
  <2>1. CASE UNCHANGED delivery
    BY <2>1 DEF Holding, Recipient
  <2>2. CASE RestartMxd
    BY <2>2 DEF RestartMxd, IdleDelivery, Holding
  <2> QED
    BY <2>1, <2>2 DEF Next, vars, SweepStep, SweepExpired, SweepExpiredFails, SweepPrincipals,
       SweepDevices, SweepList, SweepRelease, SweepAborts, SweepPrincipalDone, SweepDone,
       SweepFails, RestartMaild, Publish, HoldExpires, Purge, DeleteBody, DeleteBodyFails,
       FetchStep, FetchRow, FetchFile, FetchEnvelope
<1>2. \A p \in Principals : HeldFor(p)' \subseteq HeldFor(p)
  <2>0. hold \in [Messages -> {"none", "held", "due"}] /\ rowOwner \in [Messages -> Principals \cup {None}]
    BY DEF IInv, TypeOK
  <2>1. CASE UNCHANGED <<rowOwner, hold>>
    BY <2>1 DEF HeldFor
  <2>2. CASE SweepExpired
    BY <2>0, <2>2 DEF SweepExpired, HeldFor
  <2>3. ASSUME NEW m \in Messages, SweepRelease(m) \/ HoldExpires(m)
        PROVE  \A p \in Principals : HeldFor(p)' \subseteq HeldFor(p)
    BY <2>0, <2>3 DEF SweepRelease, HoldExpires, HeldFor
  <2>4. ASSUME NEW m \in Messages, Purge(m)
        PROVE  \A p \in Principals : HeldFor(p)' \subseteq HeldFor(p)
    BY <2>0, <2>4 DEF Purge, HeldFor
  <2> QED
    BY <2>1, <2>2, <2>3, <2>4 DEF Next, vars, storeVars, SweepStep, SweepExpiredFails, SweepPrincipals,
       SweepDevices, SweepList, SweepAborts, SweepPrincipalDone, SweepDone, SweepFails,
       RestartMxd, RestartMaild, Publish, DeleteBody, DeleteBodyFails,
       FetchStep, FetchRow, FetchFile, FetchEnvelope
<1> QED
  BY <1>1, <1>2, Shrinks

LEMMA InitBound == Init => QueueInv
<1> SUFFICES ASSUME Init, NEW p \in Principals
             PROVE  Cardinality(HeldFor(p)) + Cardinality(Holding(p))
                        <= MaxHeld + Cardinality(Sessions) - 1
  BY DEF QueueInv
<1>1. HeldFor(p) = {} /\ Holding(p) = {}
  BY DEF Init, IdleDelivery, HeldFor, Holding
<1>2. Cardinality(Sessions) \in Nat /\ Cardinality(Sessions) # 0
  BY FiniteAssumption, FS_CardinalityType, FS_EmptySet
<1> QED
  BY <1>1, <1>2, FS_EmptySet, BoundsAssumption

\* Inboxes of p, and inboxes to come without another look for one.
InboxInv ==
    \A p \in Principals : inboxes[p] + Cardinality(Creating(p)) <= Cardinality(Sessions)

LEMMA CreatingFinite ==
    ASSUME NEW p
    PROVE  /\ IsFiniteSet(Creating(p)) /\ Cardinality(Creating(p)) \in Nat
           /\ Cardinality(Sessions) \in Nat /\ Cardinality(Creating(p)) <= Cardinality(Sessions)
<1>1. Creating(p) \subseteq Sessions
  BY DEF Creating
<1> QED
  BY <1>1, FiniteAssumption, FS_Subset, FS_CardinalityType

LEMMA CreatingShrinks ==
    ASSUME TypeOK, InboxInv, UNCHANGED inboxes,
           \A p \in Principals : Creating(p)' \subseteq Creating(p)
    PROVE  InboxInv'
<1> SUFFICES ASSUME NEW p \in Principals
             PROVE  inboxes[p] + Cardinality(Creating(p)') <= Cardinality(Sessions)
  BY DEF InboxInv
<1>1. Cardinality(Creating(p)') <= Cardinality(Creating(p)) /\ Cardinality(Creating(p)') \in Nat
  BY CreatingFinite, FS_Subset, FS_CardinalityType
<1>2. inboxes[p] \in Nat
  BY DEF TypeOK
<1> QED
  BY <1>1, <1>2, CreatingFinite DEF InboxInv

\* A session that sees no inbox counts as one, and one that sees an inbox does not.
LEMMA FindInboxKeepsBound ==
    ASSUME TypeOK, InboxInv, NEW s \in Sessions, FindInbox(s) PROVE InboxInv'
<1>1. PICK a : /\ delivery' = [delivery EXCEPT ![s].at = a]
               /\ a = IF inboxes[Recipient(s)] > 0 THEN "store" ELSE "mkfolder"
  BY DEF FindInbox
<1>2. /\ delivery'[s] = [delivery[s] EXCEPT !.at = a]
      /\ \A t \in Sessions : t # s => delivery'[t] = delivery[t]
      /\ delivery'[s].at = a /\ delivery'[s].todo = delivery[s].todo
      /\ UNCHANGED inboxes
  BY <1>1 DEF TypeOK, Jobs, FindInbox
<1> SUFFICES ASSUME NEW p \in Principals
             PROVE  inboxes[p] + Cardinality(Creating(p)') <= Cardinality(Sessions)
  BY <1>2 DEF InboxInv
<1>3. inboxes[p] \in Nat
  BY DEF TypeOK
<1>4. CASE p = Recipient(s) /\ inboxes[p] = 0
  <2>1. Creating(p)' \subseteq Sessions
    BY DEF Creating
  <2>2. Cardinality(Creating(p)') <= Cardinality(Sessions) /\ Cardinality(Creating(p)') \in Nat
    BY <2>1, FiniteAssumption, FS_Subset, FS_CardinalityType
  <2> QED
    BY <1>4, <2>2, CreatingFinite
<1>5. CASE ~(p = Recipient(s) /\ inboxes[p] = 0)
  <2>1. ~(delivery'[s].at = "mkfolder" /\ Recipient(s) = p)
    BY <1>1, <1>2, <1>3, <1>5
  <2>2. Creating(p)' \subseteq Creating(p)
    BY <1>2, <2>1 DEF Creating, Recipient
  <2>3. Cardinality(Creating(p)') <= Cardinality(Creating(p)) /\ Cardinality(Creating(p)') \in Nat
    BY <2>2, CreatingFinite, FS_Subset, FS_CardinalityType
  <2> QED
    BY <1>3, <2>3, CreatingFinite DEF InboxInv
<1> QED
  BY <1>4, <1>5

LEMMA CreateInboxKeepsBound ==
    ASSUME TypeOK, InboxInv, NEW s \in Sessions, CreateInbox(s) PROVE InboxInv'
<1>1. /\ delivery'[s].at = "store"
      /\ \A t \in Sessions : t # s => delivery'[t] = delivery[t]
      /\ delivery[s].at = "mkfolder"
      /\ inboxes' = [inboxes EXCEPT ![Recipient(s)] = @ + 1]
  BY DEF TypeOK, Jobs, CreateInbox
<1> SUFFICES ASSUME NEW p \in Principals
             PROVE  inboxes'[p] + Cardinality(Creating(p)') <= Cardinality(Sessions)
  BY DEF InboxInv
<1>2. inboxes[p] \in Nat
  BY DEF TypeOK
<1>3. CASE p = Recipient(s)
  <2>1. Creating(p)' \subseteq Creating(p) \ {s} /\ s \in Creating(p)
    BY <1>1, <1>3 DEF Creating, Recipient
  <2>2. /\ IsFiniteSet(Creating(p) \ {s})
        /\ Cardinality(Creating(p) \ {s}) = Cardinality(Creating(p)) - 1
    BY <2>1, CreatingFinite, FS_RemoveElement
  <2>3. /\ Cardinality(Creating(p)') \in Nat
        /\ Cardinality(Creating(p)') <= Cardinality(Creating(p) \ {s})
    BY <2>1, <2>2, FS_Subset, FS_CardinalityType
  <2>4. inboxes'[p] = inboxes[p] + 1
    BY <1>1, <1>3 DEF TypeOK
  <2> QED
    BY <1>2, <2>2, <2>3, <2>4, CreatingFinite DEF InboxInv
<1>4. CASE p # Recipient(s)
  <2>1. Creating(p)' \subseteq Creating(p)
    BY <1>1, <1>4 DEF Creating, Recipient
  <2>2. Cardinality(Creating(p)') <= Cardinality(Creating(p)) /\ Cardinality(Creating(p)') \in Nat
    BY <2>1, CreatingFinite, FS_Subset, FS_CardinalityType
  <2>3. inboxes'[p] = inboxes[p]
    BY <1>1, <1>4 DEF TypeOK
  <2> QED
    BY <1>2, <2>2, <2>3, CreatingFinite DEF InboxInv
<1> QED
  BY <1>3, <1>4

\* No other step of a session brings it where an inbox is inserted.
LEMMA SessionInboxes ==
    ASSUME IInv, InboxInv, NEW s \in Sessions, SessionStep(s) PROVE InboxInv'
<1>0. delivery[s] \in Jobs /\ TypeOK
  BY DEF IInv, TypeOK
<1>m. ASSUME NEW job, delivery' = [delivery EXCEPT ![s] = job], job.at # "mkfolder", UNCHANGED inboxes
      PROVE  InboxInv'
  <2>1. /\ delivery'[s] = job
        /\ \A t \in Sessions : t # s => delivery'[t] = delivery[t]
    BY <1>0, <1>m DEF TypeOK
  <2>2. \A p \in Principals : Creating(p)' \subseteq Creating(p)
    BY <1>m, <2>1 DEF Creating, Recipient
  <2> QED
    BY <1>0, <1>m, <2>2, CreatingShrinks
<1>r. Refused(delivery[s]).at = "directory"
  BY <1>0 DEF Refused, Jobs
<1>v. \A m : Served(delivery[s], m).at = "directory"
  BY <1>0 DEF Served, Jobs
<1>1. ASSUME NEW rcpts \in RecipientLists, StartData(s, rcpts) PROVE InboxInv'
  <2>1. [IdleDelivery EXCEPT !.at = "directory", !.todo = rcpts].at # "mkfolder"
    BY DEF IdleDelivery
  <2> QED
    BY <1>1, <1>m, <2>1 DEF StartData
<1>2. CASE FindNoDevice(s)
  <2>1. [delivery[s] EXCEPT !.at = "count"].at # "mkfolder"
    BY <1>0 DEF Jobs
  <2> QED
    BY <1>2, <1>m, <2>1 DEF FindNoDevice
<1>3. CASE WrapForDevices(s)
  <2> DEFINE ds == Wrappable(ActiveDevices(Recipient(s)))
  <2>1. [delivery[s] EXCEPT !.at = "folder", !.devs = ds].at # "mkfolder"
    BY <1>0 DEF Jobs
  <2> QED
    BY <1>3, <1>m, <1>r, <2>1 DEF WrapForDevices
<1>4. CASE CountHeld(s)
  <2>1. [delivery[s] EXCEPT !.at = "folder"].at # "mkfolder"
    BY <1>0 DEF Jobs
  <2> QED
    BY <1>4, <1>m, <1>r, <2>1 DEF CountHeld
<1>5. ASSUME NEW m \in Messages, WriteBody(s, m) PROVE InboxInv'
  <2>1. [delivery[s] EXCEPT !.at = "commit", !.msg = m].at # "mkfolder"
    BY <1>0 DEF Jobs
  <2> QED
    BY <1>5, <1>m, <2>1 DEF WriteBody
<1>6. CASE CommitInbound(s) \/ CommitHeld(s)
  BY <1>6, <1>m, <1>r, <1>v DEF CommitInbound, CommitHeld, CommitSeen
<1>7. CASE RecipientFails(s)
  BY <1>7, <1>m, <1>r DEF RecipientFails
<1>8. CASE Reply(s)
  <2>1. \A r : [delivery[s] EXCEPT !.at = "idle", !.reply = r].at # "mkfolder"
    BY <1>0 DEF Jobs
  <2> QED
    BY <1>8, <1>m, <2>1 DEF Reply
<1> QED
  BY <1>0, <1>1, <1>2, <1>3, <1>4, <1>5, <1>6, <1>7, <1>8, FindInboxKeepsBound, CreateInboxKeepsBound
     DEF SessionStep

LEMMA OthersInboxes ==
    ASSUME IInv, InboxInv, ~(\E s \in Sessions : SessionStep(s)), [Next]_vars PROVE InboxInv'
<1>1. (UNCHANGED delivery \/ RestartMxd) /\ UNCHANGED inboxes
  BY DEF Next, vars, SweepStep, SweepExpired, SweepExpiredFails, SweepPrincipals,
       SweepDevices, SweepList, SweepRelease, SweepAborts, SweepPrincipalDone, SweepDone,
       SweepFails, RestartMxd, RestartMaild, Publish, HoldExpires, Purge, DeleteBody, DeleteBodyFails,
       FetchStep, FetchRow, FetchFile, FetchEnvelope
<1>2. ASSUME NEW p \in Principals PROVE Creating(p)' \subseteq Creating(p)
  <2>1. CASE UNCHANGED delivery
    BY <2>1 DEF Creating, Recipient
  <2>2. CASE RestartMxd
    BY <2>2 DEF RestartMxd, IdleDelivery, Creating
  <2> QED
    BY <1>1, <2>1, <2>2
<1> QED
  BY <1>1, <1>2, CreatingShrinks DEF IInv

LEMMA InitInboxes == Init => InboxInv
<1> SUFFICES ASSUME Init, NEW p \in Principals
             PROVE  inboxes[p] + Cardinality(Creating(p)) <= Cardinality(Sessions)
  BY DEF InboxInv
<1>1. Creating(p) = {} /\ inboxes[p] = 0
  BY DEF Init, IdleDelivery, Creating
<1> QED
  BY <1>1, CreatingFinite, FS_EmptySet

\* The hold queue of a principal overshoots MAX_HELD_PER_PRINCIPAL by fewer
\* messages than there are sessions, and its inboxes are no more than these, for
\* every number of sessions.
THEOREM RacesStayBounded == Spec => []RacesAreBounded
<1>1. QueueInv => HoldQueueBound
  BY Finiteness, BoundsAssumption DEF QueueInv, HoldQueueBound
<1>2. TypeOK /\ InboxInv => InboxBound
  BY CreatingFinite DEF InboxInv, InboxBound, TypeOK
<1>3. IInv /\ QueueInv /\ [Next]_vars => QueueInv'
  BY SessionBound, OthersBound
<1>4. IInv /\ InboxInv /\ [Next]_vars => InboxInv'
  BY SessionInboxes, OthersInboxes
<1>5. IInv /\ QueueInv /\ InboxInv => RacesAreBounded
  BY <1>1, <1>2 DEF RacesAreBounded, IInv
<1> QED
  BY <1>3, <1>4, <1>5, InitBound, InitInboxes, Invariance, PTL DEF Spec

----------------------------------------------------------------------------
(* The refinement of MailPromise: the stage of a message, read off the     *)
(* catalogue and the open transactions, only moves along MayBecome.        *)

\* Row, envelopes and hold row of m stay what they are.
Keeps(m) ==
    rowOwner'[m] = rowOwner[m] /\ envelopes'[m] = envelopes[m] /\ hold'[m] = hold[m]

FateKept(m) == Fate(m)' = Fate(m)
FateMoves(m) == Fate(m)' \in Promise!MayBecome[Fate(m)]

LEMMA KeptIsMove == ASSUME NEW m \in Messages, FateKept(m) PROVE FateMoves(m)
BY DEF FateKept, FateMoves, Fate, Promise!MayBecome

\* Nothing of m changes, nor whether a transaction is open on it.
LEMMA Unmoved ==
    ASSUME NEW m \in Messages, Keeps(m), (m \in issued)' = (m \in issued),
           Opening(m)' = Opening(m)
    PROVE  FateKept(m)
BY DEF FateKept, Fate, Keeps, Catalogued

\* An open transaction may end without effect.
LEMMA MayEnd ==
    ASSUME NEW m \in Messages, Keeps(m), UNCHANGED issued, Opening(m)' => Opening(m)
    PROVE  FateMoves(m)
BY DEF FateMoves, Fate, Keeps, Catalogued, Promise!MayBecome

\* A step of session s that neither begins nor ends with a transaction open.
LEMMA BetweenTransactions ==
    ASSUME TypeOK, NEW s \in Sessions, NEW job, delivery' = [delivery EXCEPT ![s] = job],
           delivery[s].at # "commit", job.at # "commit", UNCHANGED <<storeVars, issued>>,
           NEW m \in Messages
    PROVE  FateKept(m)
<1>1. /\ delivery'[s] = job
      /\ \A t \in Sessions : t # s => delivery'[t] = delivery[t]
  BY DEF TypeOK
<1>2. Opening(m)' = Opening(m)
  BY <1>1 DEF Opening
<1> QED
  BY <1>2, Unmoved DEF Keeps, storeVars

LEMMA SessionFate ==
    ASSUME IInv, NEW s \in Sessions, SessionStep(s), NEW m \in Messages PROVE FateMoves(m)
<1>0. /\ TypeOK /\ delivery[s] \in Jobs
      /\ delivery[s].at \notin {"idle", "directory"} => delivery[s].todo # <<>>
  BY DEF IInv, TypeOK, SessionInv, DeliveryInv
<1>1. ASSUME NEW rcpts \in RecipientLists, StartData(s, rcpts) PROVE FateMoves(m)
  <2> DEFINE job == [IdleDelivery EXCEPT !.at = "directory", !.todo = rcpts]
  <2>1. delivery' = [delivery EXCEPT ![s] = job] /\ delivery[s].at # "commit"
    BY <1>1 DEF StartData
  <2>2. job.at # "commit"
    BY DEF IdleDelivery
  <2> QED
    BY <1>0, <1>1, <2>1, <2>2, BetweenTransactions, KeptIsMove DEF StartData
<1>2. CASE FindNoDevice(s) \/ FindInbox(s) \/ CreateInbox(s)
  <2>1. PICK a \in {"count", "store", "mkfolder"} : delivery' = [delivery EXCEPT ![s].at = a]
    BY <1>2 DEF FindNoDevice, FindInbox, CreateInbox
  <2> DEFINE job == [delivery[s] EXCEPT !.at = a]
  <2>2. job.at # "commit"
    BY <1>0, <2>1 DEF Jobs
  <2>3. delivery[s].at # "commit" /\ UNCHANGED <<storeVars, issued>>
    BY <1>2 DEF FindNoDevice, FindInbox, CreateInbox
  <2> QED
    BY <1>0, <2>1, <2>2, <2>3, BetweenTransactions, KeptIsMove
<1>3. CASE WrapForDevices(s) \/ CountHeld(s)
  <2>1. PICK job : delivery' = [delivery EXCEPT ![s] = job] /\ job.at \in {"directory", "folder"}
    <3>1. Refused(delivery[s]).at = "directory"
      BY <1>0 DEF Refused, Jobs
    <3>2. \A ds : /\ [delivery[s] EXCEPT !.at = "folder", !.devs = ds].at = "folder"
                  /\ [delivery[s] EXCEPT !.at = "folder"].at = "folder"
      BY <1>0 DEF Jobs
    <3> QED
      BY <1>3, <3>1, <3>2 DEF WrapForDevices, CountHeld
  <2>2. delivery[s].at # "commit" /\ UNCHANGED <<storeVars, issued>>
    BY <1>3 DEF WrapForDevices, CountHeld
  <2> QED
    BY <1>0, <2>1, <2>2, BetweenTransactions, KeptIsMove
<1>4. CASE Reply(s)
  <2> DEFINE r == IF delivery[s].stored # {} THEN "250" ELSE "451"
             job == [delivery[s] EXCEPT !.at = "idle", !.reply = r]
  <2>1. job.at # "commit"
    BY <1>0 DEF Jobs
  <2>2. /\ delivery' = [delivery EXCEPT ![s] = job] /\ delivery[s].at # "commit"
        /\ UNCHANGED <<storeVars, issued>>
    BY <1>4 DEF Reply
  <2> QED
    BY <1>0, <2>1, <2>2, BetweenTransactions, KeptIsMove
<1>5. ASSUME NEW n \in Messages, WriteBody(s, n) PROVE FateMoves(m)
  <2> DEFINE job == [delivery[s] EXCEPT !.at = "commit", !.msg = n]
  <2>1. job.at = "commit" /\ job.msg = n
    BY <1>0 DEF Jobs
  <2>2. /\ delivery'[s] = job /\ delivery[s].at # "commit"
        /\ \A t \in Sessions : t # s => delivery'[t] = delivery[t]
        /\ issued' = issued \cup {n} /\ n \notin issued
        /\ Keeps(m)
    BY <1>0, <1>5 DEF WriteBody, TypeOK, storeVars, Keeps
  <2>3. CASE m = n
    <3>1. Opening(m)' /\ ~Catalogued(m)
      BY <2>1, <2>2, <2>3 DEF Opening, IInv, StoreInv, CatalogueInv
    <3>2. Fate(m) = "absent" /\ Fate(m)' = "absent"
      BY <2>2, <2>3, <3>1 DEF Fate, Catalogued, Keeps
    <3> QED
      BY <3>2 DEF FateMoves, Promise!MayBecome
  <2>4. CASE m # n
    <3>1. Opening(m)' = Opening(m)
      BY <2>1, <2>2, <2>4 DEF Opening
    <3> QED
      BY <2>2, <2>4, <3>1, Unmoved, KeptIsMove
  <2> QED
    BY <2>3, <2>4
<1>6. CASE CommitInbound(s) \/ CommitHeld(s)
  <2>1. PICK n \in Messages : n = delivery[s].msg
    BY <1>0, <1>6 DEF CommitInbound, CommitHeld, IInv, SessionInv, DeliveryInv, TypeOK
  <2>2. /\ delivery[s].at = "commit" /\ rowOwner[n] = None
        /\ Recipient(s) \in Principals /\ Recipient(s) # None
    BY <1>0, <1>6, <2>1, NoneAssumption
       DEF CommitInbound, CommitHeld, IInv, SessionInv, DeliveryInv, Recipient, Jobs
  <2>3. PICK job : delivery' = [delivery EXCEPT ![s] = job] /\ job.at # "commit"
    <3>1. Refused(delivery[s]).at = "directory" /\ Served(delivery[s], delivery[s].msg).at = "directory"
      BY <1>0 DEF Refused, Served, Jobs
    <3>2. CommitSeen(s)
      BY <1>6 DEF CommitInbound, CommitHeld
    <3> QED
      BY <3>1, <3>2 DEF CommitSeen
  <2>4. /\ delivery'[s].at # "commit"
        /\ \A t \in Sessions : t # s => delivery'[t] = delivery[t]
    BY <1>0, <2>3 DEF TypeOK
  <2>5. CASE m = n
    <3>1. Fate(m) = "absent"
      BY <2>1, <2>2, <2>5 DEF Fate, Catalogued, Opening
    <3>2. rowOwner'[m] # None /\ (envelopes'[m] # {} \/ hold'[m] # "none")
      BY <1>0, <1>6, <2>1, <2>2, <2>5 DEF CommitInbound, CommitHeld, TypeOK
    <3>3. Fate(m)' \in {"readable", "held"}
      BY <3>2 DEF Fate, Catalogued
    <3> QED
      BY <3>1, <3>3 DEF FateMoves, Promise!MayBecome
  <2>6. CASE m # n
    <3>1. Keeps(m) /\ UNCHANGED issued
      BY <1>0, <1>6, <2>1, <2>6 DEF CommitInbound, CommitHeld, TypeOK, Keeps
    <3>2. Opening(m)' = Opening(m)
      BY <2>1, <2>4, <2>6 DEF Opening
    <3> QED
      BY <3>1, <3>2, Unmoved, KeptIsMove
  <2> QED
    BY <2>5, <2>6
<1>7. CASE RecipientFails(s)
  <2>1. Refused(delivery[s]).at = "directory"
    BY <1>0 DEF Refused, Jobs
  <2>2. /\ delivery'[s].at # "commit"
        /\ \A t \in Sessions : t # s => delivery'[t] = delivery[t]
        /\ Keeps(m) /\ UNCHANGED issued
    BY <1>0, <1>7, <2>1 DEF RecipientFails, TypeOK, storeVars, Keeps
  <2>3. Opening(m)' => Opening(m)
    BY <2>2 DEF Opening
  <2> QED
    BY <2>2, <2>3, MayEnd
<1> QED
  BY <1>1, <1>2, <1>3, <1>4, <1>5, <1>6, <1>7 DEF SessionStep

LEMMA SweepExpiredFate == ASSUME IInv, SweepExpired, NEW m \in Messages PROVE FateMoves(m)
<1>1. /\ rowOwner' = rowOwner /\ envelopes' = envelopes /\ UNCHANGED <<issued, delivery>>
      /\ hold'[m] = hold[m] \/ hold'[m] = "none"
  BY DEF SweepExpired
<1>2. Opening(m)' = Opening(m)
  BY <1>1 DEF Opening
<1> QED
  BY <1>1, <1>2 DEF FateMoves, Fate, Catalogued, Promise!MayBecome

LEMMA SweepReleaseFate ==
    ASSUME IInv, NEW n \in Messages, SweepRelease(n), NEW m \in Messages PROVE FateMoves(m)
<1>1. /\ UNCHANGED <<rowOwner, issued, delivery>>
      /\ m # n => Keeps(m)
      /\ m = n => envelopes'[m] = envelopes[m] \cup sweep.devs
  BY DEF SweepRelease, Keeps, IInv, TypeOK
<1>2. Opening(m)' = Opening(m)
  BY <1>1 DEF Opening
<1>3. CASE m = n
  <2>1. rowOwner[m] # None /\ hold[m] # "none" /\ sweep.devs # {}
    BY <1>3 DEF SweepRelease, IInv, StoreInv, SweepInv, CatalogueInv, Catalogued
  <2>2. Fate(m) \in {"held", "readable"} /\ Fate(m)' = "readable"
    BY <1>1, <1>3, <2>1 DEF Fate, Catalogued
  <2> QED
    BY <2>2 DEF FateMoves, Promise!MayBecome
<1> QED
  BY <1>1, <1>2, <1>3, Unmoved, KeptIsMove

LEMMA PurgeFate ==
    ASSUME IInv, NEW n \in Messages, Purge(n), NEW m \in Messages PROVE FateMoves(m)
<1>1. /\ UNCHANGED <<issued, delivery>>
      /\ m # n => Keeps(m)
      /\ m = n => rowOwner[m] # None /\ rowOwner'[m] = None
  BY DEF Purge, Keeps, IInv, TypeOK
<1>2. Opening(m)' = Opening(m)
  BY <1>1 DEF Opening
<1>3. CASE m = n
  <2>1. m \in issued /\ ~Opening(m)
    BY <1>1, <1>3 DEF Opening, IInv, SessionInv, DeliveryInv, StoreInv, CatalogueInv, Catalogued
  <2>2. Fate(m)' = "gone" /\ Fate(m) \in {"readable", "held", "stranded"}
    BY <1>1, <1>2, <1>3, <2>1 DEF Fate, Catalogued
  <2> QED
    BY <2>2 DEF FateMoves, Promise!MayBecome
<1> QED
  BY <1>1, <1>2, <1>3, Unmoved, KeptIsMove

LEMMA HoldExpiresFate ==
    ASSUME IInv, NEW n \in Messages, HoldExpires(n), NEW m \in Messages PROVE FateMoves(m)
<1>1. /\ UNCHANGED <<issued, delivery, rowOwner, envelopes>>
      /\ (hold'[m] = "none") = (hold[m] = "none")
  BY DEF HoldExpires, IInv, TypeOK
<1>2. Opening(m)' = Opening(m)
  BY <1>1 DEF Opening
<1>3. FateKept(m)
  BY <1>1, <1>2 DEF FateKept, Fate, Catalogued
<1> QED
  BY <1>3, KeptIsMove

LEMMA RestartFate == ASSUME RestartMxd, NEW m \in Messages PROVE FateMoves(m)
<1>1. ~Opening(m)'
  BY DEF RestartMxd, IdleDelivery, Opening
<1> QED
  BY <1>1, MayEnd DEF RestartMxd, storeVars, Keeps

\* Every other step leaves rows, ids and transactions alone.
LEMMA QuietFate ==
    ASSUME UNCHANGED <<storeVars, issued, delivery>>, NEW m \in Messages PROVE FateMoves(m)
<1>1. Opening(m)' = Opening(m)
  BY DEF Opening
<1> QED
  BY <1>1, Unmoved, KeptIsMove DEF Keeps, storeVars

LEMMA StepIsPromised == IInv /\ [Next]_vars => \A m \in Messages : FateMoves(m)
<1> SUFFICES ASSUME IInv, [Next]_vars, NEW m \in Messages PROVE FateMoves(m)
  OBVIOUS
<1>1. CASE UNCHANGED <<storeVars, issued, delivery>>
  BY <1>1, QuietFate
<1>2. CASE ~UNCHANGED <<storeVars, issued, delivery>>
  BY <1>2, SessionFate, SweepExpiredFate, SweepReleaseFate, PurgeFate, HoldExpiresFate, RestartFate
     DEF Next, vars, storeVars, SweepStep, SweepExpiredFails, SweepPrincipals, SweepDevices,
         SweepList, SweepAborts, SweepPrincipalDone, SweepDone, SweepFails, RestartMaild,
         Publish, DeleteBody, DeleteBodyFails, FetchStep, FetchRow, FetchFile, FetchEnvelope
<1> QED
  BY <1>1, <1>2

\* The store implements the life cycle of MailPromise for any number of
\* messages, sessions, devices and faults.
THEOREM StoreKeepsPromise == Spec => KeepsPromise
<1>1. Init => Promise!PInit
  <2> SUFFICES ASSUME Init PROVE [m \in Messages |-> Fate(m)] = [m \in Messages |-> "absent"]
    BY DEF Promise!PInit
  <2>1. \A m \in Messages : Fate(m) = "absent"
    BY DEF Init, Fate, Catalogued
  <2> QED
    BY <2>1
<1>2. IInv /\ [Next]_vars => Promise!PNext
  <2> SUFFICES ASSUME IInv, [Next]_vars PROVE Promise!PNext
    OBVIOUS
  <2>1. \A m \in Messages : FateMoves(m)
    BY StepIsPromised
  <2>2. \A m \in Messages : Fate(m)' \in Promise!Fates
    BY DEF Fate, Promise!Fates
  <2> QED
    BY <2>1, <2>2 DEF FateMoves, Promise!PNext
<1> QED
  BY <1>1, <1>2, Invariance, PTL DEF Spec, KeepsPromise, Promise!PSpec
=============================================================================
