---------------------------- MODULE Submission ----------------------------
(***************************************************************************)
(* A mail client sends a message: the SMTP loop of diamy-bridged, POST     *)
(* /submit of diamy-submitd, which relays to one recipient after the       *)
(* other, and diamy-mxd at the end of each relay.                          *)
(*                                                                         *)
(* A session is one connection of a mail client, the request it waits for  *)
(* and the handler that serves it.  Each DATA is an attempt.  A command    *)
(* the bridge refuses changes nothing and is not an action.  diamy-mxd     *)
(* behaves as SmtpReception says: it answers every command, and 250 to a   *)
(* text exactly when it stored it for the recipient.                       *)
(*                                                                         *)
(* The mail client may leave at any point, any connection may be lost, and *)
(* a stop of the bridge or of diamy-submitd is, for each session, Stop.    *)
(***************************************************************************)
EXTENDS Integers, Sequences, FiniteSets

CONSTANTS
    Sessions,       \* connections of mail clients
    Addrs,          \* canonical addresses they name
    AfterLastAt,    \* what follows the last "@" of an address
    AfterFirstAt,   \* what follows the first "@" of an address
    LocalDomains,   \* DIAMY_SUBMITD_LOCAL_DOMAINS, the same for the bridge
    Known,          \* addresses diamy-mxd finds a principal for
    MaxRecipients,  \* MAX_SMTP_RECIPIENTS
    MaxAttempts,    \* bound on DATA commands
    MaxFaults       \* bound on lost connections, failures and stops

ASSUME AddressAssumption == Known \subseteq Addrs
ASSUME BoundsAssumption ==
    MaxRecipients \in Nat /\ MaxAttempts \in Nat /\ MaxFaults \in Nat

Attempts == 1 .. MaxAttempts
Entries == 1 .. MaxRecipients

\* Sizes of a text, against the limits it meets: the 2 MB a JSON body may have by
\* default in axum, and MAX_SMTP_DATA_BYTES.
Sizes == {"small", "over 2 MB as JSON", "over MAX_SMTP_DATA_BYTES"}

VARIABLES
    bridge,     \* SmtpSession of each session: pc, authed, mail, rcpts, size, try
    client,     \* "there" or "gone", the mail client of each session
    handler,    \* submit_handler of each session: pc, next, relayed
    expired,    \* the mail-plane token of the bridge is past its time
    tries,      \* DATA commands so far
    named,      \* history: recipients of each attempt
    copies,     \* history: copies of each attempt for each recipient it names
    cut,        \* history: attempts of which a copy lacks the end of the text
    told,       \* history: answer of each attempt
    doubt,      \* history: attempts hit by a fault
    barred,     \* history: attempts diamy-submitd refused before any relay
    faults      \* faults so far

history == <<named, copies, cut, told, doubt, barred>>
vars == <<bridge, client, handler, expired, tries, history, faults>>

NoHandler == [pc |-> "none", next |-> 1, relayed |-> FALSE]
NoSession == [pc |-> "command", authed |-> FALSE, mail |-> FALSE, rcpts |-> <<>>,
              size |-> "small", try |-> 0]

----------------------------------------------------------------------------
(* The command loop of the bridge *)

\* A command arrives from a client that is there; it begins nothing more once
\* MaxAttempts texts were announced.
AtCommand(s) ==
    /\ client[s] = "there" /\ bridge[s].pc = "command"
    /\ tries < MaxAttempts

\* AUTH LOGIN asks for a user, then for a password; AUTH PLAIN may ask for both
\* in one line. Each line is read outside the command loop.
AskCredentials(s) ==
    /\ AtCommand(s)
    /\ \E question \in {"user", "plain"} : bridge' = [bridge EXCEPT ![s].pc = question]
    /\ UNCHANGED <<client, handler, expired, tries, history, faults>>

AskPassword(s) ==
    /\ client[s] = "there" /\ bridge[s].pc = "user"
    /\ bridge' = [bridge EXCEPT ![s].pc = "password"]
    /\ UNCHANGED <<client, handler, expired, tries, history, faults>>

\* Good credentials replace what authed was; the transaction goes on.
Authenticate(s) ==
    /\ client[s] = "there" /\ bridge[s].pc \in {"password", "plain"}
    /\ bridge' = [bridge EXCEPT ![s].pc = "command", ![s].authed = TRUE]
    /\ UNCHANGED <<client, handler, expired, tries, history, faults>>

\* Interrupted, not base64, malformed or wrong: 501 or 535, authed is kept.
AuthFails(s) ==
    /\ client[s] = "there" /\ bridge[s].pc \in {"user", "password", "plain"}
    /\ bridge' = [bridge EXCEPT ![s].pc = "command"]
    /\ UNCHANGED <<client, handler, expired, tries, history, faults>>

MailFrom(s) ==
    /\ AtCommand(s) /\ bridge[s].authed
    /\ bridge' = [bridge EXCEPT ![s].mail = TRUE, ![s].rcpts = <<>>]
    /\ UNCHANGED <<client, handler, expired, tries, history, faults>>

\* Mutant: the bound on recipients is not tested.
RcptToUnbounded(s, a) ==
    /\ AtCommand(s) /\ bridge[s].authed /\ bridge[s].mail
    /\ AfterLastAt[a] \in LocalDomains
    /\ bridge' = [bridge EXCEPT ![s].rcpts = Append(@, a)]
    /\ UNCHANGED <<client, handler, expired, tries, history, faults>>

\* The domain of RCPT TO is what follows the last "@".
RcptTo(s, a) ==
    /\ AtCommand(s) /\ bridge[s].authed /\ bridge[s].mail
    /\ Len(bridge[s].rcpts) < MaxRecipients
    /\ AfterLastAt[a] \in LocalDomains
    /\ bridge' = [bridge EXCEPT ![s].rcpts = Append(@, a)]
    /\ UNCHANGED <<client, handler, expired, tries, history, faults>>

Rset(s) ==
    /\ AtCommand(s)
    /\ bridge' = [bridge EXCEPT ![s].mail = FALSE, ![s].rcpts = <<>>]
    /\ UNCHANGED <<client, handler, expired, tries, history, faults>>

Data(s) ==
    /\ AtCommand(s) /\ bridge[s].authed /\ bridge[s].rcpts # <<>>
    /\ tries' = tries + 1
    /\ bridge' = [bridge EXCEPT ![s].pc = "data", ![s].try = tries']
    /\ named' = [named EXCEPT ![tries'] = bridge[s].rcpts]
    /\ UNCHANGED <<client, handler, expired, copies, cut, told, doubt, barred, faults>>

\* The transaction is over, whatever the answer.
Over(b) == [b EXCEPT !.pc = "command", !.mail = FALSE, !.rcpts = <<>>, !.try = 0,
                     !.size = "small"]

\* The answer to DATA, which a client that left does not get.
Answer(s, code) ==
    /\ bridge' = [bridge EXCEPT ![s] = IF client[s] = "there" THEN Over(@)
                                       ELSE [NoSession EXCEPT !.pc = "closed"]]
    /\ told' = IF client[s] = "there" THEN [told EXCEPT ![bridge[s].try] = code] ELSE told

\* read_smtp_data_bounded reads up to the dot and keeps nothing past the bound.
TextTooLarge(s) ==
    /\ client[s] = "there" /\ bridge[s].pc = "data"
    /\ Answer(s, "552")
    /\ UNCHANGED <<client, handler, expired, tries, named, copies, cut, doubt, barred, faults>>

\* submit_via_diamy_submitd sends the request.
Submit(s) ==
    /\ bridge[s].pc = "data"
    /\ \E size \in Sizes \ {"over MAX_SMTP_DATA_BYTES"} :
           bridge' = [bridge EXCEPT ![s].pc = "submit", ![s].size = size]
    /\ handler' = [handler EXCEPT ![s] = [NoHandler EXCEPT !.pc = "received"]]

TextRead(s) ==
    /\ client[s] = "there" /\ Submit(s)
    /\ UNCHANGED <<client, expired, tries, history, faults>>

\* The connection ended inside DATA, or right behind it: what was read is the text.
TextCut(s) ==
    /\ client[s] = "gone" /\ Submit(s)
    /\ cut' \in {cut, cut \cup {bridge[s].try}}
    /\ UNCHANGED <<client, expired, tries, named, copies, told, doubt, barred, faults>>

\* The connection ends. The bridge sees it when it next reads or writes.
ClientLeaves(s) ==
    /\ client[s] = "there"
    /\ client' = [client EXCEPT ![s] = "gone"]
    /\ UNCHANGED <<bridge, handler, expired, tries, history, faults>>

\* The end of the connection where a line is expected, or an error in DATA.
Eof(s) ==
    /\ client[s] = "gone" /\ bridge[s].pc \in {"command", "user", "password", "plain", "data"}
    /\ bridge' = [bridge EXCEPT ![s] = [NoSession EXCEPT !.pc = "closed"]]
    /\ UNCHANGED <<client, handler, expired, tries, history, faults>>

\* A client connects anew.
Connect(s) ==
    /\ bridge[s].pc = "closed"
    /\ bridge' = [bridge EXCEPT ![s] = NoSession]
    /\ client' = [client EXCEPT ![s] = "there"]
    /\ UNCHANGED <<handler, expired, tries, history, faults>>
----------------------------------------------------------------------------
(* POST /submit *)

\* The answer is not the JSON the bridge expects, or there is none.
Unusable(s) ==
    /\ handler' = [handler EXCEPT ![s] = NoHandler]
    /\ Answer(s, "451")

\* submit_auth_middleware: 401. Signing in again reads the same token.
Unauthorized(s) ==
    /\ handler[s].pc = "received" /\ expired
    /\ Unusable(s)
    /\ barred' = barred \cup {bridge[s].try}
    /\ UNCHANGED <<client, expired, tries, named, copies, cut, doubt, faults>>

\* axum refuses the body with 413 and a text before the handler sees it.
BodyTooLarge(s) ==
    /\ handler[s].pc = "received" /\ ~expired /\ bridge[s].size # "small"
    /\ Unusable(s)
    /\ barred' = barred \cup {bridge[s].try}
    /\ UNCHANGED <<client, expired, tries, named, copies, cut, doubt, faults>>

Accept(s) ==
    /\ handler[s].pc = "received" /\ ~expired /\ bridge[s].size = "small"
    /\ handler' = [handler EXCEPT ![s].pc = "route"]
    /\ UNCHANGED <<bridge, client, expired, tries, history, faults>>

Recipient(s) == bridge[s].rcpts[handler[s].next]

MoreToRelay(s) == handler[s].pc = "route" /\ handler[s].next <= Len(bridge[s].rcpts)

\* Mutant: a failed relay is tried again at once.
AfterRelayRetries(h, ok) ==
    [pc |-> "route", next |-> IF ok THEN h.next + 1 ELSE h.next, relayed |-> h.relayed \/ ok]

\* Mutant: a failure ends the list.
AfterRelayStops(h, ok) ==
    [pc |-> "route", next |-> IF ok THEN h.next + 1 ELSE MaxRecipients + 1,
     relayed |-> h.relayed \/ ok]

\* Mutant: a rejected recipient stays at the head of the list.
AfterRelayStays(h, ok) ==
    [pc |-> "route", next |-> IF h.pc = "route" THEN h.next ELSE h.next + 1,
     relayed |-> h.relayed \/ ok]

\* relay_one_recipient returned: one success is enough to accept.
AfterRelay(h, ok) == [pc |-> "route", next |-> h.next + 1, relayed |-> h.relayed \/ ok]

EndRelay(s, ok) == handler' = [handler EXCEPT ![s] = AfterRelay(@, ok)]

\* route_for, on what follows the first "@".
Route(s) ==
    /\ MoreToRelay(s)
    /\ AfterFirstAt[Recipient(s)] \in LocalDomains
    /\ handler' = [handler EXCEPT ![s].pc = "connect"]
    /\ UNCHANGED <<bridge, client, expired, tries, history, faults>>

RejectExternal(s) ==
    /\ MoreToRelay(s)
    /\ AfterFirstAt[Recipient(s)] \notin LocalDomains
    /\ EndRelay(s, FALSE)
    /\ UNCHANGED <<bridge, client, expired, tries, history, faults>>

\* Every recipient had its turn: 200 or 502, and the bridge reads "accepted".
Respond(s) ==
    /\ handler[s].pc = "route" /\ handler[s].next > Len(bridge[s].rcpts)
    /\ handler' = [handler EXCEPT ![s] = NoHandler]
    /\ Answer(s, IF handler[s].relayed THEN "250" ELSE "550")
    /\ UNCHANGED <<client, expired, tries, named, copies, cut, doubt, barred, faults>>

----------------------------------------------------------------------------
(* relay_via_smtp: a dialogue of one answer per command with diamy-mxd *)

\* What is sent once the answer to the stage has the code it needs.
NextStage == [connect |-> "banner", banner |-> "ehlo", ehlo |-> "mail", mail |-> "rcpt",
              rcpt |-> "data", data |-> "text"]

Exchange(s) ==
    /\ handler[s].pc \in DOMAIN NextStage
    /\ handler[s].pc = "rcpt" => Recipient(s) \in Known
    /\ handler' = [handler EXCEPT ![s].pc = NextStage[@]]
    /\ UNCHANGED <<bridge, client, expired, tries, history, faults>>

\* 550: diamy-mxd knows no such principal.
RcptRefused(s) ==
    /\ handler[s].pc = "rcpt" /\ Recipient(s) \notin Known
    /\ EndRelay(s, FALSE)
    /\ UNCHANGED <<bridge, client, expired, tries, history, faults>>

CopyStored(s) == copies' = [copies EXCEPT ![bridge[s].try][handler[s].next] = @ + 1]

\* diamy-mxd stores the text and answers 250.
MxdStores(s) ==
    /\ handler[s].pc = "text"
    /\ CopyStored(s)
    /\ handler' = [handler EXCEPT ![s].pc = "final"]
    /\ UNCHANGED <<bridge, client, expired, tries, named, cut, told, doubt, barred, faults>>

Fault(s) ==
    /\ faults < MaxFaults
    /\ faults' = faults + 1
    /\ doubt' = doubt \cup ({bridge[s].try} \cap Attempts)

\* diamy-mxd answers 451: it stored nothing, or its commit took effect without an
\* answer (DeliverFails of SmtpReception).
MxdFails(s) ==
    /\ handler[s].pc = "text"
    /\ Fault(s) /\ EndRelay(s, FALSE)
    /\ UNCHANGED copies \/ CopyStored(s)
    /\ UNCHANGED <<bridge, client, expired, tries, named, cut, told, barred>>

FinalRead(s) ==
    /\ handler[s].pc = "final"
    /\ handler' = [handler EXCEPT ![s].pc = "quit"]
    /\ UNCHANGED <<bridge, client, expired, tries, history, faults>>

Quit(s) ==
    /\ handler[s].pc = "quit"
    /\ EndRelay(s, TRUE)
    /\ UNCHANGED <<bridge, client, expired, tries, history, faults>>

\* The connection to diamy-mxd ends. Inside the text, diamy-mxd may take the end
\* for the dot and store what it has, all of the text or not.
Dropped(s) ==
    \/ UNCHANGED <<copies, cut>>
    \/ /\ handler[s].pc = "text"
       /\ CopyStored(s)
       /\ cut' \in {cut, cut \cup {bridge[s].try}}

\* Any read or write that fails makes a transient failure, that of QUIT after the
\* text was accepted included.
RelayLost(s) ==
    /\ handler[s].pc \in DOMAIN NextStage \cup {"text", "final", "quit"}
    /\ Fault(s) /\ Dropped(s) /\ EndRelay(s, FALSE)
    /\ UNCHANGED <<bridge, client, expired, tries, named, told, barred>>

----------------------------------------------------------------------------
(* Failures *)

\* The request of the bridge fails, or diamy-submitd stops: the handler is
\* dropped where it stands, with its connection to diamy-mxd.
HttpLost(s) ==
    /\ handler[s].pc # "none"
    /\ Fault(s) /\ Dropped(s) /\ Unusable(s)
    /\ UNCHANGED <<client, expired, tries, named, barred>>

\* The bridge stops: its connections, and its requests with them.
Stop(s) ==
    /\ bridge[s].pc # "closed" /\ Fault(s) /\ Dropped(s)
    /\ bridge' = [bridge EXCEPT ![s] = [NoSession EXCEPT !.pc = "closed"]]
    /\ client' = [client EXCEPT ![s] = "gone"]
    /\ handler' = [handler EXCEPT ![s] = NoHandler]
    /\ UNCHANGED <<expired, tries, named, told, barred>>

\* exp passes. The bridge has no other token.
TokenExpires ==
    /\ ~expired /\ expired' = TRUE
    /\ UNCHANGED <<bridge, client, handler, tries, history, faults>>

----------------------------------------------------------------------------
Init ==
    /\ bridge = [s \in Sessions |-> NoSession]
    /\ client = [s \in Sessions |-> "there"]
    /\ handler = [s \in Sessions |-> NoHandler]
    /\ expired = FALSE /\ tries = 0
    /\ named = [t \in Attempts |-> <<>>]
    /\ copies = [t \in Attempts |-> [n \in Entries |-> 0]]
    /\ cut = {} /\ told = [t \in Attempts |-> "none"] /\ doubt = {} /\ barred = {}
    /\ faults = 0

\* What a client and its connection do.
Client(s) ==
    \/ AskCredentials(s) \/ AskPassword(s) \/ Authenticate(s) \/ AuthFails(s)
    \/ MailFrom(s) \/ \E a \in Addrs : RcptTo(s, a)
    \/ Rset(s) \/ Data(s) \/ TextTooLarge(s) \/ TextRead(s)
    \/ ClientLeaves(s) \/ Connect(s)

\* What runs once the bridge has a text.
Handle(s) ==
    \/ Unauthorized(s) \/ BodyTooLarge(s) \/ Accept(s)
    \/ Route(s) \/ RejectExternal(s) \/ Respond(s)
    \/ Exchange(s) \/ RcptRefused(s) \/ MxdStores(s) \/ FinalRead(s) \/ Quit(s)

Failure(s) == MxdFails(s) \/ RelayLost(s) \/ HttpLost(s) \/ Stop(s)

Next ==
    \/ \E s \in Sessions : Client(s) \/ TextCut(s) \/ Eof(s) \/ Handle(s) \/ Failure(s)
    \/ TokenExpires

Spec == Init /\ [][Next]_vars

\* Each handler runs, and diamy-mxd answers it; clients do as they like.
FairSpec == Spec /\ \A s \in Sessions : WF_vars(Handle(s))

----------------------------------------------------------------------------
(* Properties *)

Codes == {"none", "250", "451", "550", "552"}

\* Every variable keeps its type; a transaction never has more recipients than
\* MAX_SMTP_RECIPIENTS.
TypeOK ==
    /\ bridge \in [Sessions ->
           [pc : {"command", "user", "password", "plain", "data", "submit", "closed"},
            authed : BOOLEAN, mail : BOOLEAN, rcpts : Seq(Addrs), size : Sizes,
            try : 0 .. MaxAttempts]]
    /\ \A s \in Sessions : Len(bridge[s].rcpts) <= MaxRecipients
    /\ client \in [Sessions -> {"there", "gone"}]
    /\ handler \in [Sessions ->
           [pc : {"none", "received", "route", "text", "final", "quit"} \cup DOMAIN NextStage,
            next : 1 .. MaxRecipients + 1, relayed : BOOLEAN]]
    /\ expired \in BOOLEAN /\ tries \in 0 .. MaxAttempts /\ faults \in 0 .. MaxFaults
    /\ named \in [Attempts -> Seq(Addrs)]
    /\ copies \in [Attempts -> [Entries -> Nat]]
    /\ told \in [Attempts -> Codes]
    /\ cut \subseteq Attempts /\ doubt \subseteq Attempts /\ barred \subseteq Attempts

\* diamy-submitd relays to the address and diamy-mxd has its mailbox.
Deliverable(a) == AfterFirstAt[a] \in LocalDomains /\ a \in Known

\* Without a fault the answer says exactly what happened: 250, every recipient
\* that can be served has the whole text once, in spite of those that cannot
\* (A10-RETRY-3); 550, none can be served; 451, diamy-submitd never relayed.
FaultlessAnswersAreExact ==
    \A t \in Attempts \ doubt :
        LET served == {n \in Entries : copies[t][n] = 1}
            can == {n \in DOMAIN named[t] : Deliverable(named[t][n])}
        IN  CASE told[t] = "250" -> served = can /\ can # {} /\ t \notin cut
              [] told[t] = "550" -> can = {} /\ served = {}
              [] told[t] = "451" -> t \in barred /\ served = {}
              [] OTHER -> TRUE

\* At most one copy per recipient named, no answer told twice, 250 only of a
\* message somebody has, an error of a message somebody has only after a fault,
\* nothing delivered after a final answer.
Promise == INSTANCE SubmitPromise
KeepsSubmitPromise == Promise!Spec

\* The client that sent its text is answered, or its connection is over.
SubmissionsEnd == \A s \in Sessions : bridge[s].pc = "submit" ~> bridge[s].pc # "submit"
=============================================================================
