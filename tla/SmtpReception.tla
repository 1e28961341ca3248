--------------------------- MODULE SmtpReception ---------------------------
(***************************************************************************)
(* The SMTP dialogue of diamy-mxd: one connection, from its banner to its  *)
(* end, through STARTTLS (handle_connection, run_command_loop,             *)
(* read_data_bounded).                                                     *)
(*                                                                         *)
(* The peer is another mail server.  It may send commands ahead of the     *)
(* answers, except after DATA, and its connection may end at any point,    *)
(* with lines it sent never arriving.  What a copy becomes in the          *)
(* catalogue is MailStore's subject; here delivery to one recipient        *)
(* succeeds or fails, and one that fails may leave a copy behind.          *)
(***************************************************************************)
EXTENDS Integers, Sequences, FiniteSets, SequencesExt

CONSTANTS
    Addrs,          \* addresses the peer names in RCPT TO
    Principals,     \* mailboxes of the platform
    Resolve,        \* principal of an address, Unknown or Invalid
    Unknown,        \* no entitled principal has this address
    Invalid,        \* not an address: extract_addr or diamy_addr_canon fails
    MaxRecipients,  \* bound on the recipients of a transaction
    MaxBody,        \* max_data_bytes, in lines
    MaxText,        \* bound on the lines of a message
    MaxMails,       \* bound on the MAIL commands
    MaxAsides,      \* bound on the commands outside a transaction
    MaxAhead,       \* bound on the commands sent ahead of their answers
    MaxFaults       \* bound on failed deliveries and restarts of mxd

ASSUME ResolveAssumption == Resolve \in [Addrs -> Principals \cup {Unknown, Invalid}]
ASSUME NotPrincipals == Unknown \notin Principals /\ Invalid \notin Principals
ASSUME BoundsAssumption ==
    {MaxRecipients, MaxBody, MaxText, MaxMails, MaxAsides, MaxAhead, MaxFaults} \subseteq Nat

VARIABLES
    phase,      \* loop mxd runs: "clear", "handshake", "tls", "closed"
    mode,       \* what it reads: "command", "data"; or "deliver"
    session,    \* Session of run_command_loop: mail and recipients
    body,       \* read_data_bounded: its lines, whether they are too many
    job,        \* deliver_to_recipients: next recipient, copies, failures
    store,      \* copies delivered
    wire,       \* lines on their way to mxd
    acks,       \* answers on their way to the peer
    open,       \* the peer's end of the connection
    peer,       \* what the peer believes: layer, asked, mail, recipients, writing
    mails,      \* MAIL commands so far
    messages,   \* history: what the peer sent after the 354 of each MAIL
    verdict,    \* history: last answer to DATA the peer got for each MAIL
    asides,     \* commands outside a transaction so far
    faults      \* faults so far

server == <<phase, mode, session, body, job>>
client == <<open, peer, mails, messages, verdict, asides>>
vars == <<server, store, wire, acks, client, faults>>

\* MAIL commands by number; 0 stands for none.
Mails == 0 .. MaxMails

NoMail == [id |-> 0, tls |-> FALSE]
NoSession == [mail |-> NoMail, recipients |-> <<>>]
NoBody == [lines |-> <<>>, tooLarge |-> FALSE]
NoJob == [next |-> 1, delivered |-> 0, failed |-> 0]
NoMessage == [lines |-> 0, ended |-> FALSE, tls |-> FALSE, recipients |-> <<>>]

Line(cmd, arg, tls) == [cmd |-> cmd, arg |-> arg, tls |-> tls]

----------------------------------------------------------------------------
(* The peer *)

\* Answers may be outstanding, but none to DATA and not too many.
MaySend ==
    /\ open /\ phase # "closed" /\ peer.layer # "hello" /\ ~peer.writing
    /\ Len(peer.asked) < MaxAhead
    /\ peer.asked # <<>> => Last(peer.asked).cmd \notin {"DATA", "QUIT"}

Ask(cmd, arg) ==
    LET line == Line(cmd, arg, peer.layer = "tls")
    IN  /\ wire' = Append(wire, line)
        /\ peer' = [peer EXCEPT !.asked = Append(@, line)]

SendMail ==
    /\ MaySend /\ mails < MaxMails
    /\ mails' = mails + 1
    /\ Ask("MAIL", mails')
    /\ UNCHANGED <<server, store, acks, open, messages, verdict, asides, faults>>

\* Addresses that will be refused count as commands outside a transaction.
SendRcpt(a) ==
    /\ MaySend /\ Ask("RCPT", a)
    /\ IF Resolve[a] \in Principals THEN UNCHANGED asides
       ELSE asides < MaxAsides /\ asides' = asides + 1
    /\ UNCHANGED <<server, store, acks, open, mails, messages, verdict, faults>>

SendData ==
    /\ MaySend /\ Ask("DATA", 0)
    /\ UNCHANGED <<server, store, acks, open, mails, messages, verdict, asides, faults>>

\* EHLO, NOOP, RSET, STARTTLS, a MAIL FROM without an address, an unknown
\* command, a line past MAX_LINE_LEN.
SendAside(cmd) ==
    /\ MaySend /\ asides < MaxAsides
    /\ Ask(cmd, 0)
    /\ asides' = asides + 1
    /\ UNCHANGED <<server, store, acks, open, mails, messages, verdict, faults>>

SendQuit ==
    /\ MaySend /\ Ask("QUIT", 0)
    /\ UNCHANGED <<server, store, acks, open, mails, messages, verdict, asides, faults>>

\* The peer was told 354: it sends the lines of its message, then the dot.
SendText(cmd) ==
    LET id == peer.mail.id
        n == messages[id].lines
    IN  /\ open /\ phase # "closed" /\ peer.writing /\ ~messages[id].ended /\ n < MaxText
        /\ wire' = Append(wire, Line(cmd, n + 1, peer.layer = "tls"))
        /\ messages' = [messages EXCEPT ![id].lines = n + 1]
        /\ UNCHANGED <<server, store, acks, open, peer, mails, verdict, asides, faults>>

SendDot ==
    LET id == peer.mail.id
    IN  /\ open /\ phase # "closed" /\ peer.writing /\ ~messages[id].ended
        /\ wire' = Append(wire, Line("DOT", 0, peer.layer = "tls"))
        /\ messages' = [messages EXCEPT ![id].ended = TRUE]
        /\ UNCHANGED <<server, store, acks, open, peer, mails, verdict, asides, faults>>

\* What the peer knows once it reads an answer to the oldest command it asked
\* (RFC 5321): a refused command changes nothing, STARTTLS starts afresh.
Learn(p, code) ==
    LET line == Head(p.asked)
        done == [p EXCEPT !.asked = Tail(@)]
        over == [done EXCEPT !.mail = NoMail, !.recipients = <<>>, !.writing = FALSE]
    IN  CASE line.cmd = "MAIL" /\ code = "250" ->
               [over EXCEPT !.mail = [id |-> line.arg, tls |-> line.tls]]
          [] line.cmd = "RCPT" /\ code = "250" ->
               [done EXCEPT !.recipients = Append(@, [addr |-> line.arg, tls |-> line.tls])]
          [] line.cmd = "DATA" /\ code = "354" -> [p EXCEPT !.writing = TRUE]
          [] line.cmd = "DATA" /\ code \notin {"354", "554"} -> over
          [] line.cmd = "RSET" /\ code = "250" -> over
          [] line.cmd = "STARTTLS" /\ code = "220" ->
               [over EXCEPT !.layer = "hello", !.asked = <<>>]
          [] OTHER -> done

Receive ==
    /\ open /\ acks # <<>> /\ peer.asked # <<>>
    /\ acks' = Tail(acks)
    /\ peer' = Learn(peer, Head(acks))
    /\ verdict' = IF peer.writing THEN [verdict EXCEPT ![peer.mail.id] = Head(acks)]
                                  ELSE verdict
    /\ messages' = IF Head(peer.asked).cmd = "DATA" /\ Head(acks) = "354"
                   THEN [messages EXCEPT ![peer.mail.id] =
                           [NoMessage EXCEPT !.tls = peer.layer = "tls",
                                             !.recipients = peer.recipients]]
                   ELSE messages
    /\ UNCHANGED <<server, store, wire, open, mails, asides, faults>>

\* The connection ends: the lines that had not arrived may never do.
Disconnect ==
    /\ open /\ phase # "closed"
    /\ open' = FALSE
    /\ \E n \in 0 .. Len(wire) : wire' = SubSeq(wire, 1, n)
    /\ UNCHANGED <<server, store, acks, peer, mails, messages, verdict, asides, faults>>

----------------------------------------------------------------------------
(* run_command_loop *)

\* The task of the connection ends: its locals and what it had not read are gone.
End ==
    /\ phase' = "closed" /\ mode' = "command" /\ wire' = <<>>
    /\ session' = NoSession /\ body' = NoBody /\ job' = NoJob

Reply(code) == acks' = Append(acks, code)

\* read_line_bounded returned the line of a command.
Command(cmd) ==
    /\ phase \in {"clear", "tls"} /\ mode = "command"
    /\ wire # <<>> /\ Head(wire).cmd = cmd
    /\ wire' = Tail(wire)
    /\ UNCHANGED <<body, job, store, client, faults>>

\* EHLO, NOOP: answered.  A line past MAX_LINE_LEN and an unknown command: 500.
Aside ==
    /\ \/ \E cmd \in {"EHLO", "NOOP"} : Command(cmd) /\ Reply("250")
       \/ \E cmd \in {"LONG", "JUNK"} : Command(cmd) /\ Reply("500")
    /\ UNCHANGED <<phase, mode, session>>

\* In the loop of the TLS stream the command is refused.
StartTls ==
    /\ Command("STARTTLS")
    /\ IF phase = "clear" THEN Reply("220") /\ phase' = "handshake"
                          ELSE Reply("503") /\ UNCHANGED phase
    /\ UNCHANGED <<mode, session>>

\* Mutant: a new MAIL FROM keeps the recipients of the transaction.
MailKeepsRecipients(s, line) == [s EXCEPT !.mail = [id |-> line.arg, tls |-> line.tls]]

\* A new transaction replaces the one in progress.
NewTransaction(s, line) ==
    [mail |-> [id |-> line.arg, tls |-> line.tls], recipients |-> <<>>]

MailFrom ==
    /\ \/ Command("MAIL") /\ Reply("250")
          /\ session' = NewTransaction(session, Head(wire))
       \/ Command("BADMAIL") /\ Reply("501") /\ UNCHANGED session
    /\ UNCHANGED <<phase, mode>>

\* Mutant: the bound on recipients is not tested.
RcptCodeUnbounded(addr) ==
    IF session.mail = NoMail THEN "503"
    ELSE IF Resolve[addr] = Invalid THEN "501"
    ELSE IF Resolve[addr] = Unknown THEN "550"
    ELSE "250"

\* The answer to RCPT TO, in the order of the tests.
RcptCode(addr) ==
    IF session.mail = NoMail THEN "503"
    ELSE IF Len(session.recipients) >= MaxRecipients THEN "452"
    ELSE IF Resolve[addr] = Invalid THEN "501"
    ELSE IF Resolve[addr] = Unknown THEN "550"
    ELSE "250"

RcptTo ==
    LET line == Head(wire)
        code == RcptCode(line.arg)
    IN  /\ Command("RCPT") /\ Reply(code)
        /\ session' = IF code = "250"
                      THEN [session EXCEPT !.recipients =
                               Append(@, [addr |-> line.arg, tls |-> line.tls])]
                      ELSE session
        /\ UNCHANGED <<phase, mode>>

\* DATA with no recipient is refused and the text is not read.
Data ==
    /\ Command("DATA")
    /\ IF session.recipients = <<>> THEN Reply("554") /\ UNCHANGED mode
                                     ELSE Reply("354") /\ mode' = "data"
    /\ UNCHANGED <<phase, session>>

Rset ==
    /\ Command("RSET") /\ Reply("250")
    /\ session' = NoSession
    /\ UNCHANGED <<phase, mode>>

Quit ==
    /\ phase \in {"clear", "tls"} /\ mode = "command"
    /\ wire # <<>> /\ Head(wire).cmd = "QUIT"
    /\ Reply("221")
    /\ End
    /\ UNCHANGED <<store, client, faults>>

\* The end of the connection where a command is expected.
Eof ==
    /\ phase \in {"clear", "tls"} /\ mode = "command" /\ ~open /\ wire = <<>>
    /\ End
    /\ UNCHANGED <<store, acks, client, faults>>

----------------------------------------------------------------------------
(* STARTTLS (handle_connection) *)

\* Mutant: the TLS loop goes on with the session of the clear one.
TlsLoopKeeps == wire' = <<>> /\ session' = session

\* reader.into_inner() drops what it had buffered; the TLS loop has a Session of
\* its own.
TlsLoop == wire' = <<>> /\ session' = NoSession

\* The clear text sent behind STARTTLS had all been buffered with it, and the
\* peer, which read 220, sends its first TLS record.
Handshake ==
    /\ phase = "handshake" /\ open /\ peer.layer = "hello"
    /\ TlsLoop
    /\ phase' = "tls"
    /\ peer' = [peer EXCEPT !.layer = "tls"]
    /\ UNCHANGED <<mode, body, job, store, acks, open, mails, messages, verdict, asides, faults>>

\* accept fails: it reads clear text for a record, or the end of the connection.
HandshakeFails ==
    /\ phase = "handshake"
    /\ wire # <<>> \/ ~open
    /\ End
    /\ UNCHANGED <<store, acks, client, faults>>

----------------------------------------------------------------------------
(* DATA (read_data_bounded) *)

\* A line past MAX_LINE_LEN, or one that overflows max_data_bytes, and the rest
\* is read up to the dot and not kept.
Extended(b, line) ==
    IF b.tooLarge \/ line.cmd = "LONG" \/ Len(b.lines) >= MaxBody
    THEN [b EXCEPT !.tooLarge = TRUE]
    ELSE [b EXCEPT !.lines = Append(@, line.arg)]

TextLine ==
    /\ phase # "closed" /\ mode = "data" /\ wire # <<>> /\ Head(wire).cmd # "DOT"
    /\ body' = Extended(body, Head(wire))
    /\ wire' = Tail(wire)
    /\ UNCHANGED <<phase, mode, session, job, store, acks, client, faults>>

\* Whatever becomes of the message, the transaction is over.
AfterData == session' = NoSession

\* Mutant: the dot is drained with the rest.
TextEndedDrained == IF wire = <<>> THEN ~open ELSE Head(wire).cmd = "DOT" /\ ~body.tooLarge

\* The dot, or the end of the connection, taken for it.
TextEnded == IF wire = <<>> THEN ~open ELSE Head(wire).cmd = "DOT"

RestOfWire == IF wire = <<>> THEN <<>> ELSE Tail(wire)

TooLarge ==
    /\ phase # "closed" /\ mode = "data" /\ TextEnded /\ body.tooLarge
    /\ wire' = RestOfWire
    /\ Reply("552")
    /\ AfterData
    /\ body' = NoBody /\ mode' = "command"
    /\ UNCHANGED <<phase, job, store, client, faults>>

Body ==
    /\ phase # "closed" /\ mode = "data" /\ TextEnded /\ ~body.tooLarge
    /\ wire' = RestOfWire
    /\ mode' = "deliver"
    /\ UNCHANGED <<phase, session, body, job, store, acks, client, faults>>

----------------------------------------------------------------------------
(* deliver_to_recipients *)

\* The copy of the n-th recipient, with the TLS posture of the session; mxd knows
\* of it when the commit was answered.
Copy(n, answered) ==
    [mail |-> session.mail.id, nth |-> n, to |-> Resolve[session.recipients[n].addr],
     lines |-> body.lines, tls |-> phase = "tls", answered |-> answered]

\* A copy in the mailbox or the hold queue of the next recipient.
Deliver ==
    /\ phase # "closed" /\ mode = "deliver" /\ job.next <= Len(session.recipients)
    /\ store' = store \cup {Copy(job.next, TRUE)}
    /\ job' = [job EXCEPT !.next = @ + 1, !.delivered = @ + 1]
    /\ UNCHANGED <<phase, mode, session, body, wire, acks, client, faults>>

\* Directory, encryption, hold queue or catalogue: that recipient counts as failed,
\* and the others still get theirs (A01-PIPE-3).  An error of the last call may be
\* that of a commit which took effect: the copy is there.
DeliverFails ==
    /\ phase # "closed" /\ mode = "deliver" /\ job.next <= Len(session.recipients)
    /\ faults < MaxFaults
    /\ faults' = faults + 1
    /\ store' \in {store, store \cup {Copy(job.next, FALSE)}}
    /\ job' = [job EXCEPT !.next = @ + 1, !.failed = @ + 1]
    /\ UNCHANGED <<phase, mode, session, body, wire, acks, client>>

\* Mutant: any failure is answered as a temporary one.
OutcomeAnyFailure(j) == IF j.failed > 0 THEN "451" ELSE "250"

\* DeliveryOutcome: All, Failed or Partial.
Outcome(j) == IF j.delivered = 0 THEN "451"
              ELSE IF j.failed = 0 THEN "250" ELSE "250 partial"

Delivered ==
    /\ phase # "closed" /\ mode = "deliver" /\ job.next > Len(session.recipients)
    /\ Reply(Outcome(job))
    /\ AfterData
    /\ job' = NoJob /\ body' = NoBody /\ mode' = "command"
    /\ UNCHANGED <<phase, store, wire, client, faults>>

----------------------------------------------------------------------------
(* Failures *)

\* Reading from, or writing to, a connection the peer has left fails.
ConnectionLost ==
    /\ phase \in {"clear", "tls"} /\ ~open /\ mode # "deliver"
    /\ End
    /\ UNCHANGED <<store, acks, client, faults>>

\* mxd stops: the task of the connection with it.
Crash ==
    /\ phase # "closed" /\ faults < MaxFaults
    /\ End
    /\ faults' = faults + 1
    /\ UNCHANGED <<store, acks, client>>

----------------------------------------------------------------------------
Init ==
    /\ phase = "clear" /\ mode = "command"
    /\ session = NoSession /\ body = NoBody /\ job = NoJob
    /\ store = {} /\ wire = <<>> /\ acks = <<>> /\ open = TRUE
    /\ peer = [layer |-> "clear", asked |-> <<>>, mail |-> NoMail, recipients |-> <<>>,
               writing |-> FALSE]
    /\ mails = 0
    /\ messages = [id \in Mails |-> NoMessage]
    /\ verdict = [id \in Mails |-> "none"]
    /\ asides = 0 /\ faults = 0

Asides == {"EHLO", "NOOP", "RSET", "STARTTLS", "BADMAIL", "JUNK", "LONG"}

\* What mxd does of its own accord.
Serve ==
    \/ Aside \/ StartTls \/ MailFrom \/ RcptTo \/ Data \/ Rset \/ Quit \/ Eof
    \/ Handshake \/ HandshakeFails
    \/ TextLine \/ TooLarge \/ Body \/ Deliver \/ Delivered

Next ==
    \/ SendMail \/ \E a \in Addrs : SendRcpt(a)
    \/ SendData \/ \E cmd \in Asides : SendAside(cmd)
    \/ SendQuit \/ \E cmd \in {"TEXT", "LONG"} : SendText(cmd)
    \/ SendDot \/ Receive \/ Disconnect
    \/ Serve \/ DeliverFails \/ ConnectionLost \/ Crash

Spec == Init /\ [][Next]_vars

\* mxd serves the connection, and the peer reads what it is sent.
FairSpec == Spec /\ WF_vars(Serve) /\ WF_vars(Receive)

----------------------------------------------------------------------------
(* Properties *)

Lines == [cmd : Asides \cup {"MAIL", "RCPT", "DATA", "QUIT", "TEXT", "DOT"},
          arg : Addrs \cup Nat, tls : BOOLEAN]
Recipients == [addr : Addrs, tls : BOOLEAN]
Sessions == [mail : [id : Mails, tls : BOOLEAN], recipients : Seq(Recipients)]
Codes == {"220", "221", "250", "250 partial", "354", "451", "452", "500", "501", "503",
          "550", "552", "554"}

\* Every variable keeps its type; a transaction has at most MAX_RECIPIENTS
\* recipients and a message at most max_data_bytes.
TypeOK ==
    /\ phase \in {"clear", "handshake", "tls", "closed"}
    /\ mode \in {"command", "data", "deliver"}
    /\ session \in Sessions /\ Len(session.recipients) <= MaxRecipients
    /\ body \in [lines : Seq(1 .. MaxText), tooLarge : BOOLEAN] /\ Len(body.lines) <= MaxBody
    /\ job \in [next : Nat, delivered : Nat, failed : Nat]
    /\ store \subseteq [mail : Mails, nth : 1 .. MaxRecipients, to : Principals,
                        lines : Seq(1 .. MaxText), tls : BOOLEAN, answered : BOOLEAN]
    /\ wire \in Seq(Lines) /\ acks \in Seq(Codes) /\ open \in BOOLEAN
    /\ peer \in [layer : {"clear", "hello", "tls"}, asked : Seq(Lines),
                 mail : [id : Mails, tls : BOOLEAN], recipients : Seq(Recipients),
                 writing : BOOLEAN]
    /\ mails \in Mails /\ asides \in 0 .. MaxAsides /\ faults \in 0 .. MaxFaults
    /\ messages \in [Mails -> [lines : 0 .. MaxText, ended : BOOLEAN, tls : BOOLEAN,
                               recipients : Seq(Recipients)]]
    /\ verdict \in [Mails -> Codes \cup {"none"}]

\* What a peer that is p believes after each of these answers.
Views(p, answers) ==
    LET view[i \in 0 .. Len(answers)] ==
            IF i = 0 THEN p ELSE Learn(view[i - 1], answers[i])
    IN  view

\* What the peer will believe once it has read the answers on their way.
Informed == Views(peer, acks)[Len(acks)]

\* Every command is answered once, in order: the commands without an answer are
\* those still on the wire, and DATA while its text is read or delivered.
AnswersInOrder ==
    IF mode = "command" THEN Informed.asked = wire
    ELSE Len(Informed.asked) = 1 /\ Head(Informed.asked).cmd = "DATA"

\* The peer and mxd never disagree about the transaction or about the commands
\* still to be answered: the sender, the recipients in their order, and whether a
\* text is expected, as the answers tell them, are those of the Session, through
\* refusals, RSET, a second MAIL FROM, DATA and STARTTLS.
ViewsAgree ==
    open /\ phase \in {"clear", "tls"} =>
        /\ Informed.mail = session.mail
        /\ Informed.recipients = session.recipients
        /\ Informed.writing = (mode # "command")
        /\ AnswersInOrder

\* The text the peer has sent under a MAIL.
Text(m) == [i \in 1 .. m.lines |-> i]

\* What was said in clear before STARTTLS has no effect inside TLS (RFC 3207),
\* and a copy records the layer its whole transaction came through (A01-SMTP-1).
NothingCrossesStartTls ==
    /\ phase = "tls" => /\ session.mail # NoMail => session.mail.tls
                        /\ \A n \in DOMAIN session.recipients : session.recipients[n].tls
    /\ \A c \in store :
           LET m == messages[c.mail]
           IN  m.ended => /\ c.tls = m.tls
                          /\ \A n \in DOMAIN m.recipients : m.recipients[n].tls = c.tls

\* A copy holds the lines sent under its own MAIL, for a recipient accepted in
\* that transaction and layer; it is cut short only when the connection ended inside
\* DATA, which run_command_loop does not tell from the final dot.
CopiesAreAsSent ==
    /\ NothingCrossesStartTls
    /\ \A c \in store :
        LET m == messages[c.mail]
        IN  IF m.ended /\ c.lines = Text(m)
            THEN c.nth \in DOMAIN m.recipients /\ Resolve[m.recipients[c.nth].addr] = c.to
            ELSE ~open /\ IsPrefix(c.lines, Text(m))

CopiesOf(id) == {c \in store : c.mail = id}

\* Copies whose commit took effect while its answer was lost.
Unanswered == {c \in store : ~c.answered}

\* The answer to DATA is true of what mxd could know: 250 when every accepted
\* recipient has the whole text, "partiellement" when some have it and some failed,
\* 451 when all failed, another error only when nobody has it.  A recipient that
\* failed has no copy, with one exception: a commit which took effect while its
\* answer was lost.  Each such copy cost a fault, and sending the message again
\* after 451 or "partiellement" duplicates it.  One transaction never makes two
\* copies for one recipient.
VerdictIsTrue ==
    /\ Cardinality(Unanswered) <= faults
    /\ \A id \in Mails :
        LET copies == CopiesOf(id)
            served == {c.nth : c \in {x \in copies : x.answered /\ x.lines = Text(messages[id])}}
            all == DOMAIN messages[id].recipients
        IN  verdict[id] # "none" =>
              /\ \A c, d \in copies : c.nth = d.nth => c = d
              /\ CASE verdict[id] = "250" -> served = all
                   [] verdict[id] = "250 partial" -> served # {} /\ served # all
                   [] verdict[id] = "451" -> \A c \in copies : ~c.answered
                   [] OTHER -> copies = {}

\* A peer that has sent what it announced does not wait for ever: an answer is
\* on its way, or the connection is over.
Waiting == open /\ peer.asked # <<>> /\ (peer.writing => messages[peer.mail.id].ended)
NoPeerWaitsForEver == []<>(~Waiting \/ acks # <<>> \/ phase = "closed")
=============================================================================
