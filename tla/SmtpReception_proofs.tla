-------------------------- MODULE SmtpReception_proofs --------------------------
(***************************************************************************)
(* Proofs about SmtpReception, for every bound on commands, recipients,    *)
(* lines and faults: the peer and mxd agree about the transaction, a copy  *)
(* is what was sent for it, and the answer to DATA is true of what mxd     *)
(* could know.                                                             *)
(*                                                                         *)
(* While the peer is connected the invariant speaks of its views: what it  *)
(* believes now, and after each answer on its way (Views).  The last view  *)
(* is that of mxd (Agree).  Once it has left nothing it knows changes any  *)
(* more, and the lines that arrived are served without it.                 *)
(***************************************************************************)
EXTENDS SmtpReception, TLAPS, WellFoundedInduction, FiniteSetTheorems

----------------------------------------------------------------------------
(* The inductive invariant *)

View(i) == Views(peer, acks)[i]

Layered == phase \in {"clear", "tls"}
InTls == phase = "tls"

\* A command with the argument it calls for; m MAIL commands were sent.
WellFormed(line, m) ==
    /\ line \in Lines /\ line.cmd \notin {"TEXT", "DOT"}
    /\ line.cmd = "MAIL" => line.arg \in 1 .. m
    /\ line.cmd = "RCPT" => line.arg \in Addrs

Plain(lines) == \A i \in 1 .. Len(lines) : lines[i].cmd \notin {"DATA", "QUIT"}

\* Commands, with nothing behind DATA or QUIT.
CommandLines(lines, m) ==
    /\ lines \in Seq(Lines)
    /\ \A i \in 1 .. Len(lines) : WellFormed(lines[i], m)
    /\ \A i \in 1 .. Len(lines) - 1 : lines[i].cmd \notin {"DATA", "QUIT"}

IsText(line) == line.cmd \in {"TEXT", "LONG", "DOT"} /\ (line.cmd = "TEXT" => line.arg \in 1 .. MaxText)

\* Lines of a text, with nothing behind the dot.
TextLines(lines) ==
    /\ \A i \in 1 .. Len(lines) : IsText(lines[i])
    /\ \A i \in 1 .. Len(lines) - 1 : lines[i].cmd # "DOT"

PeerType == [layer : {"clear", "hello", "tls"}, asked : Seq(Lines),
             mail : [id : Mails, tls : BOOLEAN], recipients : Seq(Recipients), writing : BOOLEAN]

\* STARTTLS leaves the peer with nothing it knew.
PeerOK(p, m) ==
    /\ p \in PeerType /\ CommandLines(p.asked, m) /\ p.mail.id \in 0 .. m
    /\ p.layer = "hello" => /\ p.asked = <<>> /\ p.mail = NoMail /\ p.recipients = <<>>
                            /\ ~p.writing

\* What mxd reads, whether the peer is there or not.
WireInv ==
    /\ wire \in Seq(Lines)
    /\ ~Layered => mode = "command"
    /\ phase = "closed" => wire = <<>>
    /\ Layered /\ mode = "command" => CommandLines(wire, mails)
    /\ mode = "data" => TextLines(wire)
    /\ mode = "deliver" => wire = <<>>

\* The transaction of mxd.
SessionInv ==
    /\ session.mail.id \in 0 .. mails
    /\ session.mail # NoMail => session.mail.id # 0
    /\ session.recipients # <<>> => session.mail.id # 0
    /\ \A n \in 1 .. Len(session.recipients) : Resolve[session.recipients[n].addr] \in Principals
    /\ mode # "command" => session.recipients # <<>>
    /\ job.next # 0 /\ (mode # "deliver" => job = NoJob)
    /\ mode = "command" => body = NoBody

\* Every view is one of a peer that waits for an answer to each answer on its way,
\* and a text is announced by the last one only.
ViewInv(i) ==
    /\ PeerOK(View(i), mails)
    /\ i < Len(acks) => View(i).asked # <<>>
    /\ View(i).writing => /\ Len(View(i).asked) = 1 /\ Head(View(i).asked).cmd = "DATA"
                          /\ View(i).mail.id # 0
                          /\ i = 0 \/ i = Len(acks)
    /\ Layered => View(i).layer = phase

\* What the peer will know is what mxd knows.
Agree ==
    /\ Layered => /\ Informed.mail = session.mail
                  /\ Informed.recipients = session.recipients
                  /\ Informed.writing <=> mode # "command"
                  /\ AnswersInOrder
    /\ phase = "handshake" => Informed.layer = "hello"

\* A text that is being sent: its verdict is the only answer that may be on its way,
\* and its dot is behind mxd or the last line on the wire.
WritingInv ==
    /\ peer.writing /\ acks # <<>> => Len(acks) = 1 /\ acks[1] \in {"250", "250 partial", "451", "552"}
    /\ peer.writing /\ phase # "closed" =>
           messages[peer.mail.id].ended <=> \/ mode # "data"
                                            \/ wire # <<>> /\ Last(wire).cmd = "DOT"
    /\ mode # "command" => IF peer.writing THEN acks = <<>>
                           ELSE mode = "data" /\ wire = <<>> /\ body = NoBody

ViewsInv == \A i \in 0 .. Len(acks) : ViewInv(i)

DialogueInv ==
    /\ TypeOK /\ PeerOK(peer, mails) /\ WireInv /\ SessionInv
    /\ open => ViewsInv /\ Agree /\ WritingInv

----------------------------------------------------------------------------
(* Texts, copies and verdicts *)

\* No text was sent under this MAIL, and no verdict returned.
Blank(id, ms, vs) == ms[id] = NoMessage /\ vs[id] = "none"
Unused(id, ms, vs, st) == Blank(id, ms, vs) /\ \A c \in st : c.mail # id

\* The MAIL commands a peer still has before it, if v is what it believes.
FreshView(v, ms, vs, st) ==
    /\ v.mail.id # 0 /\ ~v.writing => Unused(v.mail.id, ms, vs, st)
    /\ \A j \in 1 .. Len(v.asked) : v.asked[j].cmd = "MAIL" => Unused(v.asked[j].arg, ms, vs, st)

FreshInv ==
    /\ \A i \in 0 .. Len(acks) : FreshView(View(i), messages, verdict, store)
    /\ \A id \in Mails : id > mails => Unused(id, messages, verdict, store)

\* Those a peer that left had sent and that are still before mxd.
LeftInv ==
    Layered /\ mode = "command" =>
        /\ Blank(session.mail.id, messages, verdict)
        /\ \A j \in 1 .. Len(wire) : wire[j].cmd = "MAIL" => Blank(wire[j].arg, messages, verdict)

\* What mxd has read of the text, and the wire, are what the peer sent: m, all of
\* it while it is there.
TextSent(m, b, w, there) ==
    LET n == Len(b.lines)
    IN  /\ \A i \in 1 .. Len(w) : w[i].cmd # "DOT" => w[i].arg = n + i
        /\ IF w # <<>> /\ Last(w).cmd = "DOT" THEN m.ended /\ m.lines = n + Len(w) - 1
           ELSE m.lines >= n + Len(w) /\ (there => m.lines = n + Len(w))

\* The text mxd reads is that of the transaction, from its first line on.
TextInv ==
    LET m == messages[session.mail.id]
        n == Len(body.lines)
    IN  /\ mode = "data" /\ ~body.tooLarge => TextSent(m, body, wire, open)
        /\ mode = "deliver" => ~body.tooLarge /\ m.lines >= n /\ (open => m.ended /\ m.lines = n)
        /\ \A i \in 1 .. n : body.lines[i] = i
        /\ mode # "command" => verdict[session.mail.id] = "none"
        /\ mode # "command" /\ (m.ended \/ (open /\ peer.writing)) =>
              m.recipients = session.recipients /\ m.tls = InTls

\* Each line belongs to the layer mxd reads.
LayerInv ==
    Layered => /\ \A i \in 1 .. Len(wire) : wire[i].tls = InTls
               /\ session.mail # NoMail => session.mail.tls = InTls
               /\ \A n \in 1 .. Len(session.recipients) : session.recipients[n].tls = InTls

\* A copy is made of a text that ended, unless the peer left inside it.
CopyOK(c, m, there) ==
    /\ c.mail # 0
    /\ there => m.ended /\ c.lines = Text(m)
    /\ IsPrefix(c.lines, Text(m))
    /\ m.ended => /\ c.tls = m.tls /\ \A n \in 1 .. Len(m.recipients) : m.recipients[n].tls = c.tls
                  /\ c.nth \in 1 .. Len(m.recipients)
                  /\ Resolve[m.recipients[c.nth].addr] = c.to

StoreInv == \A c \in store : CopyOK(c, messages[c.mail], open)

CopiesFor(id, st) == {c \in st : c.mail = id}

\* How far deliver_to_recipients is.
JobInv ==
    LET copied == CopiesFor(session.mail.id, store)
    IN  /\ mode = "data" /\ peer.writing => copied = {}
        /\ mode = "deliver" =>
              /\ job.next <= Len(session.recipients) + 1
              /\ \A c \in copied : c.lines = body.lines /\ c.nth < job.next
              /\ \A c, d \in copied : c.nth = d.nth => c = d
              /\ job.delivered = 0 <=> \A c \in copied : ~c.answered
              /\ job.failed = 0 <=>
                    \A n \in 1 .. job.next - 1 : \E c \in copied : c.nth = n /\ c.answered

\* The answer code under the MAIL of message m says who has it, as far as mxd knows.
TrueOf(code, copies, m) ==
    LET served == {c.nth : c \in {x \in copies : x.answered /\ x.lines = Text(m)}}
        all == 1 .. Len(m.recipients)
    IN  code # "none" =>
          /\ \A c, d \in copies : c.nth = d.nth => c = d
          /\ CASE code = "250" -> served = all
               [] code = "250 partial" -> served # {} /\ served # all
               [] code = "451" -> \A c \in copies : ~c.answered
               [] OTHER -> copies = {}

VerdictInv ==
    /\ \A id \in Mails : TrueOf(verdict[id], CopiesFor(id, store), messages[id])
    /\ open /\ peer.writing =>
          /\ verdict[peer.mail.id] = "none"
          /\ acks # <<>> => TrueOf(acks[1], CopiesFor(peer.mail.id, store), messages[peer.mail.id])

MessageInv ==
    /\ open => FreshInv /\ JobInv
    /\ ~open => LeftInv
    /\ Blank(0, messages, verdict)
    /\ TextInv /\ LayerInv /\ StoreInv /\ VerdictInv

IInv == DialogueInv /\ MessageInv

----------------------------------------------------------------------------
(* Views, by induction over the answers *)

\* Induction on the natural numbers for a set; < is well founded.
LEMMA SetInduction ==
    ASSUME NEW S, 0 \in S, \A n \in Nat : n \in S => n + 1 \in S
    PROVE  Nat \subseteq S
<1> DEFINE T == Nat \ S
           R == OpToRel(<, Nat)
<1> SUFFICES ASSUME T # {} PROVE FALSE
  OBVIOUS
<1>1. IsWellFoundedOn(R, Nat)
  BY NatLessThanWellFounded
<1>2. PICK m \in T : \A n \in T : <<n, m>> \notin R
  <2> HIDE DEF R
  <2>1. T \subseteq Nat
    OBVIOUS
  <2> HIDE DEF T
  <2> QED BY <1>1, <2>1, WFMin
<1>3. m \in Nat /\ m # 0 /\ m - 1 \in Nat /\ m - 1 < m
  OBVIOUS
<1>4. m - 1 \in S
  BY <1>2, <1>3 DEF OpToRel
<1> QED BY <1>3, <1>4

\* Induction up to a bound.
LEMMA BoundedInduction ==
    ASSUME NEW m \in Nat, NEW S, 0 \in S,
           \A n \in 0 .. m - 1 : n \in S => n + 1 \in S
    PROVE  0 .. m \subseteq S
<1> DEFINE T == {n \in Nat : n \in 0 .. m => n \in S}
<1>1. 0 \in T
  OBVIOUS
<1>2. \A n \in Nat : n \in T => n + 1 \in T
  OBVIOUS
<1> HIDE DEF T
<1>3. Nat \subseteq T
  BY <1>1, <1>2, SetInduction
<1> QED BY <1>3 DEF T

IsView(v, p, answers, n) ==
    v = [i \in 0 .. n |-> IF i = 0 THEN p ELSE Learn(v[i - 1], answers[i])]

LEMMA ViewsExist ==
    ASSUME NEW p, NEW answers, NEW m \in Nat
    PROVE  \E v : IsView(v, p, answers, m)
<1> DEFINE S == {n \in Nat : \E v : IsView(v, p, answers, n)}
<1>1. 0 \in S
  <2>1. IsView([i \in 0 .. 0 |-> p], p, answers, 0)
    BY DEF IsView
  <2> QED BY <2>1
<1>2. \A n \in Nat : n \in S => n + 1 \in S
  <2> SUFFICES ASSUME NEW n \in Nat, NEW v, IsView(v, p, answers, n)
               PROVE  \E w : IsView(w, p, answers, n + 1)
    OBVIOUS
  <2> DEFINE w == [i \in 0 .. n + 1 |-> IF i = n + 1 THEN Learn(v[n], answers[n + 1]) ELSE v[i]]
  <2>1. \A i \in 0 .. n + 1 : w[i] = IF i = 0 THEN p ELSE Learn(w[i - 1], answers[i])
    BY DEF IsView
  <2>2. IsView(w, p, answers, n + 1)
    BY <2>1 DEF IsView
  <2> QED BY <2>2
<1> QED BY <1>1, <1>2, SetInduction

\* Views is the function its definition describes.
LEMMA ViewsFacts ==
    ASSUME NEW p, NEW S, NEW answers \in Seq(S)
    PROVE  /\ Views(p, answers)[0] = p
           /\ \A i \in 1 .. Len(answers) :
                 Views(p, answers)[i] = Learn(Views(p, answers)[i - 1], answers[i])
<1>1. Views(p, answers) = CHOOSE v : IsView(v, p, answers, Len(answers))
  BY DEF Views, IsView
<1>2. \E v : IsView(v, p, answers, Len(answers))
  <2>1. Len(answers) \in Nat
    OBVIOUS
  <2> QED BY <2>1, ViewsExist
<1>3. IsView(Views(p, answers), p, answers, Len(answers))
  BY <1>1, <1>2
<1> QED BY <1>3 DEF IsView

\* One answer more is one view more.
LEMMA ViewsReply ==
    ASSUME NEW p, NEW S, NEW answers \in Seq(S), NEW code \in S
    PROVE  LET more == Append(answers, code)
               n == Len(answers)
           IN  /\ Len(more) = n + 1
               /\ \A i \in 0 .. n : Views(p, more)[i] = Views(p, answers)[i]
               /\ Views(p, more)[n + 1] = Learn(Views(p, answers)[n], code)
<1> DEFINE more == Append(answers, code)
           n == Len(answers)
           T == {i \in 0 .. n : Views(p, more)[i] = Views(p, answers)[i]}
<1>1. /\ n \in Nat /\ more \in Seq(S) /\ Len(more) = n + 1 /\ more[n + 1] = code
      /\ \A i \in 1 .. n : more[i] = answers[i]
  OBVIOUS
<1> HIDE DEF more, n
<1>2. 0 \in T
  BY <1>1, ViewsFacts
<1>3. \A i \in 0 .. n - 1 : i \in T => i + 1 \in T
  <2> SUFFICES ASSUME NEW i \in 0 .. n - 1, i \in T PROVE i + 1 \in T
    OBVIOUS
  <2>1. /\ i + 1 \in 1 .. n /\ i + 1 \in 1 .. Len(more) /\ i + 1 \in 0 .. n /\ (i + 1) - 1 = i
    BY <1>1
  <2>2. Views(p, more)[i + 1] = Learn(Views(p, more)[i], more[i + 1])
    BY <1>1, <2>1, ViewsFacts
  <2>3. Views(p, answers)[i + 1] = Learn(Views(p, answers)[i], answers[i + 1])
    BY <2>1, ViewsFacts DEF n
  <2> QED BY <1>1, <2>1, <2>2, <2>3
<1> HIDE DEF T
<1>4. 0 .. n \subseteq T
  BY <1>1, <1>2, <1>3, BoundedInduction
<1>5. n + 1 \in 1 .. Len(more) /\ (n + 1) - 1 = n
  BY <1>1
<1>6. Views(p, more)[n + 1] = Learn(Views(p, more)[n], code)
  BY <1>1, <1>5, ViewsFacts
<1> QED BY <1>1, <1>4, <1>6 DEF T, more, n

\* Reading the oldest answer drops the oldest view.
LEMMA ViewsReceive ==
    ASSUME NEW p, NEW S, NEW answers \in Seq(S), answers # <<>>
    PROVE  LET q == Learn(p, Head(answers))
               rest == Tail(answers)
           IN  /\ Len(rest) = Len(answers) - 1
               /\ \A i \in 0 .. Len(rest) : Views(q, rest)[i] = Views(p, answers)[i + 1]
<1> DEFINE q == Learn(p, Head(answers))
           rest == Tail(answers)
           n == Len(rest)
           T == {i \in 0 .. n : Views(q, rest)[i] = Views(p, answers)[i + 1]}
<1>1. /\ n \in Nat /\ rest \in Seq(S) /\ Len(answers) = n + 1 /\ Head(answers) = answers[1]
      /\ \A i \in 1 .. n : rest[i] = answers[i + 1]
  OBVIOUS
<1>2. q = Learn(p, answers[1])
  BY <1>1
<1> HIDE DEF rest, q
<1>3. 0 \in T
  <2>1. 1 \in 1 .. Len(answers)
    BY <1>1
  <2>2. Views(p, answers)[1] = Learn(p, answers[1])
    BY <2>1, ViewsFacts
  <2> QED BY <1>1, <1>2, <2>2, ViewsFacts
<1>4. \A i \in 0 .. n - 1 : i \in T => i + 1 \in T
  <2> SUFFICES ASSUME NEW i \in 0 .. n - 1, i \in T PROVE i + 1 \in T
    OBVIOUS
  <2>1. /\ i + 1 \in 1 .. n /\ i + 2 \in 1 .. Len(answers) /\ i + 1 \in 0 .. n
        /\ (i + 1) - 1 = i /\ (i + 2) - 1 = i + 1 /\ (i + 1) + 1 = i + 2
    BY <1>1
  <2>2. Views(q, rest)[i + 1] = Learn(Views(q, rest)[i], rest[i + 1])
    BY <1>1, <2>1, ViewsFacts
  <2>3. Views(p, answers)[i + 2] = Learn(Views(p, answers)[i + 1], answers[i + 2])
    BY <2>1, ViewsFacts
  <2>4. rest[i + 1] = answers[i + 2]
    BY <1>1, <2>1
  <2> QED BY <2>1, <2>2, <2>3, <2>4
<1> HIDE DEF T
<1>5. 0 .. n \subseteq T
  BY <1>1, <1>3, <1>4, BoundedInduction
<1> QED BY <1>1, <1>5 DEF T, q, rest

----------------------------------------------------------------------------
(* What an answer teaches the peer *)

Knows(p, layer, asked, mail, recipients, writing) ==
    /\ p.layer = layer /\ p.asked = asked /\ p.mail = mail /\ p.recipients = recipients
    /\ p.writing = writing

LEMMA SamePeer ==
    ASSUME NEW L, NEW A, NEW M, NEW R, NEW W,
           NEW p \in [layer : L, asked : A, mail : M, recipients : R, writing : W],
           NEW q \in [layer : L, asked : A, mail : M, recipients : R, writing : W],
           Knows(p, q.layer, q.asked, q.mail, q.recipients, q.writing)
    PROVE  p = q
BY DEF Knows

\* The kinds of answers Learn tells apart.
BeginsMail(line, code) == line.cmd = "MAIL" /\ code = "250"
AddsRecipient(line, code) == line.cmd = "RCPT" /\ code = "250"
AsksText(line, code) == line.cmd = "DATA" /\ code = "354"
EndsMail(line, code) ==
    \/ line.cmd = "DATA" /\ code \notin {"354", "554"}
    \/ line.cmd = "RSET" /\ code = "250"
EntersTls(line, code) == line.cmd = "STARTTLS" /\ code = "220"
ChangesNothing(line, code) ==
    /\ ~BeginsMail(line, code) /\ ~AddsRecipient(line, code) /\ ~AsksText(line, code)
    /\ ~EndsMail(line, code) /\ ~EntersTls(line, code)

LEMMA LearnMail ==
    ASSUME NEW p \in PeerType, NEW code, BeginsMail(Head(p.asked), code)
    PROVE  Knows(Learn(p, code), p.layer, Tail(p.asked),
                 [id |-> Head(p.asked).arg, tls |-> Head(p.asked).tls], <<>>, FALSE)
BY DEF Learn, PeerType, Knows, BeginsMail

LEMMA LearnRcpt ==
    ASSUME NEW p \in PeerType, NEW code, AddsRecipient(Head(p.asked), code)
    PROVE  Knows(Learn(p, code), p.layer, Tail(p.asked), p.mail,
                 Append(p.recipients, [addr |-> Head(p.asked).arg, tls |-> Head(p.asked).tls]),
                 p.writing)
BY DEF Learn, PeerType, Knows, AddsRecipient

LEMMA LearnText ==
    ASSUME NEW p \in PeerType, NEW code, AsksText(Head(p.asked), code)
    PROVE  Knows(Learn(p, code), p.layer, p.asked, p.mail, p.recipients, TRUE)
BY DEF Learn, PeerType, Knows, AsksText

LEMMA LearnOver ==
    ASSUME NEW p \in PeerType, NEW code, EndsMail(Head(p.asked), code)
    PROVE  Knows(Learn(p, code), p.layer, Tail(p.asked), NoMail, <<>>, FALSE)
BY DEF Learn, PeerType, Knows, EndsMail

LEMMA LearnTls ==
    ASSUME NEW p \in PeerType, NEW code, EntersTls(Head(p.asked), code)
    PROVE  Knows(Learn(p, code), "hello", <<>>, NoMail, <<>>, FALSE)
BY DEF Learn, PeerType, Knows, EntersTls

LEMMA LearnNothing ==
    ASSUME NEW p \in PeerType, NEW code, ChangesNothing(Head(p.asked), code)
    PROVE  Knows(Learn(p, code), p.layer, Tail(p.asked), p.mail, p.recipients, p.writing)
BY DEF Learn, PeerType, Knows, ChangesNothing, BeginsMail, AddsRecipient, AsksText, EndsMail,
       EntersTls

\* What every answer leaves of a peer.
LEMMA LearnFacts ==
    ASSUME NEW p \in PeerType, NEW code
    PROVE  LET line == Head(p.asked)
               new == Learn(p, code)
           IN  /\ ~AsksText(line, code) /\ ~EntersTls(line, code) => new.asked = Tail(p.asked)
               /\ AsksText(line, code) => new.asked = p.asked
               /\ EntersTls(line, code) => Knows(new, "hello", <<>>, NoMail, <<>>, FALSE)
               /\ ~EntersTls(line, code) => new.layer = p.layer
               /\ new.writing => p.writing \/ AsksText(line, code)
<1> DEFINE line == Head(p.asked)
<1>0. \/ BeginsMail(line, code) \/ AddsRecipient(line, code) \/ AsksText(line, code)
      \/ EndsMail(line, code) \/ EntersTls(line, code) \/ ChangesNothing(line, code)
  BY DEF ChangesNothing
<1>1. /\ BeginsMail(line, code) \/ AddsRecipient(line, code) \/ EndsMail(line, code)
         \/ ChangesNothing(line, code) => ~AsksText(line, code) /\ ~EntersTls(line, code)
      /\ AsksText(line, code) => ~EntersTls(line, code)
  BY DEF BeginsMail, AddsRecipient, AsksText, EndsMail, EntersTls, ChangesNothing
<1> HIDE DEF line
<1>2. CASE BeginsMail(line, code)
  BY <1>1, <1>2, LearnMail DEF Knows, line
<1>3. CASE AddsRecipient(line, code)
  <2> DEFINE rcpts == Append(p.recipients, [addr |-> line.arg, tls |-> line.tls])
  <2>1. Knows(Learn(p, code), p.layer, Tail(p.asked), p.mail, rcpts, p.writing)
    BY <1>3, LearnRcpt DEF line
  <2> HIDE DEF rcpts
  <2> QED BY <1>1, <1>3, <2>1 DEF Knows, line
<1>4. CASE AsksText(line, code)
  BY <1>1, <1>4, LearnText DEF Knows, line
<1>5. CASE EndsMail(line, code)
  BY <1>1, <1>5, LearnOver DEF Knows, line
<1>6. CASE EntersTls(line, code)
  BY <1>1, <1>6, LearnTls DEF Knows, line
<1>7. CASE ChangesNothing(line, code)
  BY <1>1, <1>7, LearnNothing DEF Knows, line
<1> QED BY <1>0, <1>2, <1>3, <1>4, <1>5, <1>6, <1>7

\* A peer that asked what it may ask remains one.
LEMMA LearnType ==
    ASSUME NEW p \in PeerType, p.asked # <<>>, NEW code,
           Head(p.asked).cmd = "MAIL" => Head(p.asked).arg \in Mails,
           Head(p.asked).cmd = "RCPT" => Head(p.asked).arg \in Addrs
    PROVE  Learn(p, code) \in PeerType
<1> DEFINE line == Head(p.asked)
           rest == Tail(p.asked)
           mail == [id |-> line.arg, tls |-> line.tls]
           rcpt == [addr |-> line.arg, tls |-> line.tls]
           done == [p EXCEPT !.asked = rest]
           over == [done EXCEPT !.mail = NoMail, !.recipients = <<>>, !.writing = FALSE]
<1>1. line \in Lines /\ rest \in Seq(Lines) /\ p.recipients \in Seq(Recipients)
  BY DEF PeerType
<1>2. line.tls \in BOOLEAN
  BY <1>1 DEF Lines
<1>3. line.cmd = "MAIL" => mail \in [id : Mails, tls : BOOLEAN]
  BY <1>2
<1>4. line.cmd = "RCPT" => Append(p.recipients, rcpt) \in Seq(Recipients)
  <2>1. line.cmd = "RCPT" => rcpt \in Recipients
    BY <1>2 DEF Recipients
  <2> HIDE DEF rcpt
  <2> QED BY <1>1, <2>1
<1>5. NoMail \in [id : Mails, tls : BOOLEAN] /\ <<>> \in Seq(Recipients) /\ <<>> \in Seq(Lines)
  BY BoundsAssumption DEF NoMail, Mails
<1>6. done \in PeerType
  BY <1>1 DEF PeerType
<1>7. over \in PeerType
  BY <1>5, <1>6 DEF PeerType
<1>8. CASE BeginsMail(line, code)
  <2>1. Learn(p, code) = [over EXCEPT !.mail = mail]
    BY <1>8 DEF Learn, BeginsMail
  <2> HIDE DEF over, mail
  <2> QED BY <1>3, <1>7, <1>8, <2>1 DEF PeerType, BeginsMail
<1>9. CASE AddsRecipient(line, code)
  <2>1. Learn(p, code) = [done EXCEPT !.recipients = Append(@, rcpt)]
    BY <1>9 DEF Learn, AddsRecipient
  <2>2. done.recipients = p.recipients
    BY DEF PeerType
  <2>3. Append(p.recipients, rcpt) \in Seq(Recipients)
    BY <1>4, <1>9 DEF AddsRecipient
  <2> HIDE DEF done, rcpt
  <2> QED BY <1>6, <2>1, <2>2, <2>3 DEF PeerType
<1>10. CASE AsksText(line, code)
  <2>1. Learn(p, code) = [p EXCEPT !.writing = TRUE]
    BY <1>10 DEF Learn, AsksText
  <2> QED BY <2>1 DEF PeerType
<1>11. CASE EndsMail(line, code)
  <2>1. Learn(p, code) = over
    BY <1>11 DEF Learn, EndsMail
  <2> QED BY <1>7, <2>1
<1>12. CASE EntersTls(line, code)
  <2>1. Learn(p, code) = [over EXCEPT !.layer = "hello", !.asked = <<>>]
    BY <1>12 DEF Learn, EntersTls
  <2> HIDE DEF over
  <2> QED BY <1>5, <1>7, <2>1 DEF PeerType
<1>13. CASE ChangesNothing(line, code)
  <2>1. Learn(p, code) = done
    BY <1>13 DEF Learn, ChangesNothing, BeginsMail, AddsRecipient, AsksText, EndsMail, EntersTls
  <2> QED BY <1>6, <2>1
<1> QED BY <1>8, <1>9, <1>10, <1>11, <1>12, <1>13 DEF ChangesNothing

\* A command asked meanwhile is behind the others.
LEMMA LearnAsking ==
    ASSUME NEW p \in PeerType, p.asked # <<>>, NEW line \in Lines, NEW code
    PROVE  LET q == [p EXCEPT !.asked = Append(@, line)]
               old == Learn(p, code)
           IN  Knows(Learn(q, code), old.layer,
                     IF EntersTls(Head(p.asked), code) THEN <<>> ELSE Append(old.asked, line),
                     old.mail, old.recipients, old.writing)
<1> DEFINE q == [p EXCEPT !.asked = Append(@, line)]
           first == Head(p.asked)
<1>1. p.asked \in Seq(Lines)
  BY DEF PeerType
<1>2. /\ q.asked \in Seq(Lines) /\ Head(q.asked) = first
      /\ Tail(q.asked) = Append(Tail(p.asked), line) /\ q.asked = Append(p.asked, line)
  BY <1>1 DEF PeerType
<1>3. /\ q \in PeerType /\ q.layer = p.layer /\ q.mail = p.mail
      /\ q.recipients = p.recipients /\ q.writing = p.writing
  BY <1>1, <1>2 DEF PeerType
<1>4. /\ BeginsMail(first, code) \/ AddsRecipient(first, code) \/ EndsMail(first, code)
         \/ AsksText(first, code) \/ ChangesNothing(first, code) => ~EntersTls(first, code)
  BY DEF BeginsMail, AddsRecipient, AsksText, EndsMail, EntersTls, ChangesNothing
<1> HIDE DEF q
<1>5. CASE BeginsMail(first, code)
  <2>1. /\ Knows(Learn(p, code), p.layer, Tail(p.asked), [id |-> first.arg, tls |-> first.tls],
                 <<>>, FALSE)
        /\ Knows(Learn(q, code), q.layer, Tail(q.asked), [id |-> first.arg, tls |-> first.tls],
                 <<>>, FALSE)
    BY <1>2, <1>3, <1>5, LearnMail
  <2> QED BY <1>2, <1>3, <1>4, <1>5, <2>1 DEF Knows, q
<1>6. CASE AddsRecipient(first, code)
  <2> DEFINE rcpt == [addr |-> first.arg, tls |-> first.tls]
  <2>1. /\ Knows(Learn(p, code), p.layer, Tail(p.asked), p.mail, Append(p.recipients, rcpt), p.writing)
        /\ Knows(Learn(q, code), q.layer, Tail(q.asked), q.mail, Append(q.recipients, rcpt), q.writing)
    BY <1>2, <1>3, <1>6, LearnRcpt
  <2> HIDE DEF rcpt
  <2> QED BY <1>2, <1>3, <1>4, <1>6, <2>1 DEF Knows, q
<1>7. CASE AsksText(first, code)
  <2>1. /\ Knows(Learn(p, code), p.layer, p.asked, p.mail, p.recipients, TRUE)
        /\ Knows(Learn(q, code), q.layer, q.asked, q.mail, q.recipients, TRUE)
    BY <1>2, <1>3, <1>7, LearnText
  <2> QED BY <1>2, <1>3, <1>4, <1>7, <2>1 DEF Knows, q
<1>8. CASE EndsMail(first, code)
  <2>1. /\ Knows(Learn(p, code), p.layer, Tail(p.asked), NoMail, <<>>, FALSE)
        /\ Knows(Learn(q, code), q.layer, Tail(q.asked), NoMail, <<>>, FALSE)
    BY <1>2, <1>3, <1>8, LearnOver
  <2> QED BY <1>2, <1>3, <1>4, <1>8, <2>1 DEF Knows, q
<1>9. CASE EntersTls(first, code)
  <2>1. /\ Knows(Learn(p, code), "hello", <<>>, NoMail, <<>>, FALSE)
        /\ Knows(Learn(q, code), "hello", <<>>, NoMail, <<>>, FALSE)
    BY <1>2, <1>3, <1>9, LearnTls
  <2> QED BY <1>9, <2>1 DEF Knows, q
<1>10. CASE ChangesNothing(first, code)
  <2>1. /\ Knows(Learn(p, code), p.layer, Tail(p.asked), p.mail, p.recipients, p.writing)
        /\ Knows(Learn(q, code), q.layer, Tail(q.asked), q.mail, q.recipients, q.writing)
    BY <1>2, <1>3, <1>10, LearnNothing
  <2> QED BY <1>2, <1>3, <1>4, <1>10, <2>1 DEF Knows, q
<1> QED BY <1>5, <1>6, <1>7, <1>8, <1>9, <1>10 DEF ChangesNothing

----------------------------------------------------------------------------
(* Lines *)

LEMMA EmptySeq ==
    ASSUME NEW S, NEW s \in Seq(S), Len(s) = 0
    PROVE  s = <<>>
OBVIOUS

LEMMA CommandHead ==
    ASSUME NEW m \in Nat, NEW lines, CommandLines(lines, m), lines # <<>>
    PROVE  /\ CommandLines(Tail(lines), m) /\ WellFormed(Head(lines), m)
           /\ Head(lines).cmd \in {"DATA", "QUIT"} => Len(lines) = 1 /\ Tail(lines) = <<>>
<1>1. /\ lines \in Seq(Lines) /\ Len(lines) \in Nat \ {0} /\ Tail(lines) \in Seq(Lines)
      /\ Len(Tail(lines)) = Len(lines) - 1 /\ Head(lines) = lines[1]
      /\ \A i \in 1 .. Len(lines) - 1 : Tail(lines)[i] = lines[i + 1]
  BY DEF CommandLines
<1>2. ASSUME NEW i \in 1 .. Len(Tail(lines)) PROVE WellFormed(Tail(lines)[i], m)
  BY <1>1, <1>2 DEF CommandLines
<1>3. ASSUME NEW i \in 1 .. Len(Tail(lines)) - 1 PROVE Tail(lines)[i].cmd \notin {"DATA", "QUIT"}
  BY <1>1, <1>3 DEF CommandLines
<1>4. WellFormed(Head(lines), m)
  BY <1>1 DEF CommandLines
<1>5. Head(lines).cmd \in {"DATA", "QUIT"} => Len(lines) = 1
  BY <1>1 DEF CommandLines
<1>6. Len(lines) = 1 => Tail(lines) = <<>>
  <2>1. Len(lines) = 1 => Len(Tail(lines)) = 0
    BY <1>1
  <2>2. Tail(lines) \in Seq(Lines)
    BY <1>1
  <2> QED BY <2>1, <2>2, EmptySeq
<1> QED BY <1>1, <1>2, <1>3, <1>4, <1>5, <1>6 DEF CommandLines

LEMMA CommandAppend ==
    ASSUME NEW m \in Nat, NEW lines, CommandLines(lines, m), Plain(lines), NEW line, WellFormed(line, m)
    PROVE  CommandLines(Append(lines, line), m)
<1> DEFINE more == Append(lines, line)
<1>1. /\ lines \in Seq(Lines) /\ line \in Lines
  BY DEF CommandLines, WellFormed
<1>2. /\ more \in Seq(Lines) /\ Len(more) = Len(lines) + 1 /\ Len(lines) \in Nat
      /\ more[Len(lines) + 1] = line /\ \A i \in 1 .. Len(lines) : more[i] = lines[i]
  BY <1>1
<1> HIDE DEF more
<1>3. ASSUME NEW i \in 1 .. Len(more) PROVE WellFormed(more[i], m)
  <2>1. CASE i \in 1 .. Len(lines)
    BY <1>2, <2>1 DEF CommandLines
  <2>2. CASE i = Len(lines) + 1
    BY <1>2, <2>2
  <2> QED BY <1>2, <2>1, <2>2
<1>4. ASSUME NEW i \in 1 .. Len(more) - 1 PROVE more[i].cmd \notin {"DATA", "QUIT"}
  BY <1>2 DEF Plain
<1> QED BY <1>2, <1>3, <1>4 DEF CommandLines, more

LEMMA CommandMore ==
    ASSUME NEW m \in Nat, NEW n \in Nat, m <= n, NEW lines, CommandLines(lines, m)
    PROVE  CommandLines(lines, n)
<1>1. ASSUME NEW line, WellFormed(line, m) PROVE WellFormed(line, n)
  BY <1>1 DEF WellFormed
<1> QED BY <1>1 DEF CommandLines

LEMMA PeerMore ==
    ASSUME NEW m \in Nat, NEW n \in Nat, m <= n, NEW p, PeerOK(p, m)
    PROVE  PeerOK(p, n)
BY CommandMore DEF PeerOK

LEMMA CommandPrefix ==
    ASSUME NEW m \in Nat, NEW lines, CommandLines(lines, m), NEW k \in 0 .. Len(lines)
    PROVE  CommandLines(SubSeq(lines, 1, k), m)
<1> DEFINE part == SubSeq(lines, 1, k)
<1>1. lines \in Seq(Lines)
  BY DEF CommandLines
<1>2. /\ part \in Seq(Lines) /\ Len(part) = k /\ k \in Nat /\ k <= Len(lines) /\ Len(lines) \in Nat
      /\ \A i \in 1 .. k : part[i] = lines[i]
  BY <1>1
<1> HIDE DEF part
<1> QED BY <1>2 DEF CommandLines, part

LEMMA TextPrefix ==
    ASSUME NEW S, NEW lines \in Seq(S), TextLines(lines), NEW k \in 0 .. Len(lines)
    PROVE  TextLines(SubSeq(lines, 1, k))
<1> DEFINE part == SubSeq(lines, 1, k)
<1>1. /\ Len(part) = k /\ k \in Nat /\ k <= Len(lines) /\ Len(lines) \in Nat
      /\ \A i \in 1 .. k : part[i] = lines[i]
  OBVIOUS
<1> HIDE DEF part
<1> QED BY <1>1 DEF TextLines, part

LEMMA TextHead ==
    ASSUME NEW S, NEW lines \in Seq(S), TextLines(lines), lines # <<>>
    PROVE  /\ TextLines(Tail(lines)) /\ IsText(Head(lines))
           /\ Head(lines).cmd = "DOT" => Tail(lines) = <<>> /\ Last(lines) = Head(lines)
           /\ Head(lines).cmd # "DOT" =>
                 Last(lines).cmd = "DOT" <=> Tail(lines) # <<>> /\ Last(Tail(lines)).cmd = "DOT"
<1>1. /\ Len(lines) \in Nat \ {0} /\ Tail(lines) \in Seq(S)
      /\ Len(Tail(lines)) = Len(lines) - 1 /\ Head(lines) = lines[1]
      /\ \A i \in 1 .. Len(lines) - 1 : Tail(lines)[i] = lines[i + 1]
  OBVIOUS
<1>2. TextLines(Tail(lines)) /\ IsText(Head(lines))
  BY <1>1 DEF TextLines
<1>3. Head(lines).cmd = "DOT" => Tail(lines) = <<>> /\ Last(lines) = Head(lines)
  BY <1>1 DEF TextLines, Last
<1>4. Tail(lines) = <<>> => Len(lines) = 1 /\ Last(lines) = Head(lines)
  BY <1>1 DEF Last
<1>5. Tail(lines) # <<>> => Last(Tail(lines)) = Last(lines)
  <2>1. Tail(lines) # <<>> => Len(lines) - 1 \in 1 .. Len(lines) - 1
    BY <1>1
  <2>2. Tail(lines) # <<>> => Tail(lines)[Len(lines) - 1] = lines[(Len(lines) - 1) + 1]
    BY <1>1, <2>1
  <2> QED BY <1>1, <2>2 DEF Last
<1> QED BY <1>2, <1>3, <1>4, <1>5

LEMMA TextAppend ==
    ASSUME NEW S, NEW lines \in Seq(S), TextLines(lines), NEW line \in S, IsText(line),
           ~(lines # <<>> /\ Last(lines).cmd = "DOT")
    PROVE  TextLines(Append(lines, line)) /\ Append(lines, line) # <<>> /\ Last(Append(lines, line)) = line
<1> DEFINE more == Append(lines, line)
<1>1. /\ more \in Seq(S) /\ Len(more) = Len(lines) + 1 /\ Len(lines) \in Nat /\ more # <<>>
      /\ more[Len(lines) + 1] = line /\ \A i \in 1 .. Len(lines) : more[i] = lines[i]
      /\ lines = <<>> <=> Len(lines) = 0
  OBVIOUS
<1> HIDE DEF more
<1>2. \A i \in 1 .. Len(lines) : lines[i].cmd # "DOT"
  BY <1>1 DEF TextLines, Last
<1>3. TextLines(more)
  BY <1>1, <1>2 DEF TextLines
<1> QED BY <1>1, <1>3 DEF more, Last

----------------------------------------------------------------------------
(* Views of a peer that asks, and of one that reads *)

\* The command an answer is for is one the peer may ask.
LEMMA HeadTyped ==
    ASSUME NEW m \in Mails, NEW p, PeerOK(p, m), p.asked # <<>>
    PROVE  /\ WellFormed(Head(p.asked), m) /\ p.layer # "hello" /\ p \in PeerType
           /\ Head(p.asked).cmd = "MAIL" => Head(p.asked).arg \in Mails
           /\ Head(p.asked).cmd = "RCPT" => Head(p.asked).arg \in Addrs
<1>1. m \in Nat /\ 1 .. m \subseteq Mails
  BY BoundsAssumption DEF Mails
<1>2. WellFormed(Head(p.asked), m)
  BY <1>1, CommandHead DEF PeerOK
<1> QED BY <1>1, <1>2 DEF PeerOK, WellFormed

\* A transaction the peer believes in is one it asked for.
LEMMA LearnMails ==
    ASSUME NEW m \in Mails, NEW p, PeerOK(p, m), p.asked # <<>>, NEW code
    PROVE  /\ Learn(p, code).mail.id \in 0 .. m
           /\ \/ Learn(p, code).mail = p.mail
              \/ Learn(p, code).mail = NoMail
              \/ BeginsMail(Head(p.asked), code) /\ Learn(p, code).mail.id = Head(p.asked).arg
<1> DEFINE line == Head(p.asked)
           new == Learn(p, code)
<1>1. /\ m \in Nat /\ p \in PeerType /\ p.mail.id \in 0 .. m
      /\ line.cmd = "MAIL" => line.arg \in 1 .. m
  BY BoundsAssumption, HeadTyped DEF Mails, PeerOK, WellFormed
<1>2. NoMail.id \in 0 .. m
  BY <1>1 DEF NoMail
<1> HIDE DEF new, line
<1>3. CASE BeginsMail(line, code)
  <2>1. new.mail = [id |-> line.arg, tls |-> line.tls]
    BY <1>1, <1>3, LearnMail DEF Knows, line, new
  <2>2. new.mail.id = line.arg /\ line.arg \in 0 .. m
    BY <1>1, <1>3, <2>1 DEF BeginsMail
  <2> QED BY <1>3, <2>2 DEF line, new
<1>4. CASE AddsRecipient(line, code)
  <2> DEFINE rcpts == Append(p.recipients, [addr |-> line.arg, tls |-> line.tls])
  <2>1. Knows(new, p.layer, Tail(p.asked), p.mail, rcpts, p.writing)
    BY <1>1, <1>4, LearnRcpt DEF line, new
  <2> HIDE DEF rcpts
  <2> QED BY <1>1, <2>1 DEF Knows, line, new
<1>5. CASE AsksText(line, code)
  BY <1>1, <1>5, LearnText DEF Knows, line, new
<1>6. CASE EndsMail(line, code)
  BY <1>1, <1>2, <1>6, LearnOver DEF Knows, line, new
<1>7. CASE EntersTls(line, code)
  BY <1>1, <1>2, <1>7, LearnTls DEF Knows, line, new
<1>8. CASE ChangesNothing(line, code)
  BY <1>1, <1>8, LearnNothing DEF Knows, line, new
<1> QED BY <1>3, <1>4, <1>5, <1>6, <1>7, <1>8 DEF ChangesNothing

LEMMA LearnOK ==
    ASSUME NEW m \in Mails, NEW p, PeerOK(p, m), p.asked # <<>>, NEW code
    PROVE  PeerOK(Learn(p, code), m)
<1> DEFINE line == Head(p.asked)
           new == Learn(p, code)
<1>1. m \in Nat /\ p \in PeerType /\ p.layer # "hello"
  BY BoundsAssumption, HeadTyped DEF Mails
<1>2. new \in PeerType
  BY HeadTyped, LearnType
<1>3. CommandLines(p.asked, m) /\ CommandLines(Tail(p.asked), m)
  BY <1>1, CommandHead DEF PeerOK
<1> HIDE DEF new, line
<1>4. CASE EntersTls(line, code)
  <2>1. Knows(new, "hello", <<>>, NoMail, <<>>, FALSE)
    BY <1>1, <1>4, LearnTls DEF new, line
  <2>2. CommandLines(<<>>, m)
    BY DEF CommandLines
  <2>3. NoMail.id \in 0 .. m
    BY <1>1 DEF NoMail
  <2> QED BY <1>2, <2>1, <2>2, <2>3 DEF Knows, PeerOK, new
<1>5. CASE ~EntersTls(line, code)
  <2>1. new.layer # "hello" /\ (new.asked = Tail(p.asked) \/ new.asked = p.asked)
    BY <1>1, <1>5, LearnFacts DEF new, line
  <2>2. new.mail.id \in 0 .. m
    BY <1>1, LearnMails DEF new
  <2> QED BY <1>2, <1>3, <2>1, <2>2 DEF PeerOK, new
<1> QED BY <1>4, <1>5

\* A view with a command more, unless STARTTLS made it start afresh.
Asking(v, line) == IF v.layer = "hello" THEN v ELSE [v EXCEPT !.asked = Append(@, line)]

LEMMA AskingFacts ==
    ASSUME NEW v \in PeerType, NEW line \in Lines
    PROVE  /\ Asking(v, line) \in PeerType
           /\ v.layer # "hello" =>
                 Knows(Asking(v, line), v.layer, Append(v.asked, line), v.mail, v.recipients, v.writing)
<1>1. v.asked \in Seq(Lines)
  BY DEF PeerType
<1>2. Append(v.asked, line) \in Seq(Lines)
  BY <1>1
<1> QED BY <1>2 DEF PeerType, Asking, Knows

LEMMA LearnAsked ==
    ASSUME NEW m \in Mails, NEW p, PeerOK(p, m), p.asked # <<>>, NEW line, WellFormed(line, m), NEW code
    PROVE  Learn(Asking(p, line), code) = Asking(Learn(p, code), line)
<1> DEFINE q == [p EXCEPT !.asked = Append(@, line)]
           new == Learn(q, code)
           old == Learn(p, code)
<1>1. p \in PeerType /\ p.layer # "hello" /\ line \in Lines /\ Asking(p, line) = q
  BY HeadTyped DEF Asking, WellFormed
<1>2. old \in PeerType
  BY HeadTyped, LearnType
<1>3. /\ Knows(new, old.layer,
               IF EntersTls(Head(p.asked), code) THEN <<>> ELSE Append(old.asked, line),
               old.mail, old.recipients, old.writing)
  BY <1>1, LearnAsking
<1>4. new \in PeerType
  <2>1. Knows(q, p.layer, Append(p.asked, line), p.mail, p.recipients, p.writing) /\ q \in PeerType
    BY <1>1, AskingFacts
  <2>2. p.asked \in Seq(Lines)
    BY <1>1 DEF PeerType
  <2>3. Append(p.asked, line) # <<>> /\ Head(Append(p.asked, line)) = Head(p.asked)
    BY <1>1, <2>2
  <2> HIDE DEF q
  <2> QED BY <2>1, <2>3, HeadTyped, LearnType DEF Knows
<1> HIDE DEF new, old
<1>5. CASE EntersTls(Head(p.asked), code)
  <2>1. old.layer = "hello" /\ old.asked = <<>>
    BY <1>1, <1>5, LearnTls DEF Knows, old
  <2>2. Knows(new, old.layer, old.asked, old.mail, old.recipients, old.writing)
    BY <1>3, <1>5, <2>1
  <2>3. new = old
    BY <1>2, <1>4, <2>2, SamePeer DEF PeerType
  <2> QED BY <1>1, <2>1, <2>3 DEF Asking, new, old
<1>6. CASE ~EntersTls(Head(p.asked), code)
  <2>1. old.layer # "hello"
    BY <1>1, <1>6, LearnFacts DEF old
  <2>2. /\ Knows(Asking(old, line), old.layer, Append(old.asked, line), old.mail, old.recipients, old.writing)
        /\ Asking(old, line) \in PeerType
    BY <1>1, <1>2, <2>1, AskingFacts
  <2>3. Knows(new, old.layer, Append(old.asked, line), old.mail, old.recipients, old.writing)
    BY <1>3, <1>6
  <2>4. Knows(new, Asking(old, line).layer, Asking(old, line).asked, Asking(old, line).mail,
              Asking(old, line).recipients, Asking(old, line).writing)
    BY <2>2, <2>3 DEF Knows
  <2>5. new = Asking(old, line)
    BY <1>4, <2>2, <2>4, SamePeer DEF PeerType
  <2> QED BY <1>1, <2>5 DEF new, old
<1> QED BY <1>5, <1>6

\* Views of a peer that waits for every answer on its way.
Waits(p, answers, m) ==
    \A i \in 0 .. Len(answers) : /\ PeerOK(Views(p, answers)[i], m)
                                 /\ i < Len(answers) => Views(p, answers)[i].asked # <<>>

\* A command asked meanwhile is behind the others in every view.
LEMMA ViewsAsk ==
    ASSUME NEW m \in Mails, NEW S, NEW answers \in Seq(S), NEW p, Waits(p, answers, m),
           NEW line, WellFormed(line, m), p.layer # "hello"
    PROVE  \A i \in 0 .. Len(answers) :
              Views([p EXCEPT !.asked = Append(@, line)], answers)[i] = Asking(Views(p, answers)[i], line)
<1> DEFINE n == Len(answers)
           q == [p EXCEPT !.asked = Append(@, line)]
           T == {i \in 0 .. n : Views(q, answers)[i] = Asking(Views(p, answers)[i], line)}
<1>1. n \in Nat
  OBVIOUS
<1>2. q = Asking(p, line)
  BY DEF Asking
<1> HIDE DEF q
<1>3. 0 \in T
  <2>1. Views(q, answers)[0] = q /\ Views(p, answers)[0] = p
    BY ViewsFacts
  <2> QED BY <1>1, <1>2, <2>1
<1>4. \A i \in 0 .. n - 1 : i \in T => i + 1 \in T
  <2> SUFFICES ASSUME NEW i \in 0 .. n - 1, i \in T PROVE i + 1 \in T
    OBVIOUS
  <2>1. i \in 0 .. n /\ i < n /\ i + 1 \in 1 .. n /\ i + 1 \in 0 .. n /\ (i + 1) - 1 = i
    BY <1>1
  <2>2. /\ Views(q, answers)[i + 1] = Learn(Views(q, answers)[i], answers[i + 1])
        /\ Views(p, answers)[i + 1] = Learn(Views(p, answers)[i], answers[i + 1])
    BY <2>1, ViewsFacts
  <2>3. PeerOK(Views(p, answers)[i], m) /\ Views(p, answers)[i].asked # <<>>
    BY <2>1 DEF Waits
  <2>4. Learn(Asking(Views(p, answers)[i], line), answers[i + 1])
           = Asking(Learn(Views(p, answers)[i], answers[i + 1]), line)
    BY <2>3, LearnAsked
  <2> QED BY <2>1, <2>2, <2>4
<1> HIDE DEF T
<1>5. 0 .. n \subseteq T
  BY <1>1, <1>3, <1>4, BoundedInduction
<1> QED BY <1>5 DEF T, q

\* What the peer has not asked is in none of its views.
LEMMA ViewsPlain ==
    ASSUME NEW m \in Mails, NEW S, NEW answers \in Seq(S), NEW p, Waits(p, answers, m), Plain(p.asked)
    PROVE  \A i \in 0 .. Len(answers) : Plain(Views(p, answers)[i].asked)
<1> DEFINE n == Len(answers)
           T == {i \in 0 .. n : Plain(Views(p, answers)[i].asked)}
<1>1. n \in Nat
  OBVIOUS
<1>2. 0 \in T
  BY <1>1, ViewsFacts
<1>3. \A i \in 0 .. n - 1 : i \in T => i + 1 \in T
  <2> SUFFICES ASSUME NEW i \in 0 .. n - 1, i \in T PROVE i + 1 \in T
    OBVIOUS
  <2> DEFINE v == Views(p, answers)[i]
             new == Learn(v, answers[i + 1])
  <2>1. i \in 0 .. n /\ i < n /\ i + 1 \in 1 .. n /\ i + 1 \in 0 .. n /\ (i + 1) - 1 = i
    BY <1>1
  <2>2. Views(p, answers)[i + 1] = new
    BY <2>1, ViewsFacts
  <2>3. PeerOK(v, m) /\ v.asked # <<>> /\ Plain(v.asked) /\ v \in PeerType
    BY <2>1 DEF Waits, PeerOK
  <2> HIDE DEF v
  <2>4. new.asked = Tail(v.asked) \/ new.asked = v.asked \/ new.asked = <<>>
    BY <2>3, LearnFacts DEF Knows
  <2>5. Plain(Tail(v.asked)) /\ Plain(<<>>)
    <3>1. v.asked \in Seq(Lines) /\ v.asked # <<>>
      BY <2>3 DEF PeerType
    <3>2. /\ Len(Tail(v.asked)) = Len(v.asked) - 1
          /\ \A k \in 1 .. Len(v.asked) - 1 : Tail(v.asked)[k] = v.asked[k + 1] /\ k + 1 \in 1 .. Len(v.asked)
      BY <3>1
    <3> QED BY <2>3, <3>2 DEF Plain
  <2>6. Plain(new.asked)
    BY <2>3, <2>4, <2>5
  <2> QED BY <2>1, <2>2, <2>6
<1> HIDE DEF T
<1>4. 0 .. n \subseteq T
  BY <1>1, <1>2, <1>3, BoundedInduction
<1> QED BY <1>4 DEF T

----------------------------------------------------------------------------
(* Asking *)

LEMMA AskingOK ==
    ASSUME NEW m \in Mails, NEW v, PeerOK(v, m), Plain(v.asked), NEW line, WellFormed(line, m)
    PROVE  /\ PeerOK(Asking(v, line), m)
           /\ Asking(v, line).layer = v.layer /\ Asking(v, line).mail = v.mail
           /\ Asking(v, line).recipients = v.recipients /\ (~v.writing => ~Asking(v, line).writing)
           /\ v.layer # "hello" => Asking(v, line).asked = Append(v.asked, line)
           /\ v.layer = "hello" => Asking(v, line) = v
<1>1. v \in PeerType /\ line \in Lines /\ CommandLines(v.asked, m) /\ m \in Nat
  BY BoundsAssumption DEF PeerOK, WellFormed, Mails
<1>2. CASE v.layer = "hello"
  BY <1>2 DEF Asking
<1>3. CASE v.layer # "hello"
  <2>1. /\ Knows(Asking(v, line), v.layer, Append(v.asked, line), v.mail, v.recipients, v.writing)
        /\ Asking(v, line) \in PeerType
    BY <1>1, <1>3, AskingFacts
  <2>2. CommandLines(Append(v.asked, line), m)
    BY <1>1, CommandAppend
  <2> QED BY <1>3, <2>1, <2>2 DEF Knows, PeerOK
<1> QED BY <1>2, <1>3

\* The types an invariant state gives what the peer and mxd send.
LEMMA DialogueTypes ==
    ASSUME TypeOK
    PROVE  /\ acks \in Seq(Codes) /\ Len(acks) \in Nat /\ wire \in Seq(Lines)
           /\ mails \in Mails /\ mails \in Nat /\ Mails \subseteq Nat /\ peer \in PeerType
           /\ Views(peer, acks)[0] = peer /\ View(0) = peer /\ Informed = View(Len(acks))
           /\ mode \in {"command", "data", "deliver"}
           /\ session \in Sessions
<1>1. /\ acks \in Seq(Codes) /\ wire \in Seq(Lines) /\ mails \in Mails /\ peer \in PeerType
      /\ mode \in {"command", "data", "deliver"} /\ session \in Sessions
  BY DEF TypeOK, PeerType
<1>2. Mails \subseteq Nat
  BY BoundsAssumption DEF Mails
<1>3. Views(peer, acks)[0] = peer
  BY <1>1, ViewsFacts
<1>4. Len(acks) \in Nat
  BY <1>1
<1> QED BY <1>1, <1>2, <1>3, <1>4 DEF View, Informed

LEMMA ViewsWait ==
    ASSUME ViewsInv, TypeOK
    PROVE  Waits(peer, acks, mails)
BY DEF ViewsInv, ViewInv, Waits, View

LEMMA AskStep ==
    ASSUME DialogueInv, MaySend, NEW line, WellFormed(line, mails'), mails' \in Mails, mails <= mails',
           wire' = Append(wire, line), peer' = [peer EXCEPT !.asked = Append(@, line)],
           UNCHANGED <<server, acks, open, messages>>
    PROVE  /\ PeerOK(peer, mails)' /\ WireInv' /\ SessionInv'
           /\ ViewsInv' /\ Agree' /\ WritingInv'
           /\ mode = "command" /\ ~peer.writing
           /\ \A i \in 0 .. Len(acks) : View(i)' = Asking(View(i), line) /\ PeerOK(View(i), mails')
                                        /\ Plain(View(i).asked) /\ ~View(i).writing
<1> DEFINE n == Len(acks)
<1>1. /\ acks \in Seq(Codes) /\ n \in Nat /\ wire \in Seq(Lines) /\ mails \in Nat /\ mails' \in Nat
      /\ peer \in PeerType /\ View(0) = peer /\ Informed = View(n) /\ Mails \subseteq Nat
      /\ mode \in {"command", "data", "deliver"}
  BY DialogueTypes DEF DialogueInv
<1>2. /\ ViewsInv /\ Agree /\ WritingInv /\ open /\ phase # "closed" /\ peer.layer # "hello" /\ ~peer.writing
      /\ TypeOK /\ PeerOK(peer, mails) /\ WireInv /\ SessionInv
  BY DEF DialogueInv, MaySend
<1>3. UNCHANGED <<phase, mode, session, body, job, acks, open, messages>>
  BY DEF server
<1>4. Plain(peer.asked)
  <2>1. peer.asked \in Seq(Lines) /\ (peer.asked # <<>> => Last(peer.asked).cmd \notin {"DATA", "QUIT"})
    BY <1>1 DEF PeerType, MaySend
  <2>2. \A i \in 1 .. Len(peer.asked) - 1 : peer.asked[i].cmd \notin {"DATA", "QUIT"}
    BY <1>2 DEF PeerOK, CommandLines
  <2> QED BY <2>1, <2>2 DEF Plain, Last
<1>5. ASSUME NEW i \in 0 .. n
      PROVE  PeerOK(View(i), mails) /\ PeerOK(View(i), mails') /\ (i < n => View(i).asked # <<>>)
  <2>1. PeerOK(View(i), mails) /\ (i < n => View(i).asked # <<>>)
    BY <1>2 DEF ViewsInv, ViewInv
  <2> QED BY <1>1, <2>1, PeerMore
<1>6. Waits(peer, acks, mails')
  BY <1>5 DEF Waits, View
<1>7. \A i \in 0 .. n : Plain(View(i).asked)
  BY <1>1, <1>4, <1>6, ViewsPlain DEF View
<1>8. ASSUME NEW i \in 0 .. n PROVE ~View(i).writing
  <2>1. View(i).asked \in Seq(Lines)
    BY <1>5 DEF PeerOK, PeerType
  <2>2. View(i).writing => Len(View(i).asked) = 1 /\ Head(View(i).asked).cmd = "DATA"
    BY <1>2 DEF ViewsInv, ViewInv
  <2> QED BY <1>7, <2>1, <2>2 DEF Plain
<1>9. mode = "command"
  <2>1. CASE Layered
    BY <1>1, <1>2, <1>8, <2>1 DEF Agree
  <2>2. CASE ~Layered
    BY <1>2, <2>2 DEF WireInv
  <2> QED BY <2>1, <2>2
<1>10. \A i \in 0 .. n : View(i)' = Asking(View(i), line)
  <2>1. \A i \in 0 .. n : Views([peer EXCEPT !.asked = Append(@, line)], acks)[i]
                             = Asking(Views(peer, acks)[i], line)
    <3>1. /\ mails' \in Mails /\ acks \in Seq(Codes) /\ Waits(peer, acks, mails')
          /\ WellFormed(line, mails') /\ peer.layer # "hello"
      BY <1>1, <1>2, <1>6
    <3> QED BY ONLY <3>1, ViewsAsk
  <2> QED BY <1>3, <2>1 DEF View
<1>11. ASSUME NEW i \in 0 .. n
       PROVE  /\ PeerOK(Asking(View(i), line), mails')
              /\ Asking(View(i), line).layer = View(i).layer /\ Asking(View(i), line).mail = View(i).mail
              /\ Asking(View(i), line).recipients = View(i).recipients
              /\ ~View(i).writing => ~Asking(View(i), line).writing
              /\ View(i).layer # "hello" => Asking(View(i), line).asked = Append(View(i).asked, line)
              /\ View(i).layer = "hello" => Asking(View(i), line) = View(i)
  <2>1. PeerOK(View(i), mails') /\ Plain(View(i).asked)
    BY <1>5, <1>7
  <2> DEFINE v == View(i)
  <2> HIDE DEF v
  <2> QED BY <2>1, AskingOK DEF v
<1>12. ViewsInv'
  <2> SUFFICES ASSUME NEW i \in 0 .. n PROVE ViewInv(i)'
    BY <1>3 DEF ViewsInv
  <2>1. PeerOK(View(i), mails)' /\ ~View(i)'.writing
    BY <1>8, <1>10, <1>11
  <2>2. i < n => View(i)'.asked # <<>>
    <3>1. i < n => View(i).asked # <<>> /\ View(i).layer # "hello"
      BY <1>5 DEF PeerOK
    <3>2. View(i).asked \in Seq(Lines) /\ line \in Lines
      BY <1>5 DEF PeerOK, PeerType, WellFormed
    <3>3. Append(View(i).asked, line) # <<>>
      BY <3>2
    <3> QED BY <1>10, <1>11, <3>1, <3>3
  <2>3. Layered' => View(i)'.layer = phase'
    BY <1>2, <1>3, <1>10, <1>11 DEF ViewsInv, ViewInv, Layered
  <2> QED BY <1>3, <2>1, <2>2, <2>3 DEF ViewInv
<1>13. Informed' = Asking(Informed, line) /\ n \in 0 .. n
  <2>1. n \in 0 .. n
    BY <1>1
  <2>2. Views(peer', acks')[n] = Asking(Views(peer, acks)[n], line)
    BY <1>10, <2>1 DEF View
  <2> QED BY <1>3, <2>1, <2>2 DEF Informed
<1>14. Agree'
  <2>1. CASE Layered
    <3>1. Informed.layer # "hello"
      BY <1>1, <1>2, <1>13, <2>1 DEF ViewsInv, ViewInv, Layered
    <3>2. /\ Informed.mail = session.mail /\ Informed.recipients = session.recipients
          /\ Informed.asked = wire
      BY <1>2, <1>9, <2>1 DEF Agree, AnswersInOrder
    <3>3. /\ Informed'.mail = Informed.mail /\ Informed'.recipients = Informed.recipients
          /\ ~Informed'.writing /\ Informed'.asked = Append(Informed.asked, line)
      BY <1>1, <1>8, <1>11, <1>13, <3>1
    <3> QED BY <1>3, <1>9, <2>1, <3>2, <3>3 DEF Agree, Layered, AnswersInOrder
  <2>2. CASE ~Layered
    BY <1>1, <1>2, <1>3, <1>11, <1>13, <2>2 DEF Agree, Layered
  <2> QED BY <2>1, <2>2
<1>15. ~peer'.writing /\ PeerOK(peer, mails)'
  <2>1. View(0)' = peer'
    <3>1. peer' = Asking(peer, line)
      BY <1>2 DEF Asking
    <3>2. View(0)' = Asking(View(0), line)
      BY <1>1, <1>10
    <3> QED BY <1>1, <3>1, <3>2
  <2>2. ViewInv(0)' /\ ~(Asking(View(0), line).writing)
    BY <1>1, <1>3, <1>8, <1>11, <1>12 DEF ViewsInv
  <2>3. PeerOK(View(0), mails)'
    BY <2>2 DEF ViewInv
  <2>4. peer' = Asking(View(0), line)
    BY <1>1, <1>2 DEF Asking
  <2> QED BY <2>1, <2>2, <2>3, <2>4
<1>16. WritingInv'
  BY <1>3, <1>9, <1>15 DEF WritingInv
<1>17. WireInv'
  <2>1. wire' \in Seq(Lines)
    BY <1>1 DEF WellFormed
  <2>2. Layered => CommandLines(wire', mails')
    <3>1. Layered => Informed.asked = wire
      BY <1>2, <1>9 DEF Agree, AnswersInOrder
    <3>2. Layered => CommandLines(wire, mails') /\ Plain(wire)
      <4>1. n \in 0 .. n /\ Informed = View(n)
        BY <1>1 DEF Informed, View
      <4>2. CommandLines(Informed.asked, mails') /\ Plain(Informed.asked)
        BY <1>5, <1>7, <4>1 DEF PeerOK
      <4> QED BY <3>1, <4>2
    <3> QED BY <1>1, <3>2, CommandAppend
  <2> QED BY <1>2, <1>3, <1>9, <2>1, <2>2 DEF WireInv, Layered
<1>18. SessionInv'
  <2>1. session.mail.id \in 0 .. mails'
    BY <1>1, <1>2 DEF SessionInv
  <2> QED BY <1>2, <1>3, <2>1 DEF SessionInv
<1> QED BY <1>2, <1>5, <1>7, <1>8, <1>9, <1>10, <1>12, <1>14, <1>15, <1>16, <1>17, <1>18

\* TypeOK by who changes what.
ServerType ==
    /\ phase \in {"clear", "handshake", "tls", "closed"} /\ mode \in {"command", "data", "deliver"}
    /\ session \in Sessions /\ Len(session.recipients) <= MaxRecipients
    /\ body \in [lines : Seq(1 .. MaxText), tooLarge : BOOLEAN] /\ Len(body.lines) <= MaxBody
    /\ job \in [next : Nat, delivered : Nat, failed : Nat]
StoreType ==
    store \subseteq [mail : Mails, nth : 1 .. MaxRecipients, to : Principals,
                     lines : Seq(1 .. MaxText), tls : BOOLEAN, answered : BOOLEAN]
ClientType ==
    /\ open \in BOOLEAN /\ peer \in PeerType /\ mails \in Mails /\ asides \in 0 .. MaxAsides
    /\ messages \in [Mails -> [lines : 0 .. MaxText, ended : BOOLEAN, tls : BOOLEAN,
                               recipients : Seq(Recipients)]]
    /\ verdict \in [Mails -> Codes \cup {"none"}]
TrafficType == wire \in Seq(Lines) /\ acks \in Seq(Codes) /\ faults \in 0 .. MaxFaults

LEMMA TypeParts ==
    /\ TypeOK <=> ServerType /\ StoreType /\ ClientType /\ TrafficType
    /\ TypeOK' <=> ServerType' /\ StoreType' /\ ClientType' /\ TrafficType'
BY DEF TypeOK, ServerType, StoreType, ClientType, TrafficType, PeerType

LEMMA AskType ==
    ASSUME TypeOK, NEW line \in Lines, wire' = Append(wire, line),
           peer' = [peer EXCEPT !.asked = Append(@, line)], mails' \in Mails, asides' \in 0 .. MaxAsides,
           UNCHANGED <<server, store, acks, open, messages, verdict, faults>>
    PROVE  TypeOK'
<1>1. ServerType /\ StoreType /\ ClientType /\ TrafficType
  BY TypeParts
<1>2. ServerType'
  BY <1>1 DEF ServerType, server
<1>3. StoreType'
  BY <1>1 DEF StoreType
<1>4. peer' \in PeerType
  <2>1. peer \in PeerType /\ peer.asked \in Seq(Lines)
    BY <1>1 DEF ClientType, PeerType
  <2>2. Append(peer.asked, line) \in Seq(Lines)
    BY <2>1
  <2> QED BY <2>1, <2>2 DEF PeerType
<1>5. ClientType'
  BY <1>1, <1>4 DEF ClientType
<1>6. TrafficType'
  <2>1. wire \in Seq(Lines)
    BY <1>1 DEF TrafficType
  <2>2. wire' \in Seq(Lines)
    BY <2>1
  <2> QED BY <1>1, <2>2 DEF TrafficType
<1> QED BY <1>2, <1>3, <1>5, <1>6, TypeParts

\* A command the peer sends, and what becomes of its counters.
AskWith(line) ==
    /\ WellFormed(line, mails') /\ MaySend
    /\ wire' = Append(wire, line) /\ peer' = [peer EXCEPT !.asked = Append(@, line)]
    /\ mails' \in Mails /\ mails <= mails' /\ asides' \in 0 .. MaxAsides
    /\ UNCHANGED <<server, store, acks, open, messages, verdict, faults>>
    /\ line.cmd = "MAIL" => mails < mails' /\ line.arg = mails'
    /\ line.tls = (peer.layer = "tls")

LEMMA Asked ==
    ASSUME TypeOK, \/ SendMail \/ \E a \in Addrs : SendRcpt(a)
                   \/ SendData \/ SendQuit \/ \E cmd \in Asides : SendAside(cmd)
    PROVE  \E line : AskWith(line)
<1>1. /\ mails \in Mails /\ mails \in Nat /\ MaxMails \in Nat /\ asides \in 0 .. MaxAsides
      /\ MaxAsides \in Nat
  BY BoundsAssumption DEF TypeOK, Mails
<1> DEFINE tls == peer.layer = "tls"
<1>2. tls \in BOOLEAN
  OBVIOUS
<1> HIDE DEF tls
<1>3. ASSUME SendMail PROVE \E line : AskWith(line)
  <2> DEFINE line == Line("MAIL", mails', tls)
  <2>1. /\ MaySend /\ mails < MaxMails /\ mails' = mails + 1 /\ wire' = Append(wire, line)
        /\ peer' = [peer EXCEPT !.asked = Append(@, line)]
        /\ UNCHANGED <<server, store, acks, open, messages, verdict, asides, faults>>
    BY <1>3 DEF SendMail, Ask, tls
  <2>9. /\ UNCHANGED <<server, store, acks, open, messages, verdict, faults>>
        /\ asides' \in 0 .. MaxAsides
    BY <1>1, <2>1
  <2>2. mails' \in Mails /\ mails' \in Nat /\ mails < mails' /\ mails' \in 1 .. mails'
    BY <1>1, <2>1 DEF Mails
  <2>3. line.cmd = "MAIL" /\ line.arg = mails' /\ line.tls = tls
    BY DEF Line
  <2>4. line \in Lines
    BY <1>2, <2>2 DEF Lines, Line
  <2> HIDE DEF line
  <2>5. WellFormed(line, mails')
    BY <2>2, <2>3, <2>4 DEF WellFormed
  <2>6. line.tls = (peer.layer = "tls")
    BY <2>3, Zenon DEF tls
  <2>7. mails <= mails' /\ mails' \in Mails /\ (line.cmd = "MAIL" => mails < mails' /\ line.arg = mails')
    BY <1>1, <2>1, <2>2, <2>3
  <2>8. AskWith(line)
    BY <2>1, <2>2, <2>5, <2>6, <2>7, <2>9, Zenon DEF AskWith
  <2> QED BY <2>8
<1>4. ASSUME NEW a \in Addrs, SendRcpt(a)
      PROVE  \E line : AskWith(line)
  <2> DEFINE line == Line("RCPT", a, tls)
  <2>1. /\ MaySend /\ wire' = Append(wire, line)
        /\ peer' = [peer EXCEPT !.asked = Append(@, line)]
        /\ asides' = asides \/ (asides < MaxAsides /\ asides' = asides + 1)
        /\ UNCHANGED <<server, store, acks, open, mails, messages, verdict, faults>>
    BY <1>4 DEF SendRcpt, Ask, tls
  <2>2. asides' \in 0 .. MaxAsides
    BY <1>1, <2>1
  <2>3. line.cmd = "RCPT" /\ line.arg = a /\ line.tls = tls
    BY DEF Line
  <2>4. line \in Lines
    BY <1>2 DEF Lines, Line
  <2> HIDE DEF line
  <2>5. WellFormed(line, mails')
    BY <2>3, <2>4 DEF WellFormed
  <2>6. line.tls = (peer.layer = "tls")
    BY <2>3, Zenon DEF tls
  <2>7. mails <= mails' /\ mails' \in Mails /\ (line.cmd = "MAIL" => mails < mails' /\ line.arg = mails')
    BY <1>1, <2>1, <2>2, <2>3
  <2>8. AskWith(line)
    BY <2>1, <2>2, <2>5, <2>6, <2>7, Zenon DEF AskWith
  <2> QED BY <2>8
<1>5. ASSUME NEW cmd \in Asides \cup {"DATA", "QUIT"},
             SendAside(cmd) \/ (cmd = "DATA" /\ SendData) \/ (cmd = "QUIT" /\ SendQuit)
      PROVE  \E line : AskWith(line)
  <2> DEFINE line == Line(cmd, 0, tls)
  <2>1. /\ MaySend /\ wire' = Append(wire, line)
        /\ peer' = [peer EXCEPT !.asked = Append(@, line)]
        /\ asides' = asides \/ (asides < MaxAsides /\ asides' = asides + 1)
        /\ UNCHANGED <<server, store, acks, open, mails, messages, verdict, faults>>
    BY <1>5 DEF SendAside, SendData, SendQuit, Ask, tls
  <2>2. asides' \in 0 .. MaxAsides
    BY <1>1, <2>1
  <2>3. line.cmd = cmd /\ line.arg = 0 /\ line.tls = tls /\ cmd \notin {"MAIL", "RCPT", "TEXT", "DOT"}
    BY DEF Line, Asides
  <2>4. line \in Lines
    BY <1>2 DEF Lines, Line
  <2> HIDE DEF line
  <2>5. WellFormed(line, mails')
    BY <2>3, <2>4 DEF WellFormed
  <2>6. line.tls = (peer.layer = "tls")
    BY <2>3, Zenon DEF tls
  <2>7. mails <= mails' /\ mails' \in Mails /\ (line.cmd = "MAIL" => mails < mails' /\ line.arg = mails')
    BY <1>1, <2>1, <2>2, <2>3
  <2>8. AskWith(line)
    BY <2>1, <2>2, <2>5, <2>6, <2>7, Zenon DEF AskWith
  <2> QED BY <2>8
<1>6. ASSUME NEW cmd \in Asides, SendAside(cmd) PROVE \E line : AskWith(line)
  BY <1>5, <1>6
<1>7. ASSUME SendData \/ SendQuit PROVE \E line : AskWith(line)
  <2>1. "DATA" \in Asides \cup {"DATA", "QUIT"} /\ "QUIT" \in Asides \cup {"DATA", "QUIT"}
    OBVIOUS
  <2> QED BY <1>5, <1>7, <2>1
<1> QED BY <1>3, <1>4, <1>6, <1>7, Zenon

LEMMA DialogueAsks ==
    ASSUME DialogueInv, \/ SendMail \/ \E a \in Addrs : SendRcpt(a)
                        \/ SendData \/ SendQuit \/ \E cmd \in Asides : SendAside(cmd)
    PROVE  DialogueInv'
<1>1. PICK line : AskWith(line)
  BY Asked DEF DialogueInv
<1>2. line \in Lines /\ UNCHANGED <<server, acks, open, messages>>
  BY <1>1 DEF WellFormed, AskWith
<1>3. TypeOK'
  BY <1>1, <1>2, AskType DEF DialogueInv, AskWith
<1>4. PeerOK(peer, mails)' /\ WireInv' /\ SessionInv' /\ ViewsInv' /\ Agree' /\ WritingInv'
  BY <1>1, <1>2, AskStep DEF AskWith
<1> QED BY <1>3, <1>4 DEF DialogueInv

----------------------------------------------------------------------------
(* The text, and its end *)

\* The peer sends a line of its text while mxd reads it.
LEMMA TextStep ==
    ASSUME DialogueInv, open, phase # "closed", peer.writing, ~messages[peer.mail.id].ended,
           NEW line \in Lines, IsText(line), wire' = Append(wire, line),
           NEW ended, ended <=> line.cmd = "DOT",
           messages'[peer.mail.id].ended <=> ended,
           UNCHANGED <<server, acks, open, peer, mails>>
    PROVE  /\ PeerOK(peer, mails)' /\ WireInv' /\ SessionInv'
           /\ ViewsInv' /\ Agree' /\ WritingInv'
           /\ mode = "data" /\ ~(wire # <<>> /\ Last(wire).cmd = "DOT") /\ acks = <<>>
<1>1. /\ TypeOK /\ PeerOK(peer, mails) /\ WireInv /\ SessionInv /\ ViewsInv /\ Agree /\ WritingInv
      /\ wire \in Seq(Lines)
  BY DialogueTypes DEF DialogueInv
<1>2. UNCHANGED <<phase, mode, session, body, job, acks, open, peer, mails>>
  BY DEF server
<1>3. mode = "data" /\ ~(wire # <<>> /\ Last(wire).cmd = "DOT") /\ acks = <<>>
  BY <1>1 DEF WritingInv
<1>4. Layered /\ TextLines(wire)
  BY <1>1, <1>3 DEF WireInv
<1>5. TextLines(wire') /\ wire' # <<>> /\ Last(wire') = line /\ wire' \in Seq(Lines)
  BY <1>1, <1>3, <1>4, TextAppend
<1>6. PeerOK(peer, mails)' /\ SessionInv'
  BY <1>1, <1>2 DEF SessionInv
<1>7. WireInv'
  BY <1>2, <1>3, <1>4, <1>5 DEF WireInv, Layered
<1>8. ViewsInv'
  BY <1>1, <1>2 DEF ViewsInv, ViewInv, View, Layered
<1>9. Agree'
  <2>1. Informed' = Informed
    BY <1>2 DEF Informed
  <2> QED BY <1>1, <1>2, <1>3, <1>4, <2>1 DEF Agree, Layered, AnswersInOrder
<1>10. WritingInv'
  <2>1. messages'[peer.mail.id].ended <=> line.cmd = "DOT"
    OBVIOUS
  <2> QED BY <1>1, <1>2, <1>3, <1>5, <2>1 DEF WritingInv
<1> QED BY <1>3, <1>6, <1>7, <1>8, <1>9, <1>10

\* The history of a text is a message.
MessageType == [lines : 0 .. MaxText, ended : BOOLEAN, tls : BOOLEAN, recipients : Seq(Recipients)]

\* A line of its text the peer sends, and what the history keeps of it.
TextWith(line, id, n) ==
    /\ open /\ phase # "closed" /\ peer.writing /\ ~messages[id].ended
    /\ line \in Lines /\ IsText(line) /\ wire' = Append(wire, line)
    /\ id = peer.mail.id /\ id \in Mails /\ n = messages[id].lines /\ n \in 0 .. MaxText
    /\ line.tls = (peer.layer = "tls")
    /\ \/ line.cmd = "DOT" /\ messages' = [messages EXCEPT ![id].ended = TRUE]
       \/ /\ line.cmd # "DOT" /\ line.arg = n + 1 /\ n + 1 \in 0 .. MaxText
          /\ messages' = [messages EXCEPT ![id].lines = n + 1]
    /\ UNCHANGED <<server, acks, open, peer, mails, store, verdict, asides, faults>>

LEMMA Texts ==
    ASSUME TypeOK, \/ \E cmd \in {"TEXT", "LONG"} : SendText(cmd)
                   \/ SendDot
    PROVE  \E line : TextWith(line, peer.mail.id, messages[peer.mail.id].lines)
<1> DEFINE id == peer.mail.id
           n == messages[id].lines
           tls == peer.layer = "tls"
<1>1. id \in Mails /\ messages \in [Mails -> MessageType] /\ MaxText \in Nat
  BY DialogueTypes, BoundsAssumption DEF PeerType, TypeOK, MessageType
<1>2. n \in 0 .. MaxText
  BY <1>1 DEF MessageType
<1>3. tls \in BOOLEAN
  OBVIOUS
<1> HIDE DEF tls
<1>4. ASSUME NEW cmd \in {"TEXT", "LONG"}, SendText(cmd)
      PROVE  \E line : TextWith(line, id, n)
  <2> DEFINE line == Line(cmd, n + 1, tls)
  <2>1. /\ open /\ phase # "closed" /\ peer.writing /\ ~messages[id].ended /\ n < MaxText
        /\ wire' = Append(wire, line)
        /\ messages' = [messages EXCEPT ![id].lines = n + 1]
        /\ UNCHANGED <<server, acks, open, peer, mails, store, verdict, asides, faults>>
    BY <1>4 DEF SendText, tls
  <2>2. n + 1 \in 0 .. MaxText /\ n + 1 \in 1 .. MaxText /\ n + 1 \in Nat
    BY <1>1, <1>2, <2>1
  <2>3. line.cmd = cmd /\ line.arg = n + 1 /\ line.tls = tls
    BY DEF Line
  <2>4. line \in Lines
    BY <1>3, <2>2 DEF Line, Lines, Asides
  <2> HIDE DEF line, id, n
  <2>5. IsText(line) /\ line.cmd # "DOT"
    BY <2>2, <2>3 DEF IsText
  <2>6. line.tls = (peer.layer = "tls")
    BY <2>3, Zenon DEF tls
  <2>7. id = peer.mail.id /\ n = messages[id].lines
    BY DEF id, n
  <2>8. TextWith(line, id, n)
    BY <1>1, <1>2, <2>1, <2>2, <2>3, <2>4, <2>5, <2>6, <2>7, Zenon DEF TextWith
  <2> QED BY <2>8
<1>5. ASSUME SendDot
      PROVE  \E line : TextWith(line, id, n)
  <2> DEFINE line == Line("DOT", 0, tls)
  <2>1. /\ open /\ phase # "closed" /\ peer.writing /\ ~messages[id].ended
        /\ wire' = Append(wire, line)
        /\ messages' = [messages EXCEPT ![id].ended = TRUE]
        /\ UNCHANGED <<server, acks, open, peer, mails, store, verdict, asides, faults>>
    BY <1>5 DEF SendDot, tls
  <2>2. line.cmd = "DOT" /\ line.tls = tls
    BY DEF Line
  <2>3. line \in Lines
    BY <1>3 DEF Line, Lines
  <2> HIDE DEF line, id, n
  <2>4. IsText(line)
    BY <2>2 DEF IsText
  <2>5. line.tls = (peer.layer = "tls")
    BY <2>2, Zenon DEF tls
  <2>6. id = peer.mail.id /\ n = messages[id].lines
    BY DEF id, n
  <2>7. TextWith(line, id, n)
    BY <1>1, <1>2, <2>1, <2>2, <2>3, <2>4, <2>5, <2>6, Zenon DEF TextWith
  <2> QED BY <2>7
<1> QED BY <1>4, <1>5

LEMMA DialogueTexts ==
    ASSUME DialogueInv, \/ \E cmd \in {"TEXT", "LONG"} : SendText(cmd)
                        \/ SendDot
    PROVE  DialogueInv'
<1> DEFINE id == peer.mail.id
           n == messages[id].lines
<1>1. PICK line : TextWith(line, id, n)
  BY Texts DEF DialogueInv
<1>2. messages \in [Mails -> MessageType] /\ TypeOK
  BY DEF DialogueInv, TypeOK, MessageType
<1>3. /\ messages' \in [Mails -> MessageType]
      /\ messages'[id].ended <=> line.cmd = "DOT"
  <2>1. CASE line.cmd = "DOT" /\ messages' = [messages EXCEPT ![id].ended = TRUE]
    BY <1>1, <1>2, <2>1 DEF TextWith, MessageType
  <2>2. CASE /\ line.cmd # "DOT" /\ n + 1 \in 0 .. MaxText
             /\ messages' = [messages EXCEPT ![id].lines = n + 1]
    BY <1>1, <1>2, <2>2 DEF TextWith, MessageType
  <2> QED BY <1>1, <2>1, <2>2 DEF TextWith
<1>4. TypeOK'
  <2>1. ServerType /\ StoreType /\ ClientType /\ TrafficType
    BY <1>2, TypeParts
  <2>2. /\ UNCHANGED <<phase, mode, session, body, job, store, open, peer, mails, verdict, asides>>
        /\ UNCHANGED <<acks, faults>> /\ line \in Lines /\ wire' = Append(wire, line)
    BY <1>1 DEF TextWith, server
  <2>3. ServerType' /\ StoreType'
    BY <2>1, <2>2 DEF ServerType, StoreType
  <2>4. ClientType'
    BY <1>3, <2>1, <2>2 DEF ClientType, MessageType
  <2>5. TrafficType'
    BY <2>1, <2>2 DEF TrafficType
  <2> QED BY <2>3, <2>4, <2>5, TypeParts
<1>5. /\ line \in Lines /\ IsText(line) /\ wire' = Append(wire, line)
      /\ open /\ phase # "closed" /\ peer.writing /\ ~messages[id].ended
      /\ UNCHANGED <<server, acks, open, peer, mails>>
  BY <1>1 DEF TextWith
<1>6. /\ PeerOK(peer, mails)' /\ WireInv' /\ SessionInv' /\ ViewsInv' /\ Agree' /\ WritingInv'
  BY <1>3, <1>5, TextStep
<1> QED BY <1>4, <1>6 DEF DialogueInv

----------------------------------------------------------------------------
(* Reading an answer *)

\* The oldest view is gone, the others remain.
LEMMA ReceiveViews ==
    ASSUME TypeOK, acks # <<>>, acks' = Tail(acks), peer' = Learn(peer, Head(acks))
    PROVE  /\ Len(acks') = Len(acks) - 1 /\ acks' \in Seq(Codes) /\ Informed' = Informed
           /\ \A i \in 0 .. Len(acks') : View(i)' = View(i + 1)
           /\ peer' = View(1)
<1>1. acks \in Seq(Codes) /\ Len(acks) \in Nat \ {0} /\ acks' \in Seq(Codes) /\ Len(acks') \in Nat
  BY DialogueTypes
<1>2. /\ Len(acks') = Len(acks) - 1
      /\ \A i \in 0 .. Len(acks') : Views(peer', acks')[i] = Views(peer, acks)[i + 1]
  BY <1>1, ViewsReceive
<1>3. Informed' = Informed
  <2>1. Len(acks') \in 0 .. Len(acks') /\ Len(acks') + 1 = Len(acks)
    BY <1>1, <1>2
  <2> QED BY <1>2, <2>1 DEF Informed
<1>4. peer' = View(1)
  <2>1. Views(peer', acks')[0] = peer'
    BY <1>1, ViewsFacts
  <2>2. 0 \in 0 .. Len(acks') /\ 0 + 1 = 1
    BY <1>1
  <2> QED BY <1>2, <2>1, <2>2 DEF View
<1> QED BY <1>1, <1>2, <1>3, <1>4 DEF View

\* A peer that may send its text was just told 354.
LEMMA ReceiveStep ==
    ASSUME DialogueInv, Receive
    PROVE  /\ PeerOK(peer, mails)' /\ WireInv' /\ SessionInv' /\ ViewsInv' /\ Agree' /\ WritingInv'
           /\ peer'.writing => /\ ~peer.writing /\ AsksText(Head(peer.asked), Head(acks))
                               /\ peer'.mail = peer.mail /\ peer'.recipients = peer.recipients
                               /\ acks' = <<>>
                               /\ phase # "closed" => mode = "data" /\ wire = <<>> /\ Layered
           /\ peer.writing => Head(acks) \in {"250", "250 partial", "451", "552"} /\ Len(acks) = 1
                              /\ mode = "command"
           /\ \A i \in 0 .. Len(acks') : View(i)' = View(i + 1)
           /\ Len(acks') = Len(acks) - 1
           /\ AsksText(Head(peer.asked), Head(acks)) => peer'.writing
<1>1. /\ TypeOK /\ PeerOK(peer, mails) /\ WireInv /\ SessionInv /\ ViewsInv /\ Agree /\ WritingInv
      /\ acks \in Seq(Codes) /\ Len(acks) \in Nat /\ peer \in PeerType /\ View(0) = peer /\ mails \in Mails
      /\ Informed = View(Len(acks))
  BY DialogueTypes DEF DialogueInv, Receive
<1>2. /\ open /\ acks # <<>> /\ peer.asked # <<>> /\ acks' = Tail(acks) /\ peer' = Learn(peer, Head(acks))
      /\ UNCHANGED <<phase, mode, session, body, job, store, wire, open, mails, asides, faults>>
  BY DEF Receive, server
<1>3. /\ Len(acks') = Len(acks) - 1 /\ acks' \in Seq(Codes) /\ Informed' = Informed
      /\ \A i \in 0 .. Len(acks') : View(i)' = View(i + 1)
      /\ peer' = View(1)
  BY <1>1, <1>2, ReceiveViews
<1>4. Len(acks) \in Nat \ {0} /\ 1 \in 0 .. Len(acks)
  BY <1>1, <1>2
<1>5. ViewsInv'
  <2> SUFFICES ASSUME NEW i \in 0 .. Len(acks'), NEW v, v = View(i)' PROVE ViewInv(i)'
    BY DEF ViewsInv
  <2>1. i + 1 \in 0 .. Len(acks) /\ (i < Len(acks') => i + 1 < Len(acks)) /\ i + 1 # 0
        /\ (i + 1 = Len(acks) => i = Len(acks')) /\ v = View(i + 1)
    BY <1>3, <1>4
  <2>2. ViewInv(i + 1)
    BY <1>1, <2>1 DEF ViewsInv
  <2>3. /\ PeerOK(v, mails) /\ (i < Len(acks') => v.asked # <<>>)
        /\ v.writing => /\ Len(v.asked) = 1 /\ Head(v.asked).cmd = "DATA"
                        /\ v.mail.id # 0 /\ i = Len(acks')
        /\ Layered => v.layer = phase
    BY <2>1, <2>2 DEF ViewInv
  <2> QED BY <1>2, <2>3 DEF ViewInv, Layered
<1>6. ViewInv(1) /\ ViewInv(0)
  BY <1>1, <1>4 DEF ViewsInv
<1>7. PeerOK(peer, mails)'
  BY <1>2, <1>3, <1>6 DEF ViewInv
<1>8. peer.writing => /\ Head(acks) \in {"250", "250 partial", "451", "552"} /\ Len(acks) = 1
                      /\ mode = "command" /\ Head(peer.asked).cmd = "DATA"
  <2>1. peer.writing => Head(peer.asked).cmd = "DATA"
    BY <1>1, <1>6 DEF ViewInv
  <2>2. peer.writing => Len(acks) = 1 /\ acks[1] \in {"250", "250 partial", "451", "552"}
    BY <1>1, <1>2 DEF WritingInv
  <2>3. peer.writing => mode = "command"
    BY <1>1, <1>2 DEF WritingInv
  <2>4. Head(acks) = acks[1]
    BY <1>1, <1>2
  <2> QED BY <2>1, <2>2, <2>3, <2>4
<1>9. peer'.writing => ~peer.writing /\ AsksText(Head(peer.asked), Head(acks))
  <2>1. CASE peer.writing
    <3>1. EndsMail(Head(peer.asked), Head(acks))
      BY <1>8, <2>1 DEF EndsMail
    <3>2. ~peer'.writing
      BY <1>1, <1>2, <3>1, LearnOver DEF Knows
    <3> QED BY <3>2
  <2>2. CASE ~peer.writing
    BY <1>1, <1>2, <2>2, LearnFacts
  <2> QED BY <2>1, <2>2
<1>10. AsksText(Head(peer.asked), Head(acks)) =>
          peer'.mail = peer.mail /\ peer'.recipients = peer.recipients /\ peer'.writing
  BY <1>1, <1>2, LearnText DEF Knows
<1>11. peer'.writing => acks' = <<>> /\ peer' = Informed
  <2>1. peer'.writing => Len(acks) = 1
    BY <1>3, <1>4, <1>6 DEF ViewInv
  <2>2. peer'.writing => Len(acks') = 0
    BY <1>3, <2>1
  <2> QED BY <1>1, <1>3, <2>1, <2>2, EmptySeq
<1>12. peer'.writing /\ phase # "closed" => mode = "data" /\ wire = <<>> /\ Layered
  <2> SUFFICES ASSUME peer'.writing, phase # "closed" PROVE mode = "data" /\ wire = <<>> /\ Layered
    OBVIOUS
  <2>1. Layered
    <3>1. phase \in {"clear", "handshake", "tls", "closed"}
      BY <1>1 DEF TypeOK
    <3>2. peer'.layer # "hello"
      BY <1>7 DEF PeerOK
    <3> QED BY <1>1, <1>11, <3>1, <3>2 DEF Agree, Layered
  <2>2. mode # "command"
    BY <1>1, <1>11, <2>1 DEF Agree
  <2> QED BY <1>1, <1>9, <2>1, <2>2 DEF WritingInv
<1>13. Agree'
  BY <1>1, <1>2, <1>3 DEF Agree, Layered, AnswersInOrder
<1>14. WritingInv'
  <2>1. peer'.writing => ~(messages'[peer'.mail.id].ended)
    <3>1. peer.mail.id \in Mails /\ messages \in [Mails -> MessageType]
      BY <1>1 DEF PeerType, TypeOK, MessageType
    <3>2. AsksText(Head(peer.asked), Head(acks)) =>
            messages' = [messages EXCEPT ![peer.mail.id] =
                           [NoMessage EXCEPT !.tls = peer.layer = "tls",
                                             !.recipients = peer.recipients]]
      BY DEF Receive, AsksText
    <3>3. [NoMessage EXCEPT !.tls = peer.layer = "tls", !.recipients = peer.recipients].ended = FALSE
      BY DEF NoMessage
    <3> QED BY <1>9, <1>10, <3>1, <3>2, <3>3
  <2>2. mode # "command" /\ ~peer'.writing => mode = "data" /\ wire = <<>> /\ body = NoBody
    BY <1>1, <1>2, <1>8 DEF WritingInv
  <2> QED BY <1>2, <1>11, <1>12, <2>1, <2>2 DEF WritingInv
<1>15. WireInv' /\ SessionInv'
  BY <1>1, <1>2 DEF WireInv, SessionInv, Layered
<1> QED BY <1>3, <1>5, <1>7, <1>8, <1>9, <1>10, <1>11, <1>12, <1>13, <1>14, <1>15

LEMMA ReceiveType ==
    ASSUME TypeOK, PeerOK(peer, mails), Receive
    PROVE  TypeOK'
<1>1. ServerType /\ StoreType /\ ClientType /\ TrafficType /\ mails \in Mails
  BY TypeParts DEF ClientType
<1>2. /\ open /\ acks # <<>> /\ peer.asked # <<>> /\ acks' = Tail(acks) /\ peer' = Learn(peer, Head(acks))
      /\ UNCHANGED <<phase, mode, session, body, job, store, wire, open, mails, asides, faults>>
  BY DEF Receive, server
<1>3. ServerType' /\ StoreType'
  BY <1>1, <1>2 DEF ServerType, StoreType
<1>4. acks' \in Seq(Codes) /\ Head(acks) \in Codes
  BY <1>1, <1>2 DEF TrafficType
<1>5. TrafficType'
  BY <1>1, <1>2, <1>4 DEF TrafficType
<1>6. peer' \in PeerType
  BY <1>1, <1>2, LearnOK DEF PeerOK
<1>7. verdict' \in [Mails -> Codes \cup {"none"}]
  <2>1. verdict' = [verdict EXCEPT ![peer.mail.id] = Head(acks)] \/ verdict' = verdict
    BY DEF Receive
  <2> QED BY <1>1, <1>4, <2>1 DEF ClientType
<1>8. messages' \in [Mails -> MessageType]
  <2> DEFINE new == [NoMessage EXCEPT !.tls = peer.layer = "tls", !.recipients = peer.recipients]
  <2>1. messages' = [messages EXCEPT ![peer.mail.id] = new] \/ messages' = messages
    BY DEF Receive
  <2>2. new \in MessageType
    <3>1. NoMessage \in MessageType
      BY BoundsAssumption DEF NoMessage, MessageType
    <3>2. peer.recipients \in Seq(Recipients)
      BY <1>1 DEF ClientType, PeerType
    <3> QED BY <3>1, <3>2 DEF MessageType
  <2> HIDE DEF new
  <2> QED BY <1>1, <2>1, <2>2 DEF ClientType, MessageType
<1>9. ClientType'
  BY <1>1, <1>2, <1>6, <1>7, <1>8 DEF ClientType, MessageType
<1> QED BY <1>3, <1>5, <1>9, TypeParts

LEMMA DialogueReceive ==
    ASSUME DialogueInv, Receive
    PROVE  DialogueInv'
<1>1. TypeOK'
  BY ReceiveType DEF DialogueInv
<1> QED BY <1>1, ReceiveStep DEF DialogueInv

----------------------------------------------------------------------------
(* The end of the connection *)

LEMMA DialogueDisconnect ==
    ASSUME DialogueInv, Disconnect
    PROVE  DialogueInv'
<1>1. /\ TypeOK /\ PeerOK(peer, mails) /\ WireInv /\ SessionInv /\ wire \in Seq(Lines)
      /\ mails \in Nat
  BY DialogueTypes DEF DialogueInv
<1>2. /\ open' = FALSE /\ UNCHANGED <<phase, mode, session, body, job, store, acks, peer, mails, messages>>
      /\ UNCHANGED <<verdict, asides, faults>>
  BY DEF Disconnect, server
<1>3. PICK k \in 0 .. Len(wire) : wire' = SubSeq(wire, 1, k)
  BY DEF Disconnect
<1>4. wire' \in Seq(Lines) /\ Len(wire) \in Nat /\ Len(wire') = k
  BY <1>1, <1>3
<1>5. wire = <<>> => wire' = <<>>
  <2>1. wire = <<>> => Len(wire') = 0
    BY <1>4
  <2> QED BY <1>4, <2>1, EmptySeq
<1>6. TypeOK'
  <2>1. ServerType /\ StoreType /\ ClientType /\ TrafficType
    BY <1>1, TypeParts
  <2>2. ServerType' /\ StoreType' /\ ClientType' /\ TrafficType'
    BY <1>2, <1>4, <2>1 DEF ServerType, StoreType, ClientType, TrafficType
  <2> QED BY <2>2, TypeParts
<1>7. WireInv'
  <2>1. CommandLines(wire, mails) => CommandLines(wire', mails)
    BY <1>1, <1>3, CommandPrefix
  <2>2. TextLines(wire) => TextLines(wire')
    BY <1>1, <1>3, TextPrefix
  <2> QED BY <1>1, <1>2, <1>4, <1>5, <2>1, <2>2 DEF WireInv, Layered
<1>8. SessionInv' /\ PeerOK(peer, mails)'
  BY <1>1, <1>2 DEF SessionInv
<1> QED BY <1>2, <1>6, <1>7, <1>8 DEF DialogueInv

----------------------------------------------------------------------------
(* The command loop *)

\* What an answer to a command makes of the transaction.
Answers(line, code) ==
    /\ AsksText(line, code) => session.recipients # <<>>
    /\ Layered' => phase' = phase /\ ~EntersTls(line, code)
    /\ phase' = "handshake" => EntersTls(line, code)
    /\ BeginsMail(line, code) => /\ session'.mail = [id |-> line.arg, tls |-> line.tls]
                                 /\ session'.recipients = <<>>
    /\ AddsRecipient(line, code) =>
          /\ session'.mail = session.mail
          /\ session'.recipients = Append(session.recipients, [addr |-> line.arg, tls |-> line.tls])
    /\ EndsMail(line, code) => session'.mail = NoMail /\ session'.recipients = <<>>
    /\ AsksText(line, code) \/ (Layered' /\ ChangesNothing(line, code)) =>
          session'.mail = session.mail /\ session'.recipients = session.recipients
    /\ IF AsksText(line, code) THEN mode' = "data" /\ Layered' ELSE mode' = "command"
    /\ body' = body \/ body' = NoBody
    /\ wire' = Tail(wire) \/ (wire' = <<>> /\ phase' = "closed")
    /\ phase' = "closed" => wire' = <<>>
    /\ acks' = Append(acks, code)
    /\ UNCHANGED <<open, peer, mails, messages>>

\* mxd reads a command only when the peer sends no text.
LEMMA NotWriting ==
    ASSUME DialogueInv, open, Layered, mode = "command", wire # <<>>
    PROVE  ~peer.writing /\ Informed.asked = wire /\ ~Informed.writing
<1>1. /\ TypeOK /\ PeerOK(peer, mails) /\ WireInv /\ SessionInv /\ ViewsInv /\ Agree /\ WritingInv
      /\ acks \in Seq(Codes) /\ Len(acks) \in Nat /\ peer \in PeerType /\ View(0) = peer /\ mails \in Mails
      /\ Informed = View(Len(acks))
  BY DialogueTypes DEF DialogueInv
<1>2. Informed.asked = wire /\ ~Informed.writing
  BY <1>1 DEF Agree, AnswersInOrder
<1>3. ASSUME peer.writing PROVE FALSE
  <2>1. acks # <<>>
    BY <1>1, <1>2, <1>3
  <2>2. Len(acks) = 1 /\ acks[1] \in {"250", "250 partial", "451", "552"}
    BY <1>1, <1>3, <2>1 DEF WritingInv
  <2>3. Informed = Learn(peer, acks[1])
    <3>3. 1 \in 1 .. Len(acks)
      <4>1. 1 \in 1 .. 1
        OBVIOUS
      <4> QED BY <2>2, <4>1, Zenon
    <3>1. Views(peer, acks)[1] = Learn(Views(peer, acks)[1 - 1], acks[1])
      BY <1>1, <3>3, ViewsFacts
    <3>2. 1 - 1 = 0
      OBVIOUS
    <3> QED BY <1>1, <2>2, <3>1, <3>2 DEF View
  <2>4. Len(peer.asked) = 1 /\ Head(peer.asked).cmd = "DATA" /\ peer.asked \in Seq(Lines)
    <3>2. 0 \in 0 .. Len(acks)
      BY <1>1
    <3>1. ViewInv(0)
      BY <1>1, <3>2 DEF ViewsInv
    <3> QED BY <1>1, <1>3, <3>1 DEF ViewInv, PeerType
  <2>5. EndsMail(Head(peer.asked), acks[1])
    BY <2>2, <2>4 DEF EndsMail
  <2>6. Informed.asked = Tail(peer.asked)
    BY <1>1, <2>3, <2>5, LearnOver DEF Knows
  <2>7. Tail(peer.asked) \in Seq(Lines) /\ Len(Tail(peer.asked)) = 0
    BY <2>4
  <2> QED BY <1>2, <2>6, <2>7, EmptySeq
<1> QED BY <1>2, <1>3

LEMMA CommandViews ==
    ASSUME DialogueInv, open, Layered, mode = "command", wire # <<>>, NEW code \in Codes,
           Answers(Head(wire), code)
    PROVE  /\ ViewsInv' /\ Informed' = Learn(Informed, code) /\ Len(acks') = Len(acks) + 1
           /\ \A i \in 0 .. Len(acks') :
                 View(i)' = IF i = Len(acks) + 1 THEN Learn(Informed, code) ELSE View(i)
<1> DEFINE n == Len(acks)
           line == Head(wire)
           new == Learn(Informed, code)
<1>1. /\ TypeOK /\ PeerOK(peer, mails) /\ WireInv /\ SessionInv /\ ViewsInv /\ Agree
      /\ acks \in Seq(Codes) /\ n \in Nat /\ mails \in Mails /\ Informed = View(n)
  BY DialogueTypes DEF DialogueInv
<1>2. acks' = Append(acks, code) /\ UNCHANGED <<open, peer, mails>>
  BY DEF Answers
<1>3. /\ Len(acks') = n + 1
      /\ \A i \in 0 .. n : Views(peer', acks')[i] = Views(peer, acks)[i]
      /\ Views(peer', acks')[n + 1] = Learn(Views(peer, acks)[n], code)
  BY <1>1, <1>2, ViewsReply
<1>4. /\ Informed' = new
      /\ \A i \in 0 .. n + 1 : View(i)' = IF i = n + 1 THEN new ELSE View(i)
  <2>1. Views(peer', acks')[n + 1] = new
    BY <1>3 DEF Informed
  <2>2. Informed' = new
    BY <1>3, <2>1 DEF Informed
  <2>3. ASSUME NEW i \in 0 .. n + 1
        PROVE  Views(peer', acks')[i] = IF i = n + 1 THEN new ELSE Views(peer, acks)[i]
    BY <1>1, <1>3, <2>1
  <2> QED BY <2>2, <2>3 DEF View
<1>5. ~peer.writing /\ Informed.asked = wire /\ ~Informed.writing
  BY NotWriting
<1>6. ViewInv(n)
  BY <1>1 DEF ViewsInv
<1>7. PeerOK(Informed, mails) /\ Informed \in PeerType /\ Informed.asked # <<>> /\ Informed.layer = phase
  BY <1>1, <1>5, <1>6 DEF ViewInv, PeerOK
<1>8. PeerOK(new, mails)
  BY <1>1, <1>7, LearnOK
<1>9. new.writing => /\ AsksText(line, code)
                     /\ Len(new.asked) = 1 /\ Head(new.asked).cmd = "DATA" /\ new.mail.id # 0
  <2>1. new.writing => AsksText(line, code)
    BY <1>5, <1>7, LearnFacts
  <2>2. AsksText(line, code) => new.asked = wire /\ new.mail = session.mail
    BY <1>1, <1>5, <1>7, LearnText DEF Knows, Agree
  <2>3. AsksText(line, code) => Len(wire) = 1 /\ Head(wire).cmd = "DATA"
    BY <1>1, CommandHead DEF WireInv, AsksText, Mails
  <2>4. AsksText(line, code) => session.mail.id # 0
    BY <1>1 DEF Answers, SessionInv
  <2> QED BY <2>1, <2>2, <2>3, <2>4
<1>10. ASSUME NEW i \in 0 .. n, NEW v, v = View(i)' PROVE ViewInv(i)'
  <2>1. ViewInv(i) /\ v = View(i) /\ i # n + 1 /\ i < n + 1
    <3>1. i # n + 1 /\ i < n + 1 /\ i \in 0 .. n + 1
      BY <1>1
    <3> QED BY <1>1, <1>4, <1>10, <3>1 DEF ViewsInv
  <2>2. PeerOK(v, mails) /\ (Layered => v.layer = phase)
    BY <2>1 DEF ViewInv
  <2>3. v.asked # <<>>
    <3>1. CASE i = n
      BY <1>1, <1>5, <2>1, <3>1
    <3>2. CASE i < n
      BY <2>1, <3>2 DEF ViewInv
    <3> QED BY <1>1, <3>1, <3>2
  <2>4. v.writing => Len(v.asked) = 1 /\ Head(v.asked).cmd = "DATA" /\ v.mail.id # 0 /\ i = 0
    <3>1. i = n => ~v.writing
      BY <1>1, <1>5, <2>1
    <3> QED BY <2>1, <3>1 DEF ViewInv
  <2>5. Layered' => v.layer = phase'
    BY <2>2 DEF Answers
  <2> QED BY <1>2, <1>10, <2>2, <2>3, <2>4, <2>5 DEF ViewInv
<1>11. ASSUME NEW i, i = n + 1, NEW v, v = View(i)' PROVE ViewInv(i)'
  <2>1. v = new
    BY <1>1, <1>4, <1>11
  <2>2. Layered' => v.layer = phase'
    BY <1>5, <1>7, <2>1, LearnFacts DEF Answers
  <2>3. PeerOK(v, mails) /\ ~(i < Len(acks')) /\ i = Len(acks')
    BY <1>1, <1>3, <1>8, <1>11, <2>1
  <2>4. v.writing => Len(v.asked) = 1 /\ Head(v.asked).cmd = "DATA" /\ v.mail.id # 0
    BY <1>9, <2>1
  <2> HIDE DEF new
  <2> QED BY <1>2, <1>11, <2>2, <2>3, <2>4 DEF ViewInv
<1>12. ViewsInv'
  <2> SUFFICES ASSUME NEW i \in 0 .. Len(acks') PROVE ViewInv(i)'
    BY DEF ViewsInv
  <2>1. CASE i = n + 1
    BY <1>11, <2>1
  <2>2. CASE i \in 0 .. n
    BY <1>10, <2>2
  <2> QED BY <1>1, <1>3, <2>1, <2>2
<1> QED BY <1>3, <1>4, <1>12

LEMMA AgreeIntro ==
    ASSUME NEW v, Informed' = v,
           Layered' => v.mail = session'.mail /\ v.recipients = session'.recipients,
           v.writing <=> mode' # "command",
           mode' = "command" /\ Layered' => v.asked = wire',
           mode' # "command" => Len(v.asked) = 1 /\ Head(v.asked).cmd = "DATA",
           phase' = "handshake" => v.layer = "hello"
    PROVE  Agree'
BY DEF Agree, AnswersInOrder

\* What follows from an answer, whichever command it is for.
LEMMA CommandStep ==
    ASSUME DialogueInv, Layered, mode = "command", wire # <<>>, NEW code \in Codes,
           Answers(Head(wire), code)
    PROVE  /\ PeerOK(peer, mails)' /\ WireInv'
           /\ open => ViewsInv' /\ Agree' /\ WritingInv'
           /\ AsksText(Head(wire), code) => wire' = <<>>
           /\ body' = NoBody
<1> DEFINE line == Head(wire)
           new == Learn(Informed, code)
<1>1. /\ TypeOK /\ PeerOK(peer, mails) /\ WireInv /\ SessionInv /\ (open => ViewsInv /\ Agree /\ WritingInv)
      /\ acks \in Seq(Codes) /\ Len(acks) \in Nat /\ mails \in Mails /\ Informed = View(Len(acks))
      /\ mails \in Nat /\ wire \in Seq(Lines) /\ CommandLines(wire, mails)
  BY DialogueTypes DEF DialogueInv, WireInv
<1>2. acks' = Append(acks, code) /\ UNCHANGED <<open, peer, mails, messages>>
  BY DEF Answers
<1>3. CommandLines(Tail(wire), mails) /\ Tail(wire) \in Seq(Lines)
  BY <1>1, CommandHead
<1>4. line.cmd = "DATA" => Tail(wire) = <<>> /\ Len(wire) = 1
  BY <1>1, CommandHead
<1>5. AsksText(line, code) => wire' = <<>> /\ mode' = "data" /\ Layered'
  BY <1>4 DEF Answers, AsksText
<1>6. ~AsksText(line, code) => mode' = "command"
  BY DEF Answers
<1>7. body' = NoBody
  BY <1>1 DEF Answers, SessionInv
<1>8. WireInv'
  <2>4. wire' = Tail(wire) \/ (wire' = <<>> /\ phase' = "closed")
    BY DEF Answers
  <2>1. wire' \in Seq(Lines) /\ (phase' # "closed" => CommandLines(wire', mails))
    <3>1. CASE wire' = Tail(wire)
      BY <1>3, <3>1
    <3>2. CASE wire' = <<>> /\ phase' = "closed"
      BY <3>2
    <3> QED BY <2>4, <3>1, <3>2
  <2>2. phase' = "closed" => wire' = <<>> /\ ~Layered'
    BY DEF Answers, Layered
  <2>3. TextLines(<<>>)
    BY DEF TextLines
  <2> QED BY <1>2, <1>5, <1>6, <2>1, <2>2, <2>3 DEF WireInv, Layered
<1>9. PeerOK(peer, mails)'
  BY <1>1, <1>2
<1>10. ASSUME open PROVE ViewsInv' /\ Agree' /\ WritingInv'
  <2>1. /\ ViewsInv' /\ Informed' = new /\ ~peer.writing /\ Informed.asked = wire /\ ~Informed.writing
    BY <1>10, CommandViews, NotWriting
  <2>2. Informed \in PeerType /\ Informed.mail = session.mail /\ Informed.recipients = session.recipients
    <3>1. Len(acks) \in 0 .. Len(acks)
      BY <1>1
    <3> QED BY <1>1, <1>10, <3>1 DEF ViewsInv, ViewInv, PeerOK, Agree
  <2>11. /\ ~EntersTls(line, code) => phase' # "handshake"
         /\ phase' # "closed" => wire' = Tail(wire)
         /\ phase' = "closed" => ~Layered' /\ wire' = <<>>
    BY DEF Answers, Layered
  <2>3. WritingInv'
    BY <1>2, <1>5, <1>6, <1>7, <2>1 DEF WritingInv
  <2>4. ASSUME BeginsMail(line, code) PROVE Agree'
    <3>1. ~AsksText(line, code) /\ ~EntersTls(line, code)
      BY <2>4 DEF BeginsMail, AsksText, EntersTls
    <3>2. Knows(new, Informed.layer, Tail(wire), [id |-> line.arg, tls |-> line.tls], <<>>, FALSE)
      BY <2>1, <2>2, <2>4, LearnMail
    <3>3. /\ session'.mail = [id |-> line.arg, tls |-> line.tls] /\ session'.recipients = <<>>
      BY <2>4 DEF Answers
    <3> HIDE DEF line, new
    <3>4. /\ Layered' => new.mail = session'.mail /\ new.recipients = session'.recipients
          /\ new.writing <=> mode' # "command"
          /\ mode' = "command" /\ Layered' => new.asked = wire'
          /\ mode' # "command" => Len(new.asked) = 1 /\ Head(new.asked).cmd = "DATA"
          /\ phase' = "handshake" => new.layer = "hello"
      BY <1>6, <2>1, <3>1, <3>2, <3>3, <2>11 DEF Knows
    <3> QED BY <2>1, <3>4, AgreeIntro
  <2>5. ASSUME AddsRecipient(line, code) PROVE Agree'
    <3>1. ~AsksText(line, code) /\ ~EntersTls(line, code)
      BY <2>5 DEF AddsRecipient, AsksText, EntersTls
    <3> DEFINE rcpts == Append(session.recipients, [addr |-> line.arg, tls |-> line.tls])
    <3>2. Knows(new, Informed.layer, Tail(wire), Informed.mail, rcpts, Informed.writing)
      BY <2>1, <2>2, <2>5, LearnRcpt
    <3>3. /\ session'.mail = session.mail /\ session'.recipients = rcpts
      BY <2>5 DEF Answers
    <3> HIDE DEF line, new
    <3>4. /\ Layered' => new.mail = session'.mail /\ new.recipients = session'.recipients
          /\ new.writing <=> mode' # "command"
          /\ mode' = "command" /\ Layered' => new.asked = wire'
          /\ mode' # "command" => Len(new.asked) = 1 /\ Head(new.asked).cmd = "DATA"
          /\ phase' = "handshake" => new.layer = "hello"
      BY <1>6, <2>1, <2>2, <3>1, <3>2, <3>3, <2>11 DEF Knows
    <3> QED BY <2>1, <3>4, AgreeIntro
  <2>6. ASSUME AsksText(line, code) PROVE Agree'
    <3>1. Knows(new, Informed.layer, wire, Informed.mail, Informed.recipients, TRUE)
      BY <2>1, <2>2, <2>6, LearnText
    <3>2. session'.mail = session.mail /\ session'.recipients = session.recipients
      BY <2>6 DEF Answers
    <3>3. Len(wire) = 1 /\ line.cmd = "DATA"
      BY <1>4, <2>6 DEF AsksText
    <3> HIDE DEF line, new
    <3>4. /\ Layered' => new.mail = session'.mail /\ new.recipients = session'.recipients
          /\ new.writing <=> mode' # "command"
          /\ mode' = "command" /\ Layered' => new.asked = wire'
          /\ mode' # "command" => Len(new.asked) = 1 /\ Head(new.asked).cmd = "DATA"
          /\ phase' = "handshake" => new.layer = "hello"
      <4>1. ~EntersTls(line, code) /\ mode' = "data" /\ new.asked = wire
        BY <1>5, <2>6, <3>1 DEF AsksText, EntersTls, Knows
      <4>2. new.writing
        BY <3>1 DEF Knows
      <4> QED BY <2>1, <2>2, <3>1, <3>2, <3>3, <2>11, <4>1, <4>2 DEF Knows, line
    <3> QED BY <2>1, <3>4, AgreeIntro
  <2>7. ASSUME EndsMail(line, code) PROVE Agree'
    <3>1. ~AsksText(line, code) /\ ~EntersTls(line, code)
      BY <2>7 DEF EndsMail, AsksText, EntersTls
    <3>2. Knows(new, Informed.layer, Tail(wire), NoMail, <<>>, FALSE)
      BY <2>1, <2>2, <2>7, LearnOver
    <3>3. session'.mail = NoMail /\ session'.recipients = <<>>
      BY <2>7 DEF Answers
    <3> HIDE DEF line, new
    <3>4. /\ Layered' => new.mail = session'.mail /\ new.recipients = session'.recipients
          /\ new.writing <=> mode' # "command"
          /\ mode' = "command" /\ Layered' => new.asked = wire'
          /\ mode' # "command" => Len(new.asked) = 1 /\ Head(new.asked).cmd = "DATA"
          /\ phase' = "handshake" => new.layer = "hello"
      BY <1>6, <2>1, <3>1, <3>2, <3>3, <2>11 DEF Knows
    <3> QED BY <2>1, <3>4, AgreeIntro
  <2>8. ASSUME EntersTls(line, code) PROVE Agree'
    <3>1. ~Layered' /\ new.layer = "hello"
      BY <2>1, <2>2, <2>8, LearnTls DEF Knows, Answers
    <3> HIDE DEF line, new
    <3> QED BY <2>1, <3>1 DEF Agree
  <2>9. ASSUME ChangesNothing(line, code) PROVE Agree'
    <3>1. ~AsksText(line, code) /\ ~EntersTls(line, code)
      BY <2>9 DEF ChangesNothing
    <3>2. Knows(new, Informed.layer, Tail(wire), Informed.mail, Informed.recipients, Informed.writing)
      BY <2>1, <2>2, <2>9, LearnNothing
    <3>3. Layered' => session'.mail = session.mail /\ session'.recipients = session.recipients
      BY <2>9 DEF Answers
    <3> HIDE DEF line, new
    <3>4. /\ Layered' => new.mail = session'.mail /\ new.recipients = session'.recipients
          /\ new.writing <=> mode' # "command"
          /\ mode' = "command" /\ Layered' => new.asked = wire'
          /\ mode' # "command" => Len(new.asked) = 1 /\ Head(new.asked).cmd = "DATA"
          /\ phase' = "handshake" => new.layer = "hello"
      BY <1>6, <2>1, <2>2, <3>1, <3>2, <3>3, <2>11 DEF Knows
    <3> QED BY <2>1, <3>4, AgreeIntro
  <2>10. Agree'
    BY <2>4, <2>5, <2>6, <2>7, <2>8, <2>9 DEF ChangesNothing
  <2> QED BY <2>1, <2>3, <2>10
<1> QED BY <1>5, <1>7, <1>8, <1>9, <1>10

\* A transaction mxd may be in after m MAIL commands.
SessionOK(s, m) ==
    /\ s \in Sessions /\ Len(s.recipients) <= MaxRecipients
    /\ s.mail.id \in 0 .. m
    /\ s.mail # NoMail => s.mail.id # 0
    /\ s.recipients # <<>> => s.mail.id # 0
    /\ \A n \in 1 .. Len(s.recipients) : Resolve[s.recipients[n].addr] \in Principals

LEMMA NoSessionOK ==
    ASSUME NEW m \in Nat
    PROVE  SessionOK(NoSession, m) /\ NoSession.mail = NoMail /\ NoSession.recipients = <<>>
<1>1. NoSession.mail = NoMail /\ NoSession.recipients = <<>> /\ NoMail.id = 0
  BY DEF NoSession, NoMail
<1>2. NoSession \in Sessions
  BY BoundsAssumption DEF NoSession, Sessions, NoMail, Mails
<1>3. Len(<<>>) <= MaxRecipients /\ 0 \in 0 .. m
  BY BoundsAssumption
<1> HIDE DEF NoSession, NoMail
<1> QED BY <1>1, <1>2, <1>3 DEF SessionOK

\* A command is served: the transaction stays well formed.
LEMMA CommandDone ==
    ASSUME DialogueInv, Layered, mode = "command", wire # <<>>, NEW code \in Codes,
           Answers(Head(wire), code), SessionOK(session', mails),
           phase' \in {"clear", "handshake", "tls", "closed"}, job' = job \/ job' = NoJob,
           UNCHANGED <<store, verdict, asides, faults>>
    PROVE  DialogueInv'
<1>1. ServerType /\ StoreType /\ ClientType /\ TrafficType /\ SessionInv /\ TypeOK
  BY TypeParts DEF DialogueInv
<1>2. /\ PeerOK(peer, mails)' /\ WireInv'
      /\ open => ViewsInv' /\ Agree' /\ WritingInv'
      /\ AsksText(Head(wire), code) => wire' = <<>>
      /\ body' = NoBody
  BY CommandStep
<1>3. acks' = Append(acks, code) /\ UNCHANGED <<open, peer, mails, messages>>
  BY DEF Answers
<1>4. mode' \in {"command", "data"} /\ (mode' # "command" => AsksText(Head(wire), code))
  BY DEF Answers
<1>5. AsksText(Head(wire), code) => session'.recipients # <<>>
  BY DEF Answers
<1>6. job' = NoJob /\ body = NoBody
  BY <1>1 DEF SessionInv
<1>7. ServerType'
  <2>1. job' \in [next : Nat, delivered : Nat, failed : Nat]
    BY <1>6 DEF NoJob
  <2>2. body' \in [lines : Seq(1 .. MaxText), tooLarge : BOOLEAN] /\ Len(body'.lines) <= MaxBody
    BY <1>1, <1>2, <1>6 DEF ServerType
  <2> QED BY <1>4, <2>1, <2>2 DEF ServerType, SessionOK
<1>8. StoreType' /\ ClientType'
  BY <1>1, <1>3 DEF StoreType, ClientType
<1>9. TrafficType'
  <2>1. wire' \in Seq(Lines)
    BY <1>2 DEF WireInv
  <2> QED BY <1>1, <1>3, <2>1 DEF TrafficType
<1>10. SessionInv'
  <2>1. job'.next # 0
    BY <1>6 DEF NoJob
  <2>2. mode' # "command" => session'.recipients # <<>>
    BY <1>4, <1>5
  <2> QED BY <1>2, <1>3, <1>4, <1>6, <2>1, <2>2 DEF SessionInv, SessionOK
<1> QED BY <1>2, <1>3, <1>7, <1>8, <1>9, <1>10, TypeParts DEF DialogueInv

LEMMA CommandFacts ==
    ASSUME DialogueInv, Layered, mode = "command", wire # <<>>
    PROVE  /\ SessionOK(session, mails) /\ mails \in Nat /\ mails \in Mails
           /\ WellFormed(Head(wire), mails)
           /\ phase \in {"clear", "tls"} /\ session \in Sessions
<1>1. TypeOK /\ SessionInv /\ WireInv
  BY DEF DialogueInv
<1>2. SessionOK(session, mails)
  BY <1>1 DEF SessionOK, SessionInv, TypeOK
<1>3. mails \in Nat /\ mails \in Mails /\ session \in Sessions
  BY <1>1, DialogueTypes
<1>4. WellFormed(Head(wire), mails)
  BY <1>1, <1>3, CommandHead DEF WireInv
<1> QED BY <1>2, <1>3, <1>4 DEF Layered

\* A command that is answered and changes nothing.
LEMMA Unchanging ==
    ASSUME DialogueInv, Layered, mode = "command", wire # <<>>, NEW code \in Codes,
           ChangesNothing(Head(wire), code), Reply(code), wire' = Tail(wire),
           UNCHANGED <<phase, mode, session, body, job, store, client, faults>>
    PROVE  DialogueInv' /\ Answers(Head(wire), code)
<1>1. /\ ~BeginsMail(Head(wire), code) /\ ~AddsRecipient(Head(wire), code) /\ ~AsksText(Head(wire), code)
      /\ ~EndsMail(Head(wire), code) /\ ~EntersTls(Head(wire), code)
  BY DEF ChangesNothing
<1>2. phase' # "handshake"
  BY DEF Layered
<1>3. Answers(Head(wire), code)
  <2>1. /\ acks' = Append(acks, code) /\ wire' = Tail(wire) /\ mode' = "command" /\ phase' = phase
        /\ session'.mail = session.mail /\ session'.recipients = session.recipients
        /\ body' = body /\ UNCHANGED <<open, peer, mails, messages>>
    BY DEF Reply, client
  <2>2. phase' # "closed"
    BY DEF Layered
  <2> QED BY <1>1, <1>2, <2>1, <2>2 DEF Answers
<1>4. SessionOK(session', mails) /\ phase' \in {"clear", "tls"}
  BY CommandFacts
<1> QED BY <1>3, <1>4, CommandDone DEF client

LEMMA DialogueAside ==
    ASSUME DialogueInv, Aside
    PROVE  DialogueInv' /\ \E code \in Codes : ChangesNothing(Head(wire), code) /\ Answers(Head(wire), code)
<1>1. PICK cmd \in {"EHLO", "NOOP", "LONG", "JUNK"}, code \in {"250", "500"} :
         Command(cmd) /\ Reply(code) /\ UNCHANGED <<phase, mode, session>>
  BY DEF Aside
<1>2. /\ Layered /\ mode = "command" /\ wire # <<>> /\ Head(wire).cmd = cmd /\ wire' = Tail(wire)
      /\ UNCHANGED <<phase, mode, session, body, job, store, client, faults>>
  BY <1>1 DEF Command, Layered
<1>3. ChangesNothing(Head(wire), code) /\ code \in Codes
  BY <1>2 DEF ChangesNothing, BeginsMail, AddsRecipient, AsksText, EndsMail, EntersTls, Codes
<1> QED BY <1>1, <1>2, <1>3, Unchanging

LEMMA DialogueStartTls ==
    ASSUME DialogueInv, StartTls
    PROVE  /\ DialogueInv'
           /\ \E code \in Codes : /\ ChangesNothing(Head(wire), code) \/ EntersTls(Head(wire), code)
                                  /\ Answers(Head(wire), code)
<1>1. /\ Layered /\ mode = "command" /\ wire # <<>> /\ Head(wire).cmd = "STARTTLS" /\ wire' = Tail(wire)
      /\ UNCHANGED <<mode, session, body, job, store, client, faults>>
  BY DEF StartTls, Command, Layered
<1>2. CASE phase = "clear" /\ Reply("220") /\ phase' = "handshake"
  <2>1. EntersTls(Head(wire), "220") /\ "220" \in Codes
    BY <1>1 DEF EntersTls, Codes
  <2>2. /\ ~BeginsMail(Head(wire), "220") /\ ~AddsRecipient(Head(wire), "220")
        /\ ~AsksText(Head(wire), "220") /\ ~EndsMail(Head(wire), "220") /\ ~Layered'
    BY <1>1, <1>2 DEF BeginsMail, AddsRecipient, AsksText, EndsMail, Layered
  <2>3. Answers(Head(wire), "220")
    BY <1>1, <1>2, <2>1, <2>2 DEF Answers, Reply, client
  <2>4. SessionOK(session', mails)
    BY <1>1, CommandFacts
  <2>5. DialogueInv'
    BY <1>1, <1>2, <2>1, <2>3, <2>4, CommandDone DEF client
  <2> QED BY <2>1, <2>3, <2>5
<1>3. CASE Reply("503") /\ UNCHANGED phase
  <2>1. ChangesNothing(Head(wire), "503") /\ "503" \in Codes
    BY <1>1 DEF ChangesNothing, BeginsMail, AddsRecipient, AsksText, EndsMail, EntersTls, Codes
  <2> QED BY <1>1, <1>3, <2>1, Unchanging
<1> QED BY <1>2, <1>3 DEF StartTls

LEMMA DialogueMailFrom ==
    ASSUME DialogueInv, MailFrom
    PROVE  /\ DialogueInv'
           /\ \E code \in Codes : /\ ChangesNothing(Head(wire), code) \/ BeginsMail(Head(wire), code)
                                  /\ Answers(Head(wire), code)
<1> DEFINE line == Head(wire)
<1>1. /\ Layered /\ mode = "command" /\ wire # <<>> /\ wire' = Tail(wire)
      /\ UNCHANGED <<phase, mode, body, job, store, client, faults>>
  BY DEF MailFrom, Command, Layered
<1>2. CASE line.cmd = "MAIL" /\ Reply("250") /\ session' = NewTransaction(session, line)
  <2>1. BeginsMail(line, "250") /\ "250" \in Codes
    BY <1>2 DEF BeginsMail, Codes
  <2>2. /\ ~EntersTls(line, "250") /\ ~AddsRecipient(line, "250")
        /\ ~AsksText(line, "250") /\ ~EndsMail(line, "250") /\ ~ChangesNothing(line, "250")
    BY <1>2, <2>1 DEF EntersTls, AddsRecipient, AsksText, EndsMail, ChangesNothing
  <2> DEFINE mail == [id |-> line.arg, tls |-> line.tls]
  <2>3. session'.mail = mail /\ session'.recipients = <<>>
    BY <1>2 DEF NewTransaction
  <2>4. WellFormed(line, mails) /\ mails \in Nat /\ mails \in Mails
    BY <1>1, CommandFacts
  <2>5. line.arg \in 1 .. mails /\ line.tls \in BOOLEAN
    BY <1>2, <2>4 DEF WellFormed, Lines
  <2>6. mail.id = line.arg /\ mail \in [id : Mails, tls : BOOLEAN]
    BY <2>4, <2>5, BoundsAssumption DEF Mails
  <2>7. session' \in Sessions
    BY <1>2, <2>6 DEF NewTransaction, Sessions
  <2> HIDE DEF mail
  <2>8. SessionOK(session', mails)
    BY <2>3, <2>4, <2>5, <2>6, <2>7, BoundsAssumption DEF SessionOK
  <2>9. phase' # "handshake" /\ phase' \in {"clear", "tls"}
    BY <1>1 DEF Layered
  <2>10. Answers(line, "250")
    BY <1>1, <1>2, <2>1, <2>2, <2>3, <2>9 DEF Answers, Reply, client, mail
  <2>11. DialogueInv'
    BY <1>1, <2>1, <2>8, <2>9, <2>10, CommandDone DEF client
  <2> QED BY <2>1, <2>10, <2>11
<1>3. CASE line.cmd = "BADMAIL" /\ Reply("501") /\ UNCHANGED session
  <2>1. ChangesNothing(line, "501") /\ "501" \in Codes
    BY <1>3 DEF ChangesNothing, BeginsMail, AddsRecipient, AsksText, EndsMail, EntersTls, Codes
  <2> QED BY <1>1, <1>3, <2>1, Unchanging
<1> QED BY <1>2, <1>3 DEF MailFrom, Command

LEMMA DialogueRcptTo ==
    ASSUME DialogueInv, RcptTo
    PROVE  /\ DialogueInv'
           /\ \E code \in Codes : /\ ChangesNothing(Head(wire), code) \/ AddsRecipient(Head(wire), code)
                                  /\ Answers(Head(wire), code)
<1> DEFINE line == Head(wire)
           code == RcptCode(line.arg)
           rcpt == [addr |-> line.arg, tls |-> line.tls]
           rcpts == Append(session.recipients, rcpt)
<1>1. /\ Layered /\ mode = "command" /\ wire # <<>> /\ wire' = Tail(wire) /\ line.cmd = "RCPT"
      /\ Reply(code) /\ UNCHANGED <<phase, mode, body, job, store, client, faults>>
      /\ session' = IF code = "250" THEN [session EXCEPT !.recipients = rcpts] ELSE session
  BY DEF RcptTo, Command, Layered
<1>2. code \in {"503", "452", "501", "550", "250"}
  BY DEF RcptCode
<1>3. code = "250" => /\ session.mail # NoMail /\ ~(Len(session.recipients) >= MaxRecipients)
                      /\ Resolve[line.arg] # Invalid /\ Resolve[line.arg] # Unknown
  BY DEF RcptCode
<1>4. /\ SessionOK(session, mails) /\ WellFormed(line, mails) /\ mails \in Nat
      /\ phase \in {"clear", "tls"} /\ session \in Sessions
  BY <1>1, CommandFacts
<1>5. rcpt \in Recipients /\ line.arg \in Addrs
  BY <1>1, <1>4 DEF WellFormed, Lines, Recipients
<1>6. phase' # "handshake" /\ phase' \in {"clear", "tls"} /\ code \in Codes
  BY <1>1, <1>2, <1>4 DEF Codes
<1> HIDE DEF code
<1>7. CASE code = "250"
  <2>1. session.recipients \in Seq(Recipients) /\ rcpt.addr = line.arg
    BY <1>4 DEF Sessions
  <2> HIDE DEF rcpt
  <2>2. /\ rcpts \in Seq(Recipients) /\ Len(rcpts) = Len(session.recipients) + 1
        /\ rcpts[Len(session.recipients) + 1] = rcpt /\ Len(session.recipients) \in Nat /\ rcpts # <<>>
        /\ \A n \in 1 .. Len(session.recipients) : rcpts[n] = session.recipients[n]
    BY <1>5, <2>1
  <2> HIDE DEF rcpts
  <2>3. /\ session'.mail = session.mail /\ session'.recipients = rcpts /\ session' \in Sessions
    BY <1>1, <1>4, <1>7, <2>2 DEF Sessions
  <2>4. Len(rcpts) <= MaxRecipients
    BY <1>3, <1>7, <2>2, BoundsAssumption
  <2>5. ASSUME NEW n \in 1 .. Len(rcpts) PROVE Resolve[rcpts[n].addr] \in Principals
    <3>1. CASE n \in 1 .. Len(session.recipients)
      BY <1>4, <2>2, <3>1 DEF SessionOK
    <3>2. CASE n = Len(session.recipients) + 1
      BY <1>3, <1>5, <1>7, <2>1, <2>2, <3>2, ResolveAssumption
    <3> QED BY <2>2, <3>1, <3>2
  <2>6. SessionOK(session', mails)
    BY <1>3, <1>4, <1>7, <2>3, <2>4, <2>5 DEF SessionOK
  <2>7. AddsRecipient(line, code)
    BY <1>1, <1>7 DEF AddsRecipient
  <2>8. /\ ~EntersTls(line, code) /\ ~BeginsMail(line, code)
        /\ ~AsksText(line, code) /\ ~EndsMail(line, code) /\ ~ChangesNothing(line, code)
    BY <1>1, <2>7 DEF EntersTls, BeginsMail, AsksText, EndsMail, ChangesNothing
  <2>9. Answers(line, code)
    BY <1>1, <1>6, <2>3, <2>7, <2>8 DEF Answers, Reply, client, rcpts, rcpt
  <2>10. DialogueInv'
    BY <1>1, <1>6, <2>6, <2>9, CommandDone DEF client
  <2> QED BY <1>6, <2>7, <2>9, <2>10
<1>8. CASE code # "250"
  <2>1. ChangesNothing(line, code)
    BY <1>1, <1>2, <1>8 DEF ChangesNothing, BeginsMail, AddsRecipient, AsksText, EndsMail, EntersTls
  <2>2. session' = session
    BY <1>1, <1>8
  <2> QED BY <1>1, <1>6, <2>1, <2>2, Unchanging
<1> QED BY <1>7, <1>8

LEMMA DialogueData ==
    ASSUME DialogueInv, Data
    PROVE  /\ DialogueInv'
           /\ \E code \in Codes : /\ ChangesNothing(Head(wire), code) \/ AsksText(Head(wire), code)
                                  /\ Answers(Head(wire), code)
<1> DEFINE line == Head(wire)
<1>1. /\ Layered /\ mode = "command" /\ wire # <<>> /\ wire' = Tail(wire) /\ line.cmd = "DATA"
      /\ UNCHANGED <<phase, session, body, job, store, client, faults>>
  BY DEF Data, Command, Layered
<1>2. CASE session.recipients = <<>> /\ Reply("554") /\ UNCHANGED mode
  <2>1. ChangesNothing(line, "554") /\ "554" \in Codes
    BY <1>1 DEF ChangesNothing, BeginsMail, AddsRecipient, AsksText, EndsMail, EntersTls, Codes
  <2> QED BY <1>1, <1>2, <2>1, Unchanging
<1>3. CASE session.recipients # <<>> /\ Reply("354") /\ mode' = "data"
  <2>1. AsksText(line, "354") /\ "354" \in Codes
    BY <1>1 DEF AsksText, Codes
  <2>2. /\ ~EntersTls(line, "354") /\ ~BeginsMail(line, "354")
        /\ ~AddsRecipient(line, "354") /\ ~EndsMail(line, "354")
    BY <1>1 DEF EntersTls, BeginsMail, AddsRecipient, EndsMail
  <2>3. phase' \in {"clear", "tls"} /\ SessionOK(session', mails) /\ Layered'
    BY <1>1, CommandFacts DEF Layered
  <2>4. Answers(line, "354")
    BY <1>1, <1>3, <2>1, <2>2, <2>3 DEF Answers, Reply, client
  <2>5. DialogueInv'
    BY <1>1, <2>1, <2>3, <2>4, CommandDone DEF client
  <2> QED BY <2>1, <2>4, <2>5
<1> QED BY <1>2, <1>3 DEF Data

LEMMA DialogueRset ==
    ASSUME DialogueInv, Rset
    PROVE  DialogueInv' /\ \E code \in Codes : EndsMail(Head(wire), code) /\ Answers(Head(wire), code)
<1> DEFINE line == Head(wire)
<1>1. /\ Layered /\ mode = "command" /\ wire # <<>> /\ wire' = Tail(wire) /\ line.cmd = "RSET"
      /\ Reply("250") /\ session' = NoSession
      /\ UNCHANGED <<phase, mode, body, job, store, client, faults>>
  BY DEF Rset, Command, Layered
<1>2. EndsMail(line, "250") /\ "250" \in Codes
  BY <1>1 DEF EndsMail, Codes
<1>3. /\ ~EntersTls(line, "250") /\ ~BeginsMail(line, "250") /\ ~AddsRecipient(line, "250")
      /\ ~AsksText(line, "250") /\ ~ChangesNothing(line, "250")
  BY <1>1, <1>2 DEF EntersTls, BeginsMail, AddsRecipient, AsksText, ChangesNothing
<1>4. phase' \in {"clear", "tls"} /\ phase' # "handshake" /\ mails \in Nat
  BY <1>1, CommandFacts
<1>5. SessionOK(session', mails) /\ session'.mail = NoMail /\ session'.recipients = <<>>
  BY <1>1, <1>4, NoSessionOK
<1>6. Answers(line, "250")
  BY <1>1, <1>2, <1>3, <1>4, <1>5 DEF Answers, Reply, client
<1>7. DialogueInv'
  BY <1>1, <1>2, <1>4, <1>5, <1>6, CommandDone DEF client
<1> QED BY <1>2, <1>6, <1>7

LEMMA DialogueQuit ==
    ASSUME DialogueInv, Quit
    PROVE  DialogueInv' /\ \E code \in Codes : ChangesNothing(Head(wire), code) /\ Answers(Head(wire), code)
<1> DEFINE line == Head(wire)
<1>1. /\ Layered /\ mode = "command" /\ wire # <<>> /\ line.cmd = "QUIT"
      /\ acks' = Append(acks, "221") /\ phase' = "closed" /\ mode' = "command" /\ wire' = <<>>
      /\ session' = NoSession /\ body' = NoBody /\ job' = NoJob
      /\ UNCHANGED <<store, client, faults>>
  BY DEF Quit, Layered, End, Reply
<1>2. ChangesNothing(line, "221") /\ "221" \in Codes
  BY <1>1 DEF ChangesNothing, BeginsMail, AddsRecipient, AsksText, EndsMail, EntersTls, Codes
<1>3. /\ ~EntersTls(line, "221") /\ ~BeginsMail(line, "221") /\ ~AddsRecipient(line, "221")
      /\ ~AsksText(line, "221") /\ ~EndsMail(line, "221") /\ ~Layered'
  BY <1>1, <1>2 DEF ChangesNothing, Layered
<1>4. SessionOK(session', mails)
  BY <1>1, CommandFacts, NoSessionOK
<1>5. Answers(line, "221")
  BY <1>1, <1>3 DEF Answers, client
<1>6. DialogueInv'
  BY <1>1, <1>2, <1>4, <1>5, CommandDone DEF client
<1> QED BY <1>2, <1>5, <1>6

----------------------------------------------------------------------------
(* The task of the connection ends *)

\* Every way but QUIT, which is answered.
LEMMA DialogueEnd ==
    ASSUME DialogueInv, \/ Eof \/ HandshakeFails
                        \/ ConnectionLost \/ Crash
    PROVE  DialogueInv'
<1>1. /\ phase' = "closed" /\ mode' = "command" /\ wire' = <<>>
      /\ session' = NoSession /\ body' = NoBody /\ job' = NoJob
      /\ UNCHANGED <<store, acks, open, peer, mails, messages, verdict, asides>>
      /\ faults' = faults \/ (faults < MaxFaults /\ faults' = faults + 1)
  BY DEF Eof, HandshakeFails, ConnectionLost, Crash, End, client
<1>2. /\ ServerType /\ StoreType /\ ClientType /\ TrafficType /\ TypeOK /\ PeerOK(peer, mails)
      /\ open => ViewsInv /\ WritingInv
      /\ mails \in Nat
  BY TypeParts, DialogueTypes DEF DialogueInv
<1>3. SessionOK(session', mails)
  BY <1>1, <1>2, NoSessionOK
<1>4. ServerType'
  <2>1. NoJob \in [next : Nat, delivered : Nat, failed : Nat]
    BY DEF NoJob
  <2>2. NoBody \in [lines : Seq(1 .. MaxText), tooLarge : BOOLEAN] /\ Len(NoBody.lines) <= MaxBody
    BY BoundsAssumption DEF NoBody
  <2> QED BY <1>1, <1>3, <2>1, <2>2 DEF ServerType, SessionOK
<1>5. StoreType' /\ ClientType'
  BY <1>1, <1>2 DEF StoreType, ClientType
<1>6. TrafficType'
  BY <1>1, <1>2, BoundsAssumption DEF TrafficType
<1>7. WireInv' /\ ~Layered'
  BY <1>1 DEF WireInv, Layered
<1>8. SessionInv' /\ PeerOK(peer, mails)'
  <2>1. NoJob.next # 0
    BY DEF NoJob
  <2> QED BY <1>1, <1>2, <1>3, <2>1 DEF SessionInv, SessionOK
<1>9. open' => ViewsInv' /\ Agree' /\ WritingInv'
  <2> SUFFICES ASSUME open PROVE ViewsInv' /\ Agree' /\ WritingInv'
    BY <1>1
  <2>1. ViewsInv'
    BY <1>1, <1>2, <1>7 DEF ViewsInv, ViewInv, View
  <2>2. Agree'
    BY <1>1, <1>7 DEF Agree
  <2>3. WritingInv'
    BY <1>1, <1>2 DEF WritingInv
  <2> QED BY <2>1, <2>2, <2>3
<1> QED BY <1>4, <1>5, <1>6, <1>7, <1>8, <1>9, TypeParts DEF DialogueInv

LEMMA DialogueHandshake ==
    ASSUME DialogueInv, Handshake
    PROVE  /\ DialogueInv' /\ acks = <<>> /\ peer.asked = <<>> /\ peer.mail = NoMail /\ ~peer.writing
           /\ peer'.asked = peer.asked /\ peer'.mail = peer.mail /\ peer'.recipients = peer.recipients
           /\ ~peer'.writing /\ View(0)' = peer' /\ mode = "command"
<1>1. /\ phase = "handshake" /\ open /\ peer.layer = "hello" /\ wire' = <<>> /\ session' = NoSession
      /\ phase' = "tls" /\ peer' = [peer EXCEPT !.layer = "tls"]
      /\ UNCHANGED <<mode, body, job, store, acks, open, mails, messages, verdict, asides, faults>>
  BY DEF Handshake, TlsLoop
<1>2. /\ TypeOK /\ PeerOK(peer, mails) /\ WireInv /\ SessionInv /\ ViewsInv
      /\ acks \in Seq(Codes) /\ Len(acks) \in Nat /\ peer \in PeerType /\ View(0) = peer
      /\ mails \in Nat /\ ServerType /\ StoreType /\ ClientType /\ TrafficType
  BY <1>1, DialogueTypes, TypeParts DEF DialogueInv
<1>3. peer.asked = <<>> /\ peer.mail = NoMail /\ peer.recipients = <<>> /\ ~peer.writing
  BY <1>1, <1>2 DEF PeerOK
<1>4. acks = <<>> /\ Len(acks) = 0
  <2>1. 0 \in 0 .. Len(acks)
    BY <1>2
  <2>2. ViewInv(0)
    BY <1>2, <2>1 DEF ViewsInv
  <2>3. ~(0 < Len(acks))
    BY <1>2, <1>3, <2>2 DEF ViewInv
  <2>4. Len(acks) = 0
    BY <1>2, <2>3
  <2> QED BY <1>2, <2>4, EmptySeq
<1>5. mode = "command" /\ body = NoBody /\ job = NoJob
  <2>1. mode = "command"
    BY <1>1, <1>2 DEF WireInv, Layered
  <2> QED BY <1>2, <2>1 DEF SessionInv
<1>6. /\ peer' \in PeerType /\ peer'.layer = "tls" /\ peer'.asked = <<>> /\ peer'.mail = NoMail
      /\ peer'.recipients = <<>> /\ ~peer'.writing
  <2>1. Knows([peer EXCEPT !.layer = "tls"], "tls", peer.asked, peer.mail, peer.recipients, peer.writing)
    BY <1>2 DEF Knows, PeerType
  <2>2. peer' \in PeerType
    BY <1>1, <1>2 DEF PeerType
  <2> QED BY <1>1, <1>3, <2>1, <2>2 DEF Knows
<1>7. PeerOK(peer, mails)'
  <2>1. NoMail.id \in 0 .. mails'
    BY <1>1, <1>2 DEF NoMail
  <2> QED BY <1>6, <2>1 DEF PeerOK, CommandLines
<1>8. View(0)' = peer' /\ Informed' = peer'
  <2>1. Views(peer', acks')[0] = peer'
    BY <1>1, <1>2, ViewsFacts
  <2> QED BY <1>1, <1>4, <2>1 DEF View, Informed
<1>9. ViewsInv'
  <2> SUFFICES ASSUME NEW i \in 0 .. Len(acks'), NEW v, v = View(i)' PROVE ViewInv(i)'
    BY DEF ViewsInv
  <2>1. i = 0 /\ v = peer'
    BY <1>1, <1>4, <1>8
  <2>4. PeerOK(v, mails') /\ ~v.writing
    BY <1>6, <1>7, <2>1
  <2>5. v.layer = phase'
    BY <1>1, <1>6, <2>1
  <2>6. ~(i < Len(acks'))
    BY <1>1, <1>4, <2>1
  <2>2. PeerOK(v, mails') /\ ~v.writing /\ v.layer = phase' /\ ~(i < Len(acks'))
    BY <2>4, <2>5, <2>6
  <2>3. PeerOK(View(i)', mails') /\ ~View(i)'.writing /\ View(i)'.layer = phase'
    BY <2>2
  <2> QED BY <2>2, <2>3 DEF ViewInv
<1>10. SessionOK(NoSession, mails) /\ NoSession.mail = NoMail /\ NoSession.recipients = <<>>
  BY <1>2, NoSessionOK
<1>11. Agree'
  <2>1. /\ peer'.mail = session'.mail /\ peer'.recipients = session'.recipients
        /\ mode' = "command" /\ wire' = <<>> /\ phase' # "handshake"
    BY <1>1, <1>5, <1>6, <1>10
  <2> QED BY <1>6, <1>8, <2>1, AgreeIntro
<1>12. WritingInv'
  BY <1>1, <1>4, <1>5, <1>6 DEF WritingInv
<1>13. WireInv'
  BY <1>1, <1>5 DEF WireInv, CommandLines, TextLines
<1>14. SessionInv'
  BY <1>1, <1>2, <1>5, <1>10 DEF SessionInv, SessionOK
<1>15. ServerType' /\ StoreType'
  BY <1>1, <1>2, <1>10 DEF ServerType, StoreType, SessionOK
<1>16. ClientType' /\ TrafficType'
  BY <1>1, <1>2, <1>6 DEF ClientType, TrafficType
<1> QED BY <1>3, <1>4, <1>5, <1>6, <1>7, <1>8, <1>9, <1>11, <1>12, <1>13, <1>14, <1>15, <1>16, TypeParts
        DEF DialogueInv

----------------------------------------------------------------------------
(* The text is read, delivered and answered *)

\* While mxd reads or delivers a text that is not over, the peer has no answer to read.
LEMMA InText ==
    ASSUME DialogueInv, open, mode # "command", mode = "data" => wire # <<>>
    PROVE  /\ peer.writing /\ acks = <<>> /\ Layered /\ Informed = peer
           /\ Len(peer.asked) = 1 /\ Head(peer.asked).cmd = "DATA" /\ peer.mail = session.mail
           /\ peer.recipients = session.recipients
           /\ messages[peer.mail.id].ended <=> mode # "data" \/ Last(wire).cmd = "DOT"
<1>1. /\ TypeOK /\ PeerOK(peer, mails) /\ WireInv /\ ViewsInv /\ Agree /\ WritingInv
      /\ Informed = View(Len(acks)) /\ View(0) = peer /\ Len(acks) \in Nat
  BY DialogueTypes DEF DialogueInv
<1>2. Layered
  BY <1>1 DEF WireInv
<1>3. peer.writing /\ acks = <<>>
  BY <1>1 DEF WritingInv
<1>4. Informed = peer
  BY <1>1, <1>3
<1>5. ViewInv(0)
  <2>1. 0 \in 0 .. Len(acks)
    BY <1>1
  <2> QED BY <1>1, <2>1 DEF ViewsInv
<1>6. Len(peer.asked) = 1 /\ Head(peer.asked).cmd = "DATA"
  BY <1>1, <1>3, <1>5 DEF ViewInv
<1>7. messages[peer.mail.id].ended <=> mode # "data" \/ Last(wire).cmd = "DOT"
  <2>1. phase # "closed"
    BY <1>2 DEF Layered
  <2> QED BY <1>1, <1>3, <2>1 DEF WritingInv
<1> QED BY <1>1, <1>2, <1>3, <1>4, <1>6, <1>7 DEF Agree

\* mxd goes on with the text: the peer and its views are as they were.
LEMMA TextGoesOn ==
    ASSUME DialogueInv, mode # "command", mode = "data" => wire # <<>> \/ ~open,
           SessionInv', ServerType', StoreType', faults' \in 0 .. MaxFaults,
           mode' \in {"data", "deliver"}, mode' = "data" => mode = "data" /\ TextLines(wire'),
           wire' \in Seq(Lines), mode' = "deliver" => wire' = <<>>,
           mode = "data" /\ wire # <<>> =>
              Last(wire).cmd = "DOT" <=> \/ mode' = "deliver"
                                         \/ wire' # <<>> /\ Last(wire').cmd = "DOT",
           mode = "deliver" => mode' = "deliver",
           UNCHANGED <<phase, session, acks, client>>
    PROVE  DialogueInv'
<1>1. /\ TypeOK /\ PeerOK(peer, mails) /\ WireInv /\ (open => ViewsInv /\ Agree /\ WritingInv)
      /\ StoreType /\ ClientType /\ TrafficType /\ mode \in {"command", "data", "deliver"}
  BY DialogueTypes, TypeParts DEF DialogueInv
<1>2. Layered /\ Layered'
  BY <1>1 DEF WireInv, Layered
<1>3. UNCHANGED <<phase, acks, open, peer, mails, messages, verdict, asides>>
  BY DEF client
<1>4. ClientType' /\ TrafficType' /\ PeerOK(peer, mails)'
  BY <1>1, <1>3 DEF ClientType, TrafficType
<1>5. WireInv'
  BY <1>2 DEF WireInv, Layered
<1>6. ASSUME open PROVE ViewsInv' /\ Agree' /\ WritingInv'
  <2>1. /\ peer.writing /\ acks = <<>> /\ Informed = peer
        /\ Len(peer.asked) = 1 /\ Head(peer.asked).cmd = "DATA" /\ peer.mail = session.mail
        /\ messages[peer.mail.id].ended <=> mode # "data" \/ Last(wire).cmd = "DOT"
    BY <1>6, InText
  <2>2. ViewsInv'
    BY <1>1, <1>3, <1>6 DEF ViewsInv, ViewInv, View, Layered
  <2>3. WritingInv'
    BY <1>1, <1>3, <1>6, <2>1 DEF WritingInv
  <2>4. Informed' = Informed
    BY <1>3 DEF Informed
  <2>5. Agree'
    BY <1>1, <1>2, <1>3, <1>6, <2>4 DEF Agree, AnswersInOrder, Layered
  <2> QED BY <2>2, <2>3, <2>5
<1> QED BY <1>1, <1>3, <1>4, <1>5, <1>6, TypeParts DEF DialogueInv

LEMMA ExtendedType ==
    ASSUME NEW b \in [lines : Seq(1 .. MaxText), tooLarge : BOOLEAN], Len(b.lines) <= MaxBody,
           NEW line, IsText(line), line.cmd # "DOT"
    PROVE  /\ Extended(b, line) \in [lines : Seq(1 .. MaxText), tooLarge : BOOLEAN]
           /\ Len(Extended(b, line).lines) <= MaxBody
           /\ \/ Extended(b, line).tooLarge /\ Extended(b, line).lines = b.lines
              \/ /\ ~Extended(b, line).tooLarge /\ ~b.tooLarge /\ line.cmd = "TEXT"
                 /\ Extended(b, line).lines = Append(b.lines, line.arg)
<1> DEFINE cut == [b EXCEPT !.tooLarge = TRUE]
           more == [b EXCEPT !.lines = Append(@, line.arg)]
<1>1. cut \in [lines : Seq(1 .. MaxText), tooLarge : BOOLEAN] /\ cut.lines = b.lines /\ cut.tooLarge
  OBVIOUS
<1>2. CASE b.tooLarge \/ line.cmd = "LONG" \/ Len(b.lines) >= MaxBody
  <2>1. Extended(b, line) = cut
    BY <1>2 DEF Extended
  <2> HIDE DEF cut
  <2> QED BY <1>1, <2>1
<1>3. CASE ~(b.tooLarge \/ line.cmd = "LONG" \/ Len(b.lines) >= MaxBody)
  <2>1. Extended(b, line) = more
    BY <1>3 DEF Extended
  <2>2. line.arg \in 1 .. MaxText /\ line.cmd = "TEXT" /\ b.lines \in Seq(1 .. MaxText)
    BY <1>3 DEF IsText
  <2>3. /\ Append(b.lines, line.arg) \in Seq(1 .. MaxText)
        /\ Len(Append(b.lines, line.arg)) = Len(b.lines) + 1 /\ Len(b.lines) \in Nat
    BY <2>2
  <2>4. /\ more \in [lines : Seq(1 .. MaxText), tooLarge : BOOLEAN]
        /\ more.lines = Append(b.lines, line.arg) /\ more.tooLarge = b.tooLarge
    BY <2>3
  <2>5. Len(b.lines) + 1 <= MaxBody
    BY <1>3, <2>3, BoundsAssumption
  <2> HIDE DEF more
  <2> QED BY <1>3, <2>1, <2>2, <2>3, <2>4, <2>5
<1> QED BY <1>2, <1>3

LEMMA DialogueTextLine ==
    ASSUME DialogueInv, TextLine
    PROVE  DialogueInv'
<1>1. /\ phase # "closed" /\ mode = "data" /\ wire # <<>> /\ Head(wire).cmd # "DOT"
      /\ body' = Extended(body, Head(wire)) /\ wire' = Tail(wire)
      /\ UNCHANGED <<phase, mode, session, job, store, acks, client, faults>>
  BY DEF TextLine
<1>2. /\ WireInv /\ SessionInv /\ ServerType /\ StoreType /\ TrafficType /\ wire \in Seq(Lines)
      /\ faults \in 0 .. MaxFaults
  BY DialogueTypes, TypeParts DEF DialogueInv, TrafficType
<1>3. TextLines(wire)
  BY <1>1, <1>2 DEF WireInv
<1>4. /\ TextLines(Tail(wire)) /\ IsText(Head(wire)) /\ Tail(wire) \in Seq(Lines)
      /\ Last(wire).cmd = "DOT" <=> Tail(wire) # <<>> /\ Last(Tail(wire)).cmd = "DOT"
  BY <1>1, <1>2, <1>3, TextHead
<1>5. body' \in [lines : Seq(1 .. MaxText), tooLarge : BOOLEAN] /\ Len(body'.lines) <= MaxBody
  BY <1>1, <1>2, <1>4, ExtendedType DEF ServerType
<1>6. ServerType' /\ StoreType'
  BY <1>1, <1>2, <1>5 DEF ServerType, StoreType
<1>7. SessionInv'
  BY <1>1, <1>2 DEF SessionInv, client
<1> QED BY <1>1, <1>2, <1>4, <1>6, <1>7, TextGoesOn

LEMMA DialogueBody ==
    ASSUME DialogueInv, Body
    PROVE  DialogueInv'
<1>1. /\ phase # "closed" /\ mode = "data" /\ ~body.tooLarge /\ mode' = "deliver"
      /\ wire = <<>> => ~open /\ wire' = <<>>
      /\ wire # <<>> => Head(wire).cmd = "DOT" /\ wire' = Tail(wire)
      /\ UNCHANGED <<phase, session, body, job, store, acks, client, faults>>
  BY DEF Body, TextEnded, RestOfWire
<1>2. /\ WireInv /\ SessionInv /\ ServerType /\ StoreType /\ TrafficType /\ wire \in Seq(Lines)
      /\ faults \in 0 .. MaxFaults
  BY DialogueTypes, TypeParts DEF DialogueInv, TrafficType
<1>3. wire # <<>> => Tail(wire) = <<>> /\ Last(wire).cmd = "DOT"
  BY <1>1, <1>2, TextHead DEF WireInv
<1>4. wire' = <<>>
  BY <1>1, <1>3
<1>5. ServerType' /\ StoreType'
  BY <1>1, <1>2 DEF ServerType, StoreType
<1>6. SessionInv'
  BY <1>1, <1>2 DEF SessionInv, client
<1> QED BY <1>1, <1>2, <1>3, <1>4, <1>5, <1>6, TextGoesOn

LEMMA DialogueDeliver ==
    ASSUME DialogueInv, Deliver \/ DeliverFails
    PROVE  DialogueInv'
<1>1. /\ phase # "closed" /\ mode = "deliver" /\ job.next <= Len(session.recipients)
      /\ \/ job' = [job EXCEPT !.next = @ + 1, !.delivered = @ + 1]
         \/ job' = [job EXCEPT !.next = @ + 1, !.failed = @ + 1]
      /\ \/ store' = store
         \/ \E answered \in BOOLEAN : store' = store \cup {Copy(job.next, answered)}
      /\ faults' = faults \/ (faults < MaxFaults /\ faults' = faults + 1)
      /\ UNCHANGED <<phase, mode, session, body, wire, acks, client>>
  BY DEF Deliver, DeliverFails
<1>2. /\ WireInv /\ SessionInv /\ ServerType /\ StoreType /\ TrafficType /\ wire \in Seq(Lines)
  BY DialogueTypes, TypeParts DEF DialogueInv
<1>3. faults' \in 0 .. MaxFaults
  BY <1>1, <1>2, BoundsAssumption DEF TrafficType
<1>4. wire = <<>>
  BY <1>1, <1>2 DEF WireInv
<1>5. job' \in [next : Nat, delivered : Nat, failed : Nat] /\ job'.next # 0
  <2>1. job \in [next : Nat, delivered : Nat, failed : Nat]
    BY <1>2 DEF ServerType
  <2>4. /\ job.next + 1 \in Nat /\ job.next + 1 # 0 /\ job.delivered + 1 \in Nat
        /\ job.failed + 1 \in Nat
    BY <2>1
  <2>5. ASSUME NEW x \in Nat, NEW y \in Nat
        PROVE  /\ [job EXCEPT !.next = x, !.delivered = y] \in [next : Nat, delivered : Nat, failed : Nat]
               /\ [job EXCEPT !.next = x, !.failed = y] \in [next : Nat, delivered : Nat, failed : Nat]
               /\ [job EXCEPT !.next = x, !.delivered = y].next = x
               /\ [job EXCEPT !.next = x, !.failed = y].next = x
    BY <2>1
  <2>2. CASE job' = [job EXCEPT !.next = job.next + 1, !.delivered = job.delivered + 1]
    BY <2>2, <2>4, <2>5
  <2>3. CASE job' = [job EXCEPT !.next = job.next + 1, !.failed = job.failed + 1]
    BY <2>3, <2>4, <2>5
  <2> QED BY <1>1, <2>2, <2>3
<1>6. ServerType'
  BY <1>1, <1>2, <1>5 DEF ServerType
<1>7. SessionInv'
  BY <1>1, <1>2, <1>5 DEF SessionInv, client
<1>8. ASSUME NEW answered \in BOOLEAN
      PROVE  Copy(job.next, answered) \in [mail : Mails, nth : 1 .. MaxRecipients, to : Principals,
                lines : Seq(1 .. MaxText), tls : BOOLEAN, answered : BOOLEAN]
  <2>1. job.next \in 1 .. MaxRecipients /\ job.next \in 1 .. Len(session.recipients)
    <3>1. job.next \in Nat /\ job.next # 0 /\ session.recipients \in Seq(Recipients)
          /\ Len(session.recipients) <= MaxRecipients
      BY <1>2 DEF ServerType, SessionInv, Sessions
    <3>2. Len(session.recipients) \in Nat /\ MaxRecipients \in Nat
      BY <3>1, BoundsAssumption
    <3> QED BY <1>1, <3>1, <3>2
  <2>2. Resolve[session.recipients[job.next].addr] \in Principals
    BY <1>2, <2>1 DEF SessionInv
  <2>3. session.mail.id \in Mails /\ body.lines \in Seq(1 .. MaxText)
    BY <1>2 DEF ServerType, Sessions
  <2> DEFINE tls == phase = "tls"
  <2>4. tls \in BOOLEAN
    OBVIOUS
  <2> HIDE DEF tls
  <2>5. Copy(job.next, answered) =
            [mail |-> session.mail.id, nth |-> job.next,
             to |-> Resolve[session.recipients[job.next].addr],
             lines |-> body.lines, tls |-> tls, answered |-> answered]
    BY Zenon DEF Copy, tls
  <2> QED BY <2>1, <2>2, <2>3, <2>4, <2>5
<1>9. StoreType'
  <2> DEFINE c(answered) == Copy(job.next, answered)
             T == [mail : Mails, nth : 1 .. MaxRecipients, to : Principals,
                   lines : Seq(1 .. MaxText), tls : BOOLEAN, answered : BOOLEAN]
  <2>1. \A answered \in BOOLEAN : c(answered) \in T
    BY <1>8
  <2> HIDE DEF c, T
  <2>2. store \subseteq T
    BY <1>2 DEF StoreType, T
  <2>3. store' = store \/ \E answered \in BOOLEAN : store' = store \cup {c(answered)}
    BY <1>1 DEF c
  <2>4. store' \subseteq T
    BY <2>1, <2>2, <2>3
  <2> QED BY <2>4 DEF StoreType, T
<1>10. wire' = <<>> /\ wire' \in Seq(Lines)
  BY <1>1, <1>2, <1>4
<1> QED BY <1>1, <1>2, <1>3, <1>6, <1>7, <1>9, <1>10, TextGoesOn

\* The message is answered, and the transaction over.
Concludes(code) ==
    /\ acks' = Append(acks, code) /\ wire' = <<>> /\ session' = NoSession /\ body' = NoBody
    /\ job' = NoJob /\ mode' = "command"
    /\ UNCHANGED <<phase, store, client, faults>>

Verdicts == {"250", "250 partial", "451", "552"}

LEMMA Verdict ==
    ASSUME DialogueInv, mode # "command", mode = "data" => (wire # <<>> /\ Last(wire).cmd = "DOT") \/ ~open,
           NEW code \in Verdicts, Concludes(code)
    PROVE  /\ DialogueInv'
           /\ open => /\ peer.writing /\ acks = <<>> /\ Informed = peer /\ peer.mail = session.mail
                      /\ messages[peer.mail.id].ended /\ peer.recipients = session.recipients
                      /\ Len(acks') = 1 /\ acks'[1] = code /\ View(0)' = peer
                      /\ \A i : i = 1 => View(i)' = Informed'
                      /\ Knows(Informed', peer.layer, <<>>, NoMail, <<>>, FALSE)
<1>1. /\ TypeOK /\ PeerOK(peer, mails) /\ WireInv /\ SessionInv /\ (open => ViewsInv /\ Agree /\ WritingInv)
      /\ ServerType /\ StoreType /\ ClientType /\ TrafficType /\ mails \in Nat /\ mails \in Mails
      /\ acks \in Seq(Codes) /\ code \in Codes /\ mode \in {"command", "data", "deliver"}
      /\ Views(peer, acks)[0] = peer /\ View(0) = peer /\ peer \in PeerType /\ Len(acks) \in Nat
  BY DialogueTypes, TypeParts DEF DialogueInv, Codes, Verdicts
<1>3. /\ wire' = <<>> /\ session' = NoSession /\ body' = NoBody /\ job' = NoJob /\ mode' = "command"
      /\ UNCHANGED <<phase, store, faults>>
  BY DEF Concludes
<1>2. Layered /\ Layered'
  BY <1>1, <1>3 DEF WireInv, Layered
<1>4. UNCHANGED <<open, peer, mails, messages, verdict, asides>>
  BY DEF client, Concludes
<1>11. acks' = Append(acks, code) /\ acks' \in Seq(Codes)
  BY <1>1 DEF Concludes
<1>5. SessionOK(NoSession, mails) /\ NoSession.mail = NoMail /\ NoSession.recipients = <<>>
  BY <1>1, NoSessionOK
<1>6. ServerType'
  <2>1. NoJob \in [next : Nat, delivered : Nat, failed : Nat]
    BY DEF NoJob
  <2>2. NoBody \in [lines : Seq(1 .. MaxText), tooLarge : BOOLEAN] /\ Len(NoBody.lines) <= MaxBody
    BY BoundsAssumption DEF NoBody
  <2> QED BY <1>1, <1>3, <1>5, <2>1, <2>2 DEF ServerType, SessionOK
<1>7. StoreType' /\ ClientType' /\ TrafficType' /\ PeerOK(peer, mails)'
  BY <1>1, <1>3, <1>4, <1>11 DEF StoreType, ClientType, TrafficType
<1>8. WireInv'
  BY <1>2, <1>3 DEF WireInv, CommandLines, Layered
<1>9. SessionInv'
  <2>1. NoJob.next # 0
    BY DEF NoJob
  <2> QED BY <1>3, <1>4, <1>5, <2>1 DEF SessionInv, SessionOK
<1>10. ASSUME open
       PROVE  /\ ViewsInv' /\ Agree' /\ WritingInv'
              /\ peer.writing /\ acks = <<>> /\ Informed = peer /\ peer.mail = session.mail
              /\ messages[peer.mail.id].ended /\ peer.recipients = session.recipients
              /\ Len(acks') = 1 /\ acks'[1] = code /\ View(0)' = peer
              /\ \A i : i = 1 => View(i)' = Informed'
              /\ Knows(Informed', peer.layer, <<>>, NoMail, <<>>, FALSE)
  <2> DEFINE new == Learn(peer, code)
  <2>1. /\ peer.writing /\ acks = <<>> /\ Informed = peer
        /\ Len(peer.asked) = 1 /\ Head(peer.asked).cmd = "DATA" /\ peer.mail = session.mail
        /\ peer.recipients = session.recipients
        /\ messages[peer.mail.id].ended
    BY <1>10, InText
  <2>2. Len(acks) = 0 /\ Len(acks') = 1 /\ acks'[1] = code /\ 0 + 1 = 1
    BY <1>1, <1>11, <2>1
  <2>3. Views(peer', acks')[0] = peer /\ Views(peer', acks')[1] = new
    <3>1. 0 \in 0 .. 0
      OBVIOUS
    <3>2. /\ \A i \in 0 .. Len(acks) : Views(peer, Append(acks, code))[i] = Views(peer, acks)[i]
          /\ Views(peer, Append(acks, code))[Len(acks) + 1] = Learn(Views(peer, acks)[Len(acks)], code)
      BY <1>1, ViewsReply
    <3> QED BY <1>1, <1>4, <1>11, <2>2, <3>1, <3>2
  <2>4. Informed' = new /\ View(0)' = peer /\ \A i : i = 1 => View(i)' = new
    BY <2>2, <2>3 DEF Informed, View
  <2>5. Tail(peer.asked) = <<>> /\ peer.asked # <<>>
    <3>1. peer.asked \in Seq(Lines)
      BY <1>1 DEF PeerType
    <3>2. Tail(peer.asked) \in Seq(Lines) /\ Len(Tail(peer.asked)) = 0 /\ peer.asked # <<>>
      BY <2>1, <3>1
    <3> QED BY <3>2, EmptySeq
  <2>6. Knows(new, peer.layer, <<>>, NoMail, <<>>, FALSE)
    <3>1. EndsMail(Head(peer.asked), code)
      BY <2>1 DEF EndsMail, Verdicts
    <3> QED BY <1>1, <2>5, <3>1, LearnOver
  <2>7. PeerOK(new, mails)
    BY <1>1, <2>5, LearnOK
  <2> HIDE DEF new
  <2>8. ViewInv(0)
    BY <1>1, <1>10, <2>2 DEF ViewsInv
  <2>9. peer.layer = phase
    BY <1>1, <1>2, <2>8 DEF ViewInv
  <2>10. ViewsInv'
    <3> SUFFICES ASSUME NEW i \in 0 .. Len(acks'), NEW v, v = View(i)' PROVE ViewInv(i)'
      BY DEF ViewsInv
    <3>1. CASE i = 0
      <4>1. v = peer
        BY <2>4, <3>1
      <4>2. PeerOK(v, mails') /\ v.asked # <<>> /\ v.layer = phase' /\ Len(v.asked) = 1
            /\ Head(v.asked).cmd = "DATA"
        BY <1>1, <1>3, <1>4, <2>1, <2>5, <2>9, <4>1
      <4>3. v.mail.id # 0
        BY <1>1, <2>1, <4>1 DEF SessionInv
      <4> QED BY <3>1, <4>2, <4>3 DEF ViewInv
    <3>2. CASE i = 1
      <4>1. v = new
        BY <2>4, <3>2
      <4>2. PeerOK(v, mails') /\ ~v.writing /\ v.layer = phase' /\ ~(i < Len(acks'))
        BY <1>3, <1>4, <2>2, <2>6, <2>7, <2>9, <3>2, <4>1 DEF Knows
      <4> QED BY <4>2 DEF ViewInv
    <3> QED BY <2>2, <3>1, <3>2
  <2>11. Agree'
    <3>1. /\ new.mail = session'.mail /\ new.recipients = session'.recipients
          /\ ~new.writing /\ new.asked = <<>> /\ phase' # "handshake"
      BY <1>2, <1>3, <1>5, <2>6 DEF Knows, Layered
    <3> QED BY <1>3, <2>4, <3>1, AgreeIntro
  <2>12. WritingInv'
    BY <1>3, <1>4, <2>1, <2>2 DEF WritingInv, Verdicts
  <2> QED BY <2>1, <2>2, <2>4, <2>6, <2>10, <2>11, <2>12
<1> QED BY <1>4, <1>6, <1>7, <1>8, <1>9, <1>10, TypeParts DEF DialogueInv

LEMMA DialogueTooLarge ==
    ASSUME DialogueInv, TooLarge
    PROVE  DialogueInv'
<1>1. /\ mode = "data" /\ mode' = "command" /\ session' = NoSession /\ body' = NoBody
      /\ acks' = Append(acks, "552")
      /\ wire = <<>> => ~open /\ wire' = <<>>
      /\ wire # <<>> => Head(wire).cmd = "DOT" /\ wire' = Tail(wire)
      /\ UNCHANGED <<phase, job, store, client, faults>>
  BY DEF TooLarge, TextEnded, RestOfWire, Reply, AfterData
<1>2. WireInv /\ SessionInv /\ wire \in Seq(Lines)
  BY DialogueTypes DEF DialogueInv
<1>3. wire # <<>> => Tail(wire) = <<>> /\ Last(wire).cmd = "DOT"
  BY <1>1, <1>2, TextHead DEF WireInv
<1>4. wire' = <<>> /\ job' = NoJob
  BY <1>1, <1>2, <1>3 DEF SessionInv
<1>5. Concludes("552") /\ "552" \in Verdicts
  BY <1>1, <1>4 DEF Concludes, Verdicts
<1> QED BY <1>1, <1>3, <1>5, Verdict

LEMMA DialogueDelivered ==
    ASSUME DialogueInv, Delivered
    PROVE  DialogueInv'
<1>1. /\ mode = "deliver" /\ mode' = "command" /\ session' = NoSession /\ body' = NoBody /\ job' = NoJob
      /\ acks' = Append(acks, Outcome(job)) /\ UNCHANGED <<phase, store, wire, client, faults>>
  BY DEF Delivered, Reply, AfterData
<1>2. Outcome(job) \in Verdicts
  BY DEF Outcome, Verdicts
<1>3. wire' = <<>>
  BY <1>1 DEF DialogueInv, WireInv
<1>4. Concludes(Outcome(job))
  BY <1>1, <1>3 DEF Concludes
<1> QED BY <1>1, <1>2, <1>4, Verdict

----------------------------------------------------------------------------
(* The dialogue *)

LEMMA DialogueInit ==
    ASSUME Init
    PROVE  DialogueInv
<1>1. /\ phase = "clear" /\ mode = "command"
      /\ session = NoSession /\ body = NoBody /\ job = NoJob
      /\ store = {} /\ wire = <<>> /\ acks = <<>> /\ open = TRUE
      /\ mails = 0 /\ asides = 0 /\ faults = 0
      /\ messages = [id \in Mails |-> NoMessage] /\ verdict = [id \in Mails |-> "none"]
      /\ peer = [layer |-> "clear", asked |-> <<>>, mail |-> NoMail, recipients |-> <<>>,
                 writing |-> FALSE]
  BY DEF Init
<1>2. Knows(peer, "clear", <<>>, NoMail, <<>>, FALSE)
  BY <1>1 DEF Knows
<1>3. NoMail \in [id : Mails, tls : BOOLEAN] /\ mails \in Mails /\ mails \in Nat
  BY <1>1, BoundsAssumption DEF NoMail, Mails
<1>4. peer \in PeerType
  <2> HIDE DEF NoMail
  <2> QED BY <1>1, <1>3 DEF PeerType
<1>5. SessionOK(NoSession, mails) /\ NoSession.mail = NoMail /\ NoSession.recipients = <<>>
  BY <1>3, NoSessionOK
<1>6. ServerType
  <2>1. NoJob \in [next : Nat, delivered : Nat, failed : Nat]
    BY DEF NoJob
  <2>2. NoBody \in [lines : Seq(1 .. MaxText), tooLarge : BOOLEAN] /\ Len(NoBody.lines) <= MaxBody
    BY BoundsAssumption DEF NoBody
  <2> QED BY <1>1, <1>5, <2>1, <2>2 DEF ServerType, SessionOK
<1>7. StoreType /\ TrafficType
  BY <1>1, BoundsAssumption DEF StoreType, TrafficType
<1>8. ClientType
  <2>1. NoMessage \in MessageType
    BY BoundsAssumption DEF NoMessage, MessageType
  <2> QED BY <1>1, <1>3, <1>4, <2>1, BoundsAssumption DEF ClientType, MessageType
<1>9. PeerOK(peer, mails)
  <2>1. NoMail.id \in 0 .. mails
    BY <1>3 DEF NoMail
  <2> QED BY <1>2, <1>4, <2>1 DEF PeerOK, Knows, CommandLines
<1>10. WireInv
  BY <1>1 DEF WireInv, CommandLines, Layered
<1>11. SessionInv
  <2>1. NoJob.next # 0
    BY DEF NoJob
  <2> QED BY <1>1, <1>5, <2>1 DEF SessionInv, SessionOK
<1>12. View(0) = peer /\ Informed = peer /\ Len(acks) = 0
  <2>1. acks \in Seq(Codes) /\ Len(acks) = 0
    BY <1>1
  <2>2. Views(peer, acks)[0] = peer
    BY <2>1, ViewsFacts
  <2> QED BY <2>1, <2>2 DEF View, Informed
<1>13. ViewsInv
  <2> SUFFICES ASSUME NEW i \in 0 .. Len(acks) PROVE ViewInv(i)
    BY DEF ViewsInv
  <2>1. i = 0 /\ View(i) = peer
    BY <1>12
  <2>2. ~(i < Len(acks)) /\ peer.layer = phase /\ ~peer.writing
    BY <1>1, <1>2, <1>12, <2>1 DEF Knows
  <2> QED BY <1>9, <2>1, <2>2 DEF ViewInv
<1>14. Agree
  BY <1>1, <1>2, <1>5, <1>12 DEF Agree, AnswersInOrder, Knows
<1>15. WritingInv
  BY <1>1, <1>2 DEF WritingInv, Knows
<1> QED BY <1>6, <1>7, <1>8, <1>9, <1>10, <1>11, <1>13, <1>14, <1>15, TypeParts DEF DialogueInv

LEMMA DialogueStutter ==
    ASSUME DialogueInv, UNCHANGED vars
    PROVE  DialogueInv'
<1>1. UNCHANGED <<phase, mode, session, body, job, store, wire, acks, open, peer, mails, messages,
                  verdict, asides, faults>>
  BY DEF vars, server, client
<1>2. TypeOK'
  <2>1. ServerType /\ StoreType /\ ClientType /\ TrafficType
    BY TypeParts DEF DialogueInv
  <2>2. ServerType' /\ StoreType' /\ ClientType' /\ TrafficType'
    BY <1>1, <2>1 DEF ServerType, StoreType, ClientType, TrafficType
  <2> QED BY <2>2, TypeParts
<1>3. Informed' = Informed /\ \A i : View(i)' = View(i)
  BY <1>1 DEF Informed, View
<1>4. PeerOK(peer, mails)' /\ WireInv' /\ SessionInv'
  BY <1>1 DEF DialogueInv, WireInv, SessionInv, Layered
<1>5. ASSUME open PROVE ViewsInv' /\ Agree' /\ WritingInv'
  <2>1. ViewsInv /\ Agree /\ WritingInv
    BY <1>5 DEF DialogueInv
  <2>2. ViewsInv'
    BY <1>1, <2>1 DEF ViewsInv, ViewInv, View, Layered
  <2>3. Agree'
    BY <1>1, <1>3, <2>1 DEF Agree, AnswersInOrder, Layered
  <2>4. WritingInv'
    BY <1>1, <2>1 DEF WritingInv
  <2> QED BY <2>2, <2>3, <2>4
<1> QED BY <1>1, <1>2, <1>4, <1>5 DEF DialogueInv

LEMMA DialogueStep ==
    ASSUME DialogueInv, [Next]_vars
    PROVE  DialogueInv'
<1>1. CASE \/ SendMail \/ \E a \in Addrs : SendRcpt(a)
           \/ SendData \/ SendQuit \/ \E cmd \in Asides : SendAside(cmd)
  BY <1>1, DialogueAsks
<1>2. CASE \/ \E cmd \in {"TEXT", "LONG"} : SendText(cmd)
           \/ SendDot
  BY <1>2, DialogueTexts
<1>3. CASE Receive
  BY <1>3, DialogueReceive
<1>4. CASE Disconnect
  BY <1>4, DialogueDisconnect
<1>5. CASE Aside \/ StartTls \/ MailFrom \/ RcptTo \/ Data \/ Rset \/ Quit
  BY <1>5, DialogueAside, DialogueStartTls, DialogueMailFrom, DialogueRcptTo, DialogueData,
     DialogueRset, DialogueQuit
<1>6. CASE Eof \/ HandshakeFails \/ ConnectionLost \/ Crash
  BY <1>6, DialogueEnd
<1>7. CASE Handshake
  BY <1>7, DialogueHandshake
<1>8. CASE TextLine \/ TooLarge \/ Body \/ Deliver \/ DeliverFails \/ Delivered
  BY <1>8, DialogueTextLine, DialogueTooLarge, DialogueBody, DialogueDeliver, DialogueDelivered
<1>9. CASE UNCHANGED vars
  BY <1>9, DialogueStutter
<1> QED BY <1>1, <1>2, <1>3, <1>4, <1>5, <1>6, <1>7, <1>8, <1>9, Zenon DEF Next, Serve

\* The dialogue keeps its invariant.
THEOREM DialogueInvariance == Spec => []DialogueInv
<1>1. Init => DialogueInv
  BY DialogueInit
<1>2. DialogueInv /\ [Next]_vars => DialogueInv'
  BY DialogueStep
<1> QED BY <1>1, <1>2, PTL DEF Spec

\* Every variable keeps its type: mxd never has more recipients or lines than its
\* bounds allow (MAX_RECIPIENTS, max_data_bytes).
THEOREM TypeCorrectness == Spec => []TypeOK
<1>1. DialogueInv => TypeOK
  BY DEF DialogueInv
<1> QED BY <1>1, DialogueInvariance, PTL

\* The peer, told by the answers alone, and mxd agree about the transaction and the
\* commands to answer, however far ahead the peer sends (run_command_loop).
THEOREM PeersAgree == Spec => []ViewsAgree
<1>1. DialogueInv => ViewsAgree
  <2> SUFFICES ASSUME DialogueInv, open, Layered
               PROVE  /\ Informed.mail = session.mail
                      /\ Informed.recipients = session.recipients
                      /\ Informed.writing = (mode # "command")
                      /\ AnswersInOrder
    BY DEF ViewsAgree, Layered
  <2>1. /\ Informed.mail = session.mail /\ Informed.recipients = session.recipients
        /\ Informed.writing <=> mode # "command"
        /\ AnswersInOrder
    BY DEF DialogueInv, Agree
  <2>2. Informed.writing \in BOOLEAN
    <3>1. Len(acks) \in 0 .. Len(acks) /\ Informed = View(Len(acks)) /\ ViewsInv
      BY DialogueTypes DEF DialogueInv
    <3>2. PeerOK(Informed, mails)
      BY <3>1 DEF ViewsInv, ViewInv
    <3> QED BY <3>2 DEF PeerOK, PeerType
  <2> QED BY <2>1, <2>2, Zenon
<1> QED BY <1>1, DialogueInvariance, PTL

----------------------------------------------------------------------------
(* Texts, copies and verdicts: what the peer does *)

\* The types the history and the copies have.
LEMMA MessageTypes ==
    ASSUME DialogueInv
    PROVE  /\ messages \in [Mails -> MessageType] /\ verdict \in [Mails -> Codes \cup {"none"}]
           /\ peer.mail.id \in Mails /\ session.mail.id \in Mails /\ 0 \in Mails /\ Mails \subseteq Nat
           /\ session.mail.id <= mails /\ peer.mail.id <= mails /\ mails \in Mails /\ mails \in Nat
           /\ \A c \in store : c.mail \in Mails /\ c.nth \in 1 .. MaxRecipients
           /\ body.lines \in Seq(1 .. MaxText) /\ Len(body.lines) \in Nat
           /\ session.recipients \in Seq(Recipients) /\ Len(session.recipients) \in Nat
           /\ acks \in Seq(Codes) /\ Len(acks) \in Nat /\ wire \in Seq(Lines) /\ Len(wire) \in Nat
           /\ View(0) = peer /\ Informed = View(Len(acks)) /\ peer \in PeerType
<1>1. /\ ServerType /\ StoreType /\ ClientType /\ TrafficType /\ TypeOK /\ PeerOK(peer, mails) /\ SessionInv
      /\ mails \in Mails /\ mails \in Nat /\ Mails \subseteq Nat
      /\ View(0) = peer /\ Informed = View(Len(acks)) /\ peer \in PeerType
  BY TypeParts, DialogueTypes DEF DialogueInv
<1>2. messages \in [Mails -> MessageType] /\ verdict \in [Mails -> Codes \cup {"none"}]
  BY <1>1 DEF ClientType, MessageType
<1>3. peer.mail.id \in Mails /\ session.mail.id \in Mails /\ 0 \in Mails
  BY <1>1, BoundsAssumption DEF PeerType, ServerType, Sessions, Mails
<1>4. session.mail.id <= mails /\ peer.mail.id <= mails
  BY <1>1, <1>3 DEF SessionInv, PeerOK
<1>5. \A c \in store : c.mail \in Mails /\ c.nth \in 1 .. MaxRecipients
  BY <1>1 DEF StoreType
<1>6. body.lines \in Seq(1 .. MaxText) /\ session.recipients \in Seq(Recipients)
  BY <1>1 DEF ServerType, Sessions
<1>7. acks \in Seq(Codes) /\ wire \in Seq(Lines)
  BY <1>1 DEF TrafficType
<1>8. Len(body.lines) \in Nat /\ Len(session.recipients) \in Nat /\ Len(acks) \in Nat /\ Len(wire) \in Nat
  BY <1>6, <1>7
<1> QED BY <1>1, <1>2, <1>3, <1>4, <1>5, <1>6, <1>7, <1>8

\* A MAIL command more is a transaction more the peer has before it.
LEMMA FreshAsking ==
    ASSUME NEW m \in Mails, NEW v, PeerOK(v, m), Plain(v.asked), NEW line, WellFormed(line, m),
           NEW ms, NEW vs, NEW st, FreshView(v, ms, vs, st), ~v.writing,
           line.cmd = "MAIL" => Unused(line.arg, ms, vs, st)
    PROVE  FreshView(Asking(v, line), ms, vs, st)
<1> DEFINE w == Asking(v, line)
<1>1. /\ w.mail = v.mail
      /\ v.layer # "hello" => w.asked = Append(v.asked, line)
      /\ v.layer = "hello" => w = v
      /\ v.asked \in Seq(Lines) /\ line \in Lines
  BY AskingOK DEF PeerOK, PeerType, WellFormed
<1> HIDE DEF w
<1>2. w.mail.id # 0 => Unused(w.mail.id, ms, vs, st)
  BY <1>1 DEF FreshView
<1>3. CASE v.layer = "hello"
  BY <1>1, <1>3 DEF w
<1>4. CASE v.layer # "hello"
  <2>1. /\ Len(w.asked) = Len(v.asked) + 1 /\ Len(v.asked) \in Nat /\ w.asked[Len(v.asked) + 1] = line
        /\ \A j \in 1 .. Len(v.asked) : w.asked[j] = v.asked[j]
    BY <1>1, <1>4
  <2>2. ASSUME NEW j \in 1 .. Len(w.asked), w.asked[j].cmd = "MAIL"
        PROVE  Unused(w.asked[j].arg, ms, vs, st)
    <3>1. CASE j \in 1 .. Len(v.asked)
      BY <2>1, <2>2, <3>1 DEF FreshView
    <3>2. CASE j = Len(v.asked) + 1
      BY <2>1, <2>2, <3>2
    <3> QED BY <2>1, <3>1, <3>2
  <2> QED BY <1>2, <2>2 DEF FreshView, w
<1> QED BY <1>3, <1>4

\* What the peer sends is in its layer, which is that of mxd.
LEMMA LayerMore ==
    ASSUME DialogueInv, LayerInv, open, NEW line \in Lines, line.tls <=> (peer.layer = "tls"),
           wire' = Append(wire, line), UNCHANGED <<phase, session>>
    PROVE  LayerInv'
<1>1. /\ wire \in Seq(Lines) /\ Len(wire) \in Nat /\ Len(acks) \in Nat /\ View(0) = peer
  BY MessageTypes
<1> SUFFICES ASSUME Layered PROVE LayerInv'
  BY DEF LayerInv, Layered
<1>2. line.tls <=> InTls
  <2>1. ViewInv(0)
    <3>1. 0 \in 0 .. Len(acks)
      BY <1>1
    <3> QED BY <3>1 DEF DialogueInv, ViewsInv
  <2>2. peer.layer = phase
    BY <1>1, <2>1 DEF ViewInv
  <2> QED BY <2>2 DEF InTls
<1>3. /\ Len(wire') = Len(wire) + 1 /\ wire'[Len(wire) + 1] = line
      /\ \A i \in 1 .. Len(wire) : wire'[i] = wire[i]
  BY <1>1
<1>4. line.tls = InTls
  <2>1. line.tls \in BOOLEAN /\ InTls \in BOOLEAN
    BY DEF Lines, InTls
  <2> QED BY <1>2, <2>1, Zenon
<1>5. \A i \in 1 .. Len(wire') : wire'[i].tls = InTls
  <2>1. \A i \in 1 .. Len(wire) : wire[i].tls = InTls
    BY DEF LayerInv
  <2> QED BY <1>1, <1>3, <1>4, <2>1
<1> QED BY <1>5 DEF LayerInv, InTls, Layered

LEMMA MessageAsks ==
    ASSUME IInv, \/ SendMail \/ \E a \in Addrs : SendRcpt(a)
                 \/ SendData \/ SendQuit \/ \E cmd \in Asides : SendAside(cmd)
    PROVE  MessageInv'
<1>1. PICK line : AskWith(line)
  BY Asked DEF IInv, DialogueInv
<1>2. /\ DialogueInv /\ MessageInv /\ line \in Lines /\ WellFormed(line, mails') /\ MaySend /\ open
      /\ wire' = Append(wire, line) /\ peer' = [peer EXCEPT !.asked = Append(@, line)]
      /\ mails' \in Mails /\ mails <= mails'
      /\ UNCHANGED <<phase, mode, session, body, job, store, acks, open, messages, verdict>>
      /\ UNCHANGED <<server, acks, open, messages>>
      /\ line.cmd = "MAIL" => mails < mails' /\ line.arg = mails'
      /\ line.tls <=> (peer.layer = "tls")
  BY <1>1 DEF AskWith, IInv, WellFormed, server, MaySend
<1>3. /\ mode = "command" /\ ~peer.writing /\ ~peer'.writing
      /\ \A i \in 0 .. Len(acks) : View(i)' = Asking(View(i), line) /\ PeerOK(View(i), mails')
                                   /\ Plain(View(i).asked) /\ ~View(i).writing
  <2>1. /\ mode = "command" /\ ~peer.writing
        /\ \A i \in 0 .. Len(acks) : View(i)' = Asking(View(i), line) /\ PeerOK(View(i), mails')
                                     /\ Plain(View(i).asked) /\ ~View(i).writing
    BY <1>2, AskStep
  <2>2. ~peer'.writing
    BY <1>2, <2>1, MessageTypes DEF PeerType
  <2> QED BY <2>1, <2>2
<1>4. /\ mails \in Nat /\ mails' \in Nat /\ wire \in Seq(Lines) /\ Len(wire) \in Nat /\ Len(acks) \in Nat
      /\ Mails \subseteq Nat /\ View(0) = peer
  BY <1>2, MessageTypes
<1>5. line.cmd = "MAIL" => Unused(line.arg, messages, verdict, store)
  BY <1>2, <1>4 DEF MessageInv, FreshInv
<1>6. FreshInv'
  <2>1. ASSUME NEW i \in 0 .. Len(acks), NEW v, v = View(i)
        PROVE  FreshView(Asking(v, line), messages, verdict, store)
    <3>1. PeerOK(v, mails') /\ Plain(v.asked) /\ ~v.writing /\ FreshView(v, messages, verdict, store)
      BY <1>2, <1>3, <2>1 DEF MessageInv, FreshInv
    <3> QED BY <1>2, <1>5, <3>1, FreshAsking
  <2>2. \A i \in 0 .. Len(acks)' : FreshView(View(i)', messages', verdict', store')
    BY <1>2, <1>3, <2>1
  <2>3. \A id \in Mails : id > mails' => Unused(id, messages', verdict', store')
    BY <1>2, <1>4 DEF MessageInv, FreshInv
  <2> QED BY <2>2, <2>3 DEF FreshInv
<1>7. TextInv'
  BY <1>2, <1>3 DEF MessageInv, TextInv
<1>8. LayerInv'
  BY <1>2, LayerMore DEF MessageInv
<1>9. StoreInv' /\ JobInv' /\ VerdictInv' /\ Blank(0, messages, verdict)'
  <2>1. StoreInv' /\ Blank(0, messages, verdict)'
    BY <1>2 DEF MessageInv, StoreInv, CopyOK, Blank
  <2>2. JobInv'
    BY <1>2, <1>3 DEF JobInv
  <2>3. VerdictInv'
    BY <1>2, <1>3 DEF MessageInv, VerdictInv
  <2> QED BY <2>1, <2>2, <2>3
<1> QED BY <1>2, <1>6, <1>7, <1>8, <1>9 DEF MessageInv

\* A line more of the text, read or not, is a line more of the message.
LEMMA SentMore ==
    ASSUME NEW m, NEW new, NEW b, NEW w \in Seq(Lines), NEW line \in Lines, TextSent(m, b, w, TRUE),
           Len(b.lines) \in Nat, m.lines \in Nat, ~(w # <<>> /\ Last(w).cmd = "DOT"),
           \/ line.cmd = "DOT" /\ new.ended /\ new.lines = m.lines
           \/ line.cmd # "DOT" /\ line.arg = m.lines + 1 /\ new.lines = m.lines + 1
    PROVE  TextSent(new, b, Append(w, line), TRUE)
<1> DEFINE n == Len(b.lines)
           more == Append(w, line)
<1>1. /\ Len(more) = Len(w) + 1 /\ Len(w) \in Nat /\ more # <<>> /\ more[Len(w) + 1] = line
      /\ \A i \in 1 .. Len(w) : more[i] = w[i]
      /\ n \in Nat
  OBVIOUS
<1> HIDE DEF n, more
<1>2. /\ \A i \in 1 .. Len(w) : w[i].cmd # "DOT" => w[i].arg = n + i
      /\ m.lines = n + Len(w)
  BY DEF TextSent, n
<1>3. \A i \in 1 .. Len(more) : more[i].cmd # "DOT" => more[i].arg = n + i
  <2> SUFFICES ASSUME NEW i \in 1 .. Len(more), more[i].cmd # "DOT" PROVE more[i].arg = n + i
    OBVIOUS
  <2>1. CASE i \in 1 .. Len(w)
    BY <1>1, <1>2, <2>1
  <2>2. CASE i = Len(w) + 1
    BY <1>1, <1>2, <2>2
  <2> QED BY <1>1, <2>1, <2>2
<1>4. Last(more) = line
  BY <1>1 DEF Last
<1>5. IF Last(more).cmd = "DOT" THEN new.ended /\ new.lines = n + Len(more) - 1
      ELSE new.lines = n + Len(more)
  BY <1>1, <1>2, <1>4
<1>6. n + Len(more) \in Nat
  BY <1>1
<1>7. new.lines >= n + Len(more) \/ Last(more).cmd = "DOT"
  BY <1>5, <1>6
<1>8. TextSent(new, b, more, TRUE)
  BY <1>1, <1>3, <1>5, <1>7 DEF TextSent, n
<1> QED BY <1>8 DEF more

LEMMA MessageTexts ==
    ASSUME IInv, \/ \E cmd \in {"TEXT", "LONG"} : SendText(cmd)
                 \/ SendDot
    PROVE  MessageInv'
<1> DEFINE id == peer.mail.id
           n == messages[id].lines
<1>1. PICK line : TextWith(line, id, n)
  BY Texts DEF IInv, DialogueInv
<1>2. /\ DialogueInv /\ MessageInv /\ line \in Lines /\ IsText(line) /\ wire' = Append(wire, line)
      /\ open /\ phase # "closed" /\ peer.writing /\ ~messages[id].ended
      /\ UNCHANGED <<server, acks, open, peer, mails>>
      /\ UNCHANGED <<phase, mode, session, body, job, acks, open, peer, mails, store, verdict>>
      /\ line.tls <=> (peer.layer = "tls")
  BY <1>1 DEF TextWith, IInv, server
<1>3. /\ messages \in [Mails -> MessageType] /\ id \in Mails /\ n \in Nat /\ n \in 0 .. MaxText
      /\ mails \in Nat /\ id <= mails /\ Mails \subseteq Nat /\ 0 \in Mails
      /\ Len(body.lines) \in Nat /\ wire \in Seq(Lines) /\ View(0) = peer /\ Informed = View(Len(acks))
      /\ Len(acks) \in Nat /\ session.mail.id \in Mails
  <2>1. messages \in [Mails -> MessageType] /\ id \in Mails
    BY <1>2, MessageTypes
  <2>2. n \in 0 .. MaxText /\ MaxText \in Nat
    BY <2>1, BoundsAssumption DEF MessageType
  <2> QED BY <1>2, <2>1, <2>2, MessageTypes
<1>4. /\ messages'[id].ended <=> line.cmd = "DOT"
      /\ \A k \in Mails : k # id => messages'[k] = messages[k]
      /\ messages'[id].recipients = messages[id].recipients /\ messages'[id].tls = messages[id].tls
      /\ \/ line.cmd = "DOT" /\ messages'[id].ended /\ messages'[id].lines = n
         \/ line.cmd # "DOT" /\ line.arg = n + 1 /\ messages'[id].lines = n + 1
  <2>1. CASE line.cmd = "DOT" /\ messages' = [messages EXCEPT ![id].ended = TRUE]
    BY <1>3, <2>1 DEF MessageType
  <2>2. CASE /\ line.cmd # "DOT" /\ line.arg = n + 1 /\ n + 1 \in 0 .. MaxText
             /\ messages' = [messages EXCEPT ![id].lines = n + 1]
    <3>1. /\ messages'[id].lines = n + 1 /\ messages'[id].ended = messages[id].ended
          /\ messages'[id].recipients = messages[id].recipients /\ messages'[id].tls = messages[id].tls
          /\ \A k \in Mails : k # id => messages'[k] = messages[k]
      BY <1>3, <2>2 DEF MessageType
    <3> QED BY <1>2, <2>2, <3>1
  <2> QED BY <1>1, <2>1, <2>2 DEF TextWith
<1> HIDE DEF id, n
<1>5. mode = "data" /\ ~(wire # <<>> /\ Last(wire).cmd = "DOT") /\ acks = <<>> /\ Len(acks) = 0
  <2>1. messages'[peer.mail.id].ended <=> line.cmd = "DOT"
    BY <1>4 DEF id
  <2>2. ~messages[peer.mail.id].ended
    BY <1>2 DEF id
  <2> QED BY <1>2, <2>1, <2>2, TextStep
<1>6. /\ Layered /\ peer.mail = session.mail /\ id = session.mail.id /\ id # 0
      /\ Len(peer.asked) = 1 /\ peer.asked[1].cmd = "DATA" /\ peer.asked \in Seq(Lines)
  <2>1. Layered /\ Agree /\ Informed = peer /\ ViewsInv
    BY <1>2, <1>3, <1>5 DEF DialogueInv, WireInv
  <2>2. ViewInv(0)
    BY <1>3, <1>5, <2>1 DEF ViewsInv
  <2>3. Len(peer.asked) = 1 /\ Head(peer.asked).cmd = "DATA" /\ peer.mail.id # 0 /\ peer \in PeerType
    BY <1>2, <1>3, <2>2 DEF ViewInv, PeerOK
  <2> QED BY <2>1, <2>3 DEF Agree, PeerType, id
<1>7. FreshInv'
  <2>1. ASSUME NEW i \in 0 .. Len(acks)' PROVE FreshView(View(i)', messages', verdict', store')
    <3>1. i = 0
      BY <1>2, <1>5, <2>1
    <3>2. View(0)' = peer
      BY <1>2, <1>3 DEF View
    <3>3. FreshView(peer, messages', verdict', store')
      BY <1>2, <1>6 DEF FreshView
    <3> QED BY <3>1, <3>2, <3>3
  <2>2. ASSUME NEW k \in Mails, k > mails' PROVE Unused(k, messages', verdict', store')
    <3>1. k # id /\ Unused(k, messages, verdict, store)
      BY <1>2, <1>3, <2>2 DEF MessageInv, FreshInv
    <3> QED BY <1>2, <1>4, <2>2, <3>1 DEF Unused, Blank
  <2> QED BY <2>1, <2>2 DEF FreshInv
<1>8. Blank(0, messages, verdict)'
  BY <1>2, <1>3, <1>4, <1>6 DEF MessageInv, Blank
<1>9. TextInv'
  <2>1. /\ ~body.tooLarge => TextSent(messages[id], body, wire, TRUE)
        /\ \A i \in 1 .. Len(body.lines) : body.lines[i] = i
        /\ verdict[session.mail.id] = "none"
        /\ messages[id].recipients = session.recipients /\ messages[id].tls = InTls
    <3>1. open = TRUE
      BY <1>2 DEF DialogueInv, TypeOK
    <3>2. TextSent(messages[id], body, wire, open) = TextSent(messages[id], body, wire, TRUE)
      BY <3>1
    <3> QED BY <1>2, <1>5, <1>6, <3>2 DEF MessageInv, TextInv
  <2>2. ~body.tooLarge => TextSent(messages'[id], body, wire', TRUE)
    <3> DEFINE m == messages[id]
               new == messages'[id]
    <3>1. /\ n = m.lines /\ m.lines \in Nat
          /\ \/ line.cmd = "DOT" /\ new.ended /\ new.lines = m.lines
             \/ line.cmd # "DOT" /\ line.arg = m.lines + 1 /\ new.lines = m.lines + 1
      BY <1>3, <1>4 DEF n
    <3> HIDE DEF m, new
    <3>2. TextSent(m, body, wire, TRUE) => TextSent(new, body, Append(wire, line), TRUE)
      BY <1>2, <1>3, <1>5, <3>1, SentMore
    <3> QED BY <1>2, <2>1, <3>2 DEF m, new
  <2>3. /\ messages'[session'.mail.id].recipients = session'.recipients
        /\ messages'[session'.mail.id].tls = InTls'
    BY <1>2, <1>4, <1>6, <2>1 DEF InTls
  <2>4. ~body'.tooLarge => TextSent(messages'[session'.mail.id], body', wire', open')
    <3>1. open' = TRUE
      BY <1>2 DEF DialogueInv, TypeOK
    <3> QED BY <1>2, <1>6, <2>2, <3>1
  <2> QED BY <1>2, <1>5, <2>1, <2>3, <2>4 DEF TextInv
<1>10. LayerInv'
  BY <1>2, LayerMore DEF MessageInv
<1>11. \A c \in store : c.mail # id
  BY <1>2, <1>5, <1>6 DEF MessageInv, JobInv, CopiesFor
<1>12. StoreInv'
  <2>1. ASSUME NEW c \in store PROVE messages'[c.mail] = messages[c.mail]
    BY <1>2, <1>4, <1>11, MessageTypes
  <2>2. ASSUME NEW c \in store PROVE CopyOK(c, messages'[c.mail], open')
    BY <1>2, <2>1 DEF MessageInv, StoreInv
  <2> QED BY <1>2, <2>2 DEF StoreInv
<1>13. JobInv'
  BY <1>2, <1>5 DEF MessageInv, JobInv
<1>14. VerdictInv'
  <2>1. verdict[id] = "none"
    BY <1>2, <1>5, <1>6 DEF MessageInv, TextInv
  <2>2. ASSUME NEW k \in Mails PROVE TrueOf(verdict'[k], CopiesFor(k, store'), messages'[k])
    <3>1. CASE k = id
      BY <1>2, <2>1, <3>1 DEF TrueOf
    <3>2. CASE k # id
      BY <1>2, <1>4, <3>2 DEF MessageInv, VerdictInv
    <3> QED BY <3>1, <3>2
  <2> QED BY <1>2, <1>5, <2>1, <2>2 DEF VerdictInv, id
<1> QED BY <1>2, <1>7, <1>8, <1>9, <1>10, <1>12, <1>13, <1>14 DEF MessageInv

\* The last word on a message: its verdict.
LEMMA MessageVerdictRead ==
    ASSUME IInv, Receive, peer.writing
    PROVE  MessageInv'
<1> DEFINE id == peer.mail.id
           code == Head(acks)
<1>1. /\ DialogueInv /\ MessageInv /\ open /\ acks # <<>> /\ peer' = Learn(peer, code)
      /\ verdict' = [verdict EXCEPT ![id] = code]
      /\ UNCHANGED <<phase, mode, session, body, job, store, wire, open, mails>>
  BY DEF IInv, Receive, server
<1>2. code \in {"250", "250 partial", "451", "552"} /\ mode = "command" /\ ~peer'.writing
  BY <1>1, ReceiveStep
<1>3. messages' = messages
  BY <1>2 DEF Receive
<1>16. Len(acks) = 1 /\ Len(acks') = 0 /\ 0 \in 0 .. Len(acks)
  <2>1. Len(acks) = 1 /\ Len(acks') = Len(acks) - 1
    BY <1>1, ReceiveStep
  <2> QED BY <2>1
<1>4. /\ verdict \in [Mails -> Codes \cup {"none"}] /\ id \in Mails /\ mails \in Nat /\ id <= mails
      /\ Mails \subseteq Nat /\ 0 \in Mails /\ View(0) = peer /\ peer \in PeerType /\ acks \in Seq(Codes)
  BY <1>1, MessageTypes
<1>5. ViewInv(0)
  BY <1>1, <1>16 DEF DialogueInv, ViewsInv
<1>6. /\ id # 0 /\ Len(peer.asked) = 1 /\ Head(peer.asked).cmd = "DATA" /\ peer.asked \in Seq(Lines)
  BY <1>4, <1>5 DEF ViewInv, PeerType
<1>7. Knows(peer', peer.layer, <<>>, NoMail, <<>>, FALSE)
  <2>1. EndsMail(Head(peer.asked), code)
    BY <1>2, <1>6 DEF EndsMail
  <2>2. Tail(peer.asked) \in Seq(Lines) /\ Len(Tail(peer.asked)) = 0
    BY <1>6
  <2>3. Tail(peer.asked) = <<>>
    BY <2>2, EmptySeq
  <2> QED BY <1>1, <1>4, <2>1, <2>3, LearnOver
<1>8. View(0)' = peer'
  <2>1. TypeOK'
    BY <1>1, ReceiveType DEF DialogueInv
  <2>2. acks' \in Seq(Codes)
    BY <1>1, <2>1 DEF TypeOK
  <2>3. Views(peer', acks')[0] = peer'
    BY <2>2, ViewsFacts
  <2> QED BY <2>3 DEF View
<1>9. \A k \in Mails : k # id => verdict'[k] = verdict[k]
  BY <1>1, <1>4
<1>10. verdict'[id] = code
  BY <1>1, <1>4
<1>11. FreshInv'
  <2>1. ASSUME NEW i \in 0 .. Len(acks)' PROVE FreshView(View(i)', messages', verdict', store')
    <3>1. View(i)' = peer'
      <4>1. i = 0
        BY <1>16, <2>1
      <4> QED BY <1>8, <4>1
    <3>2. NoMail.id = 0
      BY DEF NoMail
    <3>3. FreshView(peer', messages', verdict', store')
      BY <1>7, <3>2 DEF FreshView, Knows
    <3> QED BY <3>1, <3>3
  <2>2. ASSUME NEW k \in Mails, k > mails' PROVE Unused(k, messages', verdict', store')
    <3>1. k # id /\ Unused(k, messages, verdict, store)
      BY <1>1, <1>4, <2>2 DEF MessageInv, FreshInv
    <3> QED BY <1>1, <1>3, <1>9, <2>2, <3>1 DEF Unused, Blank
  <2> QED BY <2>1, <2>2 DEF FreshInv
<1>12. Blank(0, messages, verdict)'
  BY <1>1, <1>3, <1>4, <1>6, <1>9 DEF MessageInv, Blank
<1>13. TextInv' /\ LayerInv' /\ JobInv'
  BY <1>1, <1>2 DEF MessageInv, TextInv, LayerInv, JobInv, Layered, InTls
<1>14. StoreInv'
  BY <1>1, <1>3 DEF MessageInv, StoreInv
<1>15. VerdictInv'
  <2>1. TrueOf(code, CopiesFor(id, store), messages[id])
    <3>1. TrueOf(acks[1], CopiesFor(peer.mail.id, store), messages[peer.mail.id])
      BY <1>1 DEF MessageInv, VerdictInv
    <3>2. code = acks[1]
      BY <1>1, <1>4
    <3> QED BY <3>1, <3>2
  <2>2. ASSUME NEW k \in Mails PROVE TrueOf(verdict'[k], CopiesFor(k, store'), messages'[k])
    <3>1. CASE k = id
      BY <1>1, <1>3, <1>10, <2>1, <3>1
    <3>2. CASE k # id
      BY <1>1, <1>3, <1>9, <3>2 DEF MessageInv, VerdictInv
    <3> QED BY <3>1, <3>2
  <2> QED BY <1>2, <2>2 DEF VerdictInv
<1> QED BY <1>1, <1>11, <1>12, <1>13, <1>14, <1>15 DEF MessageInv

\* The peer is told to send its text: its message begins.
LEMMA MessageBegins ==
    ASSUME IInv, Receive, AsksText(Head(peer.asked), Head(acks))
    PROVE  MessageInv'
<1> DEFINE id == peer.mail.id
           tls == peer.layer = "tls"
           new == [NoMessage EXCEPT !.tls = tls, !.recipients = peer.recipients]
<1>1. /\ DialogueInv /\ MessageInv /\ open /\ acks # <<>>
      /\ UNCHANGED <<phase, mode, session, body, job, store, wire, open, mails>>
      /\ messages' = [messages EXCEPT ![id] = new]
  BY DEF IInv, Receive, server, AsksText
<1>2. /\ peer'.writing /\ ~peer.writing /\ peer'.mail = peer.mail /\ peer'.recipients = peer.recipients
      /\ acks' = <<>> /\ PeerOK(peer, mails)' /\ ViewsInv'
      /\ phase # "closed" => mode = "data" /\ wire = <<>> /\ Layered
  BY <1>1, ReceiveStep
<1>3. verdict' = verdict
  BY <1>2 DEF Receive
<1>4. /\ messages \in [Mails -> MessageType] /\ id \in Mails /\ mails \in Nat /\ id <= mails
      /\ Mails \subseteq Nat /\ 0 \in Mails /\ View(0) = peer /\ peer \in PeerType /\ acks \in Seq(Codes)
      /\ Len(acks) \in Nat /\ Informed = View(Len(acks)) /\ session.mail.id \in Mails
  BY <1>1, MessageTypes
<1>5. ViewInv(0)
  <2>1. 0 \in 0 .. Len(acks)
    BY <1>4
  <2> QED BY <1>1, <2>1 DEF DialogueInv, ViewsInv
<1>6. new.lines = 0 /\ new.ended = FALSE /\ new.tls = tls /\ new.recipients = peer.recipients
  BY DEF NoMessage
<1>7. messages'[id] = new /\ \A k \in Mails : k # id => messages'[k] = messages[k]
  BY <1>1, <1>4
<1> HIDE DEF new
<1>8. /\ View(0)' = peer' /\ Len(acks') = 0 /\ peer' \in PeerType
      /\ Len(peer'.asked) = 1 /\ Head(peer'.asked).cmd = "DATA" /\ peer'.mail.id # 0
  <2>1. <<>> \in Seq(Codes) /\ Len(acks') = 0 /\ 0 \in 0 .. Len(acks')
    BY <1>2
  <2>2. Views(peer', acks')[0] = peer'
    BY <1>2, <2>1, ViewsFacts
  <2>3. View(0)' = peer'
    BY <2>2 DEF View
  <2>4. ViewInv(0)'
    BY <1>2, <2>1 DEF ViewsInv
  <2>5. peer' \in PeerType
    BY <1>2 DEF PeerOK
  <2>6. Len(peer'.asked) = 1 /\ Head(peer'.asked).cmd = "DATA" /\ peer'.mail.id # 0
    BY <1>2, <2>3, <2>4 DEF ViewInv
  <2> QED BY <2>1, <2>3, <2>5, <2>6
<1>9. id # 0 /\ Unused(id, messages, verdict, store)
  <2>1. id # 0
    BY <1>2, <1>8
  <2>2. FreshView(peer, messages, verdict, store)
    <3>1. 0 \in 0 .. Len(acks)
      BY <1>4
    <3> QED BY <1>1, <1>4, <3>1 DEF MessageInv, FreshInv
  <2> QED BY <1>2, <2>1, <2>2 DEF FreshView
<1>10. FreshInv'
  <2>1. ASSUME NEW i \in 0 .. Len(acks)' PROVE FreshView(View(i)', messages', verdict', store')
    <3>1. View(i)' = peer'
      BY <1>8, <2>1
    <3>2. peer'.asked[1].cmd = "DATA"
      BY <1>8 DEF PeerType
    <3>3. FreshView(peer', messages', verdict', store')
      BY <1>2, <1>8, <3>2 DEF FreshView
    <3> QED BY <3>1, <3>3
  <2>2. ASSUME NEW k \in Mails, k > mails' PROVE Unused(k, messages', verdict', store')
    <3>1. k # id /\ Unused(k, messages, verdict, store)
      BY <1>1, <1>4, <2>2 DEF MessageInv, FreshInv
    <3> QED BY <1>1, <1>3, <1>7, <2>2, <3>1 DEF Unused, Blank
  <2> QED BY <2>1, <2>2 DEF FreshInv
<1>11. Blank(0, messages, verdict)'
  BY <1>1, <1>3, <1>4, <1>7, <1>9 DEF MessageInv, Blank
<1>12. TextInv'
  <2>1. /\ \A i \in 1 .. Len(body.lines) : body.lines[i] = i
    BY <1>1 DEF MessageInv, TextInv
  <2>2. CASE phase = "closed"
    <3>1. mode' = "command"
      BY <1>1, <2>2 DEF DialogueInv, WireInv, Layered
    <3> QED BY <1>1, <2>1, <3>1 DEF TextInv
  <2>3. CASE phase # "closed"
    <3>1. mode = "data" /\ wire = <<>> /\ Layered /\ body = NoBody
      BY <1>1, <1>2, <2>3 DEF DialogueInv, WritingInv
    <3>2. peer.mail = session.mail /\ peer.recipients = session.recipients
      <4>1. Informed' = peer'
        BY <1>2, <1>8 DEF Informed, View
      <4>2. Agree'
        BY <1>1, ReceiveStep
      <4>3. Layered'
        BY <1>1, <3>1 DEF Layered
      <4> QED BY <1>1, <1>2, <4>1, <4>2, <4>3 DEF Agree
    <3>3. tls = InTls
      <4>1. peer.layer = phase
        BY <1>4, <1>5, <3>1 DEF ViewInv
      <4> QED BY <4>1 DEF InTls
    <3>4. body.lines = <<>> /\ Len(body.lines) = 0 /\ Len(wire) = 0
      BY <3>1 DEF NoBody
    <3>5. TextSent(new, body, wire, TRUE)
      BY <1>6, <3>1, <3>4 DEF TextSent
    <3>6. TextSent(messages'[session'.mail.id], body', wire', open')
      <4>1. open' = TRUE
        BY <1>1 DEF DialogueInv, TypeOK
      <4> QED BY <1>1, <1>7, <3>2, <3>5, <4>1
    <3>7. verdict'[session'.mail.id] = "none"
      BY <1>1, <1>3, <1>9, <3>2 DEF Unused, Blank
    <3>8. messages'[session'.mail.id].recipients = session'.recipients
      BY <1>1, <1>6, <1>7, <3>2
    <3>9. messages'[session'.mail.id].tls = InTls'
      <4>1. messages'[session'.mail.id].tls = tls
        BY <1>1, <1>6, <1>7, <3>2
      <4>2. InTls' <=> InTls
        BY <1>1 DEF InTls
      <4> QED BY <3>3, <4>1, <4>2
    <3> QED BY <1>1, <2>1, <3>1, <3>6, <3>7, <3>8, <3>9 DEF TextInv
  <2> QED BY <2>2, <2>3
<1>13. LayerInv'
  BY <1>1 DEF MessageInv, LayerInv, Layered, InTls
<1>14. StoreInv'
  <2>1. ASSUME NEW c \in store PROVE messages'[c.mail] = messages[c.mail]
    BY <1>1, <1>7, <1>9, MessageTypes DEF Unused
  <2> QED BY <1>1, <2>1 DEF MessageInv, StoreInv
<1>15. JobInv'
  <2>1. phase # "closed" => mode = "data"
    BY <1>2
  <2>2. phase = "closed" => mode = "command"
    BY <1>1 DEF DialogueInv, WireInv, Layered
  <2>3. mode' # "deliver"
    BY <1>1, <2>1, <2>2
  <2>4. mode = "data" => peer.mail = session.mail
    <3>1. Informed' = peer'
      BY <1>2, <1>8 DEF Informed, View
    <3>2. Agree'
      BY <1>1, ReceiveStep
    <3>3. mode = "data" => Layered'
      BY <1>1 DEF DialogueInv, WireInv, Layered
    <3> QED BY <1>1, <1>2, <3>1, <3>2, <3>3 DEF Agree
  <2>5. mode' = "data" => CopiesFor(session'.mail.id, store') = {}
    BY <1>1, <1>9, <2>4 DEF Unused, CopiesFor
  <2> QED BY <2>3, <2>5 DEF JobInv
<1>16. VerdictInv'
  <2>1. verdict[id] = "none"
    BY <1>9 DEF Unused, Blank
  <2>2. ASSUME NEW k \in Mails PROVE TrueOf(verdict'[k], CopiesFor(k, store'), messages'[k])
    <3>1. CASE k = id
      BY <1>3, <2>1, <3>1 DEF TrueOf
    <3>2. CASE k # id
      BY <1>1, <1>3, <1>7, <3>2 DEF MessageInv, VerdictInv
    <3> QED BY <3>1, <3>2
  <2> QED BY <1>2, <1>3, <2>1, <2>2 DEF VerdictInv
<1> QED BY <1>1, <1>10, <1>11, <1>12, <1>13, <1>14, <1>15, <1>16 DEF MessageInv

LEMMA MessageReceive ==
    ASSUME IInv, Receive
    PROVE  MessageInv'
<1>1. CASE peer.writing
  BY <1>1, MessageVerdictRead
<1>2. CASE AsksText(Head(peer.asked), Head(acks))
  BY <1>2, MessageBegins
<1>3. CASE ~peer.writing /\ ~AsksText(Head(peer.asked), Head(acks))
  <2>1. /\ DialogueInv /\ MessageInv /\ open
        /\ UNCHANGED <<phase, mode, session, body, job, store, wire, open, mails, messages, verdict>>
    BY <1>3 DEF IInv, Receive, server, AsksText
  <2>2. /\ ~peer'.writing /\ Len(acks') = Len(acks) - 1
        /\ \A i \in 0 .. Len(acks') : View(i)' = View(i + 1)
    BY <1>3, <2>1, ReceiveStep
  <2>3. Len(acks) \in Nat
    BY <2>1, MessageTypes
  <2>4. FreshInv'
    <3>1. ASSUME NEW i \in 0 .. Len(acks') PROVE FreshView(View(i)', messages', verdict', store')
      <4>1. i + 1 \in 0 .. Len(acks)
        BY <2>2, <2>3
      <4>2. FreshView(View(i + 1), messages, verdict, store)
        BY <2>1, <4>1 DEF MessageInv, FreshInv
      <4> QED BY <2>1, <2>2, <4>2
    <3>2. \A k \in Mails : k > mails' => Unused(k, messages', verdict', store')
      BY <2>1 DEF MessageInv, FreshInv
    <3> QED BY <3>1, <3>2 DEF FreshInv
  <2>5. Blank(0, messages, verdict)'
    BY <2>1 DEF MessageInv, Blank
  <2>6. TextInv'
    BY <1>3, <2>1, <2>2 DEF MessageInv, TextInv, InTls
  <2>7. LayerInv' /\ StoreInv'
    BY <2>1 DEF MessageInv, LayerInv, StoreInv, Layered, InTls
  <2>8. JobInv'
    BY <1>3, <2>1, <2>2 DEF MessageInv, JobInv
  <2>9. VerdictInv'
    BY <2>1, <2>2 DEF MessageInv, VerdictInv
  <2> QED BY <2>1, <2>4, <2>5, <2>6, <2>7, <2>8, <2>9 DEF MessageInv
<1> QED BY <1>1, <1>2, <1>3

\* What arrived of a text is its beginning.
LEMMA SentLess ==
    ASSUME NEW m, NEW b, NEW w \in Seq(Lines), NEW there, TextSent(m, b, w, there), TextLines(w),
           Len(b.lines) \in Nat, m.lines \in Nat, NEW k \in 0 .. Len(w)
    PROVE  TextSent(m, b, SubSeq(w, 1, k), FALSE)
<1> DEFINE n == Len(b.lines)
           part == SubSeq(w, 1, k)
<1>1. /\ Len(part) = k /\ k \in Nat /\ k <= Len(w) /\ Len(w) \in Nat /\ part \in Seq(Lines)
      /\ \A i \in 1 .. k : part[i] = w[i]
      /\ n \in Nat /\ (part # <<>> <=> k # 0)
  OBVIOUS
<1> HIDE DEF n, part
<1>2. \A i \in 1 .. Len(part) : part[i].cmd # "DOT" => part[i].arg = n + i
  <2>1. \A i \in 1 .. Len(w) : w[i].cmd # "DOT" => w[i].arg = n + i
    BY DEF TextSent, n
  <2> QED BY <1>1, <2>1
<1>3. part # <<>> => Last(part) = w[k]
  BY <1>1 DEF Last
<1>4. k # 0 /\ w[k].cmd = "DOT" => k = Len(w)
  <2>1. k # 0 /\ k # Len(w) => k \in 1 .. Len(w) - 1
    BY <1>1
  <2> QED BY <2>1 DEF TextLines
<1>5. w # <<>> => Last(w) = w[Len(w)] /\ Len(w) # 0
  BY <1>1 DEF Last
<1>6. CASE w # <<>> /\ Last(w).cmd = "DOT"
  <2>1. m.ended /\ m.lines = n + Len(w) - 1
    BY <1>6 DEF TextSent, n
  <2>2. CASE k = Len(w)
    <3>1. part # <<>> /\ Last(part).cmd = "DOT"
      BY <1>1, <1>3, <1>5, <1>6, <2>2
    <3>2. m.lines = n + Len(part) - 1
      BY <1>1, <2>1, <2>2
    <3> QED BY <1>2, <2>1, <3>1, <3>2 DEF TextSent, n, part
  <2>3. CASE k # Len(w)
    <3>1. ~(part # <<>> /\ Last(part).cmd = "DOT")
      BY <1>1, <1>3, <1>4, <2>3
    <3>2. m.lines >= n + Len(part)
      BY <1>1, <2>1, <2>3
    <3> QED BY <1>2, <3>1, <3>2 DEF TextSent, n, part
  <2> QED BY <2>2, <2>3
<1>7. CASE ~(w # <<>> /\ Last(w).cmd = "DOT")
  <2>1. m.lines >= n + Len(w)
    BY <1>7 DEF TextSent, n
  <2>2. ~(part # <<>> /\ Last(part).cmd = "DOT")
    BY <1>1, <1>3, <1>4, <1>5, <1>7
  <2>3. m.lines >= n + Len(part)
    BY <1>1, <2>1
  <2> QED BY <1>2, <2>2, <2>3 DEF TextSent, n, part
<1> QED BY <1>6, <1>7

LEMMA MessageDisconnect ==
    ASSUME IInv, Disconnect
    PROVE  MessageInv'
<1>1. /\ DialogueInv /\ MessageInv /\ open /\ open' = FALSE
      /\ UNCHANGED <<phase, mode, session, body, job, store, acks, peer, mails, messages, verdict>>
  BY DEF IInv, Disconnect, server
<1>2. PICK k \in 0 .. Len(wire) : wire' = SubSeq(wire, 1, k)
  BY DEF Disconnect
<1>3. /\ wire \in Seq(Lines) /\ Len(wire) \in Nat /\ messages \in [Mails -> MessageType]
      /\ session.mail.id \in Mails /\ Len(acks) \in Nat /\ Informed = View(Len(acks))
      /\ Len(body.lines) \in Nat
  BY <1>1, MessageTypes
<1>4. Len(wire') = k /\ k \in Nat /\ k <= Len(wire) /\ \A i \in 1 .. k : wire'[i] = wire[i]
  BY <1>2, <1>3
<1>5. LeftInv'
  <2> SUFFICES ASSUME Layered, mode = "command"
               PROVE  /\ Blank(session.mail.id, messages, verdict)
                      /\ \A j \in 1 .. Len(wire') : wire'[j].cmd = "MAIL" => Blank(wire'[j].arg, messages, verdict)
    BY <1>1 DEF LeftInv, Layered
  <2>1. Informed.mail = session.mail /\ ~Informed.writing /\ Informed.asked = wire
    BY <1>1 DEF DialogueInv, Agree, AnswersInOrder
  <2>2. FreshView(Informed, messages, verdict, store)
    <3>1. Len(acks) \in 0 .. Len(acks)
      BY <1>3
    <3> QED BY <1>1, <1>3, <3>1 DEF MessageInv, FreshInv
  <2>3. Blank(session.mail.id, messages, verdict)
    <3>1. CASE session.mail.id = 0
      BY <1>1, <3>1 DEF MessageInv
    <3>2. CASE session.mail.id # 0
      BY <2>1, <2>2, <3>2 DEF FreshView, Unused
    <3> QED BY <3>1, <3>2
  <2>4. ASSUME NEW j \in 1 .. Len(wire'), wire'[j].cmd = "MAIL" PROVE Blank(wire'[j].arg, messages, verdict)
    <3>1. j \in 1 .. Len(wire) /\ wire'[j] = wire[j]
      BY <1>4
    <3> QED BY <2>1, <2>2, <2>4, <3>1 DEF FreshView, Unused
  <2> QED BY <2>3, <2>4
<1>6. TextInv'
  <2> DEFINE m == messages[session.mail.id]
             n == Len(body.lines)
  <2>1. m.lines \in Nat
    <3>1. m.lines \in 0 .. MaxText /\ MaxText \in Nat
      BY <1>3, BoundsAssumption DEF MessageType
    <3> QED BY <3>1
  <2>2. /\ mode = "data" /\ ~body.tooLarge => TextSent(m, body, wire, open)
        /\ mode = "deliver" => ~body.tooLarge /\ m.lines >= n
        /\ \A i \in 1 .. n : body.lines[i] = i
        /\ mode # "command" => verdict[session.mail.id] = "none"
        /\ mode # "command" /\ m.ended => m.recipients = session.recipients /\ m.tls = InTls
    BY <1>1 DEF MessageInv, TextInv
  <2> HIDE DEF m
  <2>3. mode = "data" /\ ~body.tooLarge => TextSent(m, body, wire', FALSE)
    <3>1. mode = "data" => TextLines(wire)
      BY <1>1 DEF DialogueInv, WireInv
    <3> QED BY <1>2, <1>3, <2>1, <2>2, <3>1, SentLess
  <2>4. m = messages'[session'.mail.id] /\ n = Len(body'.lines) /\ (InTls <=> InTls')
    BY <1>1 DEF m, InTls
  <2>5. mode # "command" /\ m.ended => m.tls = InTls'
    BY <2>2, <2>4
  <2> QED BY <1>1, <2>2, <2>3, <2>4, <2>5 DEF TextInv
<1>7. LayerInv'
  BY <1>1, <1>4 DEF MessageInv, LayerInv, Layered, InTls
<1>8. StoreInv'
  BY <1>1 DEF MessageInv, StoreInv, CopyOK
<1>9. VerdictInv' /\ Blank(0, messages, verdict)'
  BY <1>1 DEF MessageInv, VerdictInv, Blank
<1> QED BY <1>1, <1>5, <1>6, <1>7, <1>8, <1>9 DEF MessageInv

----------------------------------------------------------------------------
(* Texts, copies and verdicts: what mxd does *)

\* An answer read leaves the peer no more before it than it had.
LEMMA FreshLearn ==
    ASSUME NEW m \in Mails, NEW p, PeerOK(p, m), p.asked # <<>>, NEW code, ~p.writing,
           NEW ms, NEW vs, NEW st, FreshView(p, ms, vs, st)
    PROVE  FreshView(Learn(p, code), ms, vs, st)
<1> DEFINE new == Learn(p, code)
<1>1. p \in PeerType /\ p.asked \in Seq(Lines)
  BY DEF PeerOK, PeerType
<1>2. /\ Head(p.asked) = p.asked[1] /\ 1 \in 1 .. Len(p.asked)
      /\ Len(Tail(p.asked)) = Len(p.asked) - 1 /\ Len(p.asked) \in Nat
      /\ \A j \in 1 .. Len(p.asked) - 1 : Tail(p.asked)[j] = p.asked[j + 1]
  BY <1>1
<1>3. /\ \/ new.mail = p.mail \/ new.mail = NoMail
         \/ BeginsMail(p.asked[1], code) /\ new.mail.id = p.asked[1].arg
      /\ new.asked = Tail(p.asked) \/ new.asked = p.asked \/ new.asked = <<>>
  <2>1. \/ new.mail = p.mail \/ new.mail = NoMail
        \/ BeginsMail(p.asked[1], code) /\ new.mail.id = p.asked[1].arg
    BY <1>2, LearnMails
  <2>2. new.asked = Tail(p.asked) \/ new.asked = p.asked \/ new.asked = <<>>
    BY <1>1, LearnFacts DEF Knows
  <2> QED BY <2>1, <2>2
<1> HIDE DEF new
<1>4. new.mail.id # 0 => Unused(new.mail.id, ms, vs, st)
  <2>1. NoMail.id = 0
    BY DEF NoMail
  <2>2. BeginsMail(p.asked[1], code) => p.asked[1].cmd = "MAIL"
    BY DEF BeginsMail
  <2> QED BY <1>2, <1>3, <2>1, <2>2 DEF FreshView
<1>5. ASSUME NEW j \in 1 .. Len(new.asked), new.asked[j].cmd = "MAIL"
      PROVE  Unused(new.asked[j].arg, ms, vs, st)
  <2>1. \E i \in 1 .. Len(p.asked) : new.asked[j] = p.asked[i]
    <3>1. CASE new.asked = Tail(p.asked)
      <4>1. j \in 1 .. Len(p.asked) - 1 /\ j + 1 \in 1 .. Len(p.asked)
        BY <1>2, <3>1
      <4> QED BY <1>2, <3>1, <4>1
    <3>2. CASE new.asked = p.asked
      BY <3>2
    <3>3. CASE new.asked = <<>>
      BY <3>3
    <3> QED BY <1>3, <3>1, <3>2, <3>3
  <2> QED BY <1>5, <2>1 DEF FreshView
<1> QED BY <1>4, <1>5 DEF FreshView, new

\* A command is answered: a transaction that begins has no message yet.
LEMMA MessageCommand ==
    ASSUME IInv, DialogueInv', Layered, mode = "command", wire # <<>>, NEW code \in Codes,
           Answers(Head(wire), code), UNCHANGED <<store, verdict>>
    PROVE  MessageInv'
<1> DEFINE line == Head(wire)
<1>1. /\ DialogueInv /\ MessageInv /\ UNCHANGED <<open, peer, mails, messages>>
      /\ wire' = Tail(wire) \/ (wire' = <<>> /\ phase' = "closed")
      /\ ~AsksText(line, code) => mode' = "command"
      /\ AsksText(line, code) => mode' = "data"
      /\ Layered' => phase' = phase /\ ~EntersTls(line, code)
  BY DEF IInv, Answers
<1>2. /\ messages \in [Mails -> MessageType] /\ session.mail.id \in Mails /\ mails \in Mails
      /\ Mails \subseteq Nat /\ 0 \in Mails /\ wire \in Seq(Lines) /\ Len(wire) \in Nat
      /\ session.recipients \in Seq(Recipients)
      /\ Len(acks) \in Nat /\ Informed = View(Len(acks))
  BY <1>1, MessageTypes
<1>3. /\ line = wire[1] /\ 1 \in 1 .. Len(wire) /\ Len(Tail(wire)) = Len(wire) - 1
      /\ \A j \in 1 .. Len(wire) - 1 : Tail(wire)[j] = wire[j + 1]
  BY <1>2
<1>4. /\ body' = NoBody
      /\ AsksText(line, code) => wire' = <<>>
  BY <1>1, CommandStep
<1>5. NoBody.lines = <<>> /\ Len(NoBody.lines) = 0 /\ Len(<<>>) = 0 /\ NoMail.id = 0
  BY DEF NoBody, NoMail
<1>6. open => /\ ~peer.writing /\ Informed.asked = wire /\ ~Informed.writing
              /\ Informed.mail = session.mail
              /\ FreshView(Informed, messages, verdict, store) /\ PeerOK(Informed, mails)
  <2> SUFFICES ASSUME open PROVE /\ ~peer.writing /\ Informed.asked = wire /\ ~Informed.writing
                                 /\ Informed.mail = session.mail
                                 /\ FreshView(Informed, messages, verdict, store)
                                 /\ PeerOK(Informed, mails)
    OBVIOUS
  <2>1. Len(acks) \in 0 .. Len(acks)
    BY <1>2
  <2>2. FreshView(Informed, messages, verdict, store)
    BY <1>1, <1>2, <2>1 DEF MessageInv, FreshInv
  <2>3. ~peer.writing /\ Informed.asked = wire /\ ~Informed.writing
    BY <1>1, NotWriting
  <2>4. PeerOK(Informed, mails) /\ Informed.mail = session.mail
    BY <1>1, <1>2, <2>1 DEF DialogueInv, ViewsInv, ViewInv, Agree
  <2> QED BY <2>2, <2>3, <2>4
<1>7. /\ Blank(session.mail.id, messages, verdict)
      /\ \A j \in 1 .. Len(wire) : wire[j].cmd = "MAIL" => Blank(wire[j].arg, messages, verdict)
  <2>1. CASE ~open
    BY <1>1, <2>1 DEF MessageInv, LeftInv
  <2>2. CASE open
    <3>1. CASE session.mail.id = 0
      BY <1>1, <1>6, <2>2, <3>1 DEF MessageInv, FreshView, Unused
    <3>2. CASE session.mail.id # 0
      BY <1>6, <2>2, <3>2 DEF FreshView, Unused
    <3> QED BY <3>1, <3>2
  <2> QED BY <2>1, <2>2
<1>8. Layered' => /\ wire' = Tail(wire)
                  /\ \/ session'.mail = session.mail \/ session'.mail = NoMail
                     \/ BeginsMail(line, code) /\ session'.mail = [id |-> line.arg, tls |-> line.tls]
                  /\ \/ session'.recipients = session.recipients \/ session'.recipients = <<>>
                     \/ session'.recipients = Append(session.recipients, [addr |-> line.arg, tls |-> line.tls])
  <2>1. Layered' => phase' # "closed"
    BY DEF Layered
  <2>2. Layered' => ~EntersTls(line, code)
    BY <1>1
  <2>3. CASE BeginsMail(line, code)
    BY <1>1, <2>1, <2>3 DEF Answers
  <2>4. CASE AddsRecipient(line, code)
    BY <1>1, <2>1, <2>4 DEF Answers
  <2>5. CASE AsksText(line, code) \/ ChangesNothing(line, code)
    BY <1>1, <2>1, <2>5 DEF Answers
  <2>6. CASE EndsMail(line, code)
    BY <1>1, <2>1, <2>6 DEF Answers
  <2> QED BY <2>2, <2>3, <2>4, <2>5, <2>6 DEF ChangesNothing
<1>9. open => FreshInv'
  <2> SUFFICES ASSUME open PROVE FreshInv'
    OBVIOUS
  <2> DEFINE new == Learn(Informed, code)
  <2>1. /\ Len(acks') = Len(acks) + 1
        /\ \A i \in 0 .. Len(acks') : View(i)' = IF i = Len(acks) + 1 THEN new ELSE View(i)
    BY <1>1, CommandViews
  <2>2. FreshView(new, messages, verdict, store)
    BY <1>2, <1>6, FreshLearn
  <2> HIDE DEF new
  <2>3. ASSUME NEW i \in 0 .. Len(acks') PROVE FreshView(View(i)', messages', verdict', store')
    <3>1. CASE i = Len(acks) + 1
      BY <1>1, <2>1, <2>2, <3>1
    <3>2. CASE i # Len(acks) + 1
      <4>1. i \in 0 .. Len(acks)
        BY <1>2, <2>1, <3>2
      <4>2. FreshView(View(i), messages, verdict, store)
        BY <1>1, <4>1 DEF MessageInv, FreshInv
      <4> QED BY <1>1, <2>1, <3>2, <4>2
    <3> QED BY <3>1, <3>2
  <2>4. \A k \in Mails : k > mails' => Unused(k, messages', verdict', store')
    BY <1>1 DEF MessageInv, FreshInv
  <2> QED BY <2>3, <2>4 DEF FreshInv
<1>10. open => JobInv'
  <2>1. mode' # "deliver" /\ (open => ~peer'.writing)
    BY <1>1, <1>6
  <2> QED BY <2>1 DEF JobInv
<1>11. Blank(0, messages, verdict)'
  BY <1>1 DEF MessageInv, Blank
<1>12. LeftInv'
  <2> SUFFICES ASSUME Layered'
               PROVE  /\ Blank(session'.mail.id, messages, verdict)
                      /\ \A j \in 1 .. Len(wire') : wire'[j].cmd = "MAIL" => Blank(wire'[j].arg, messages, verdict)
    BY <1>1 DEF LeftInv, Layered, Blank
  <2>1. Blank(session'.mail.id, messages, verdict)
    <3>1. CASE session'.mail = session.mail
      BY <1>7, <3>1
    <3>2. CASE session'.mail = NoMail
      BY <1>1, <1>5, <3>2 DEF MessageInv
    <3>3. CASE BeginsMail(line, code) /\ session'.mail = [id |-> line.arg, tls |-> line.tls]
      <4>1. session'.mail.id = line.arg /\ line.cmd = "MAIL"
        BY <3>3 DEF BeginsMail
      <4> QED BY <1>3, <1>7, <4>1
    <3> QED BY <1>8, <3>1, <3>2, <3>3
  <2>2. ASSUME NEW j \in 1 .. Len(wire'), wire'[j].cmd = "MAIL" PROVE Blank(wire'[j].arg, messages, verdict)
    <3>1. j \in 1 .. Len(wire) - 1 /\ j + 1 \in 1 .. Len(wire)
      BY <1>2, <1>3, <1>8
    <3> QED BY <1>3, <1>7, <1>8, <2>2, <3>1
  <2> QED BY <2>1, <2>2
<1>13. TextInv'
  <2>1. CASE ~AsksText(line, code)
    BY <1>1, <1>4, <1>5, <2>1 DEF TextInv
  <2>2. CASE AsksText(line, code)
    <3>1. session'.mail = session.mail /\ session'.recipients = session.recipients
      BY <2>2 DEF Answers
    <3>2. messages[session.mail.id] = NoMessage /\ verdict[session.mail.id] = "none"
      BY <1>7 DEF Blank
    <3>3. TextSent(NoMessage, NoBody, <<>>, open)
      BY <1>5 DEF TextSent, NoMessage
    <3>4. ~NoMessage.ended
      BY DEF NoMessage
    <3>5. open' => ~peer'.writing
      BY <1>1, <1>6
    <3> HIDE DEF NoMessage, NoBody
    <3>6. TextSent(messages'[session'.mail.id], body', wire', open')
      BY <1>1, <1>4, <2>2, <3>1, <3>2, <3>3
    <3> QED BY <1>1, <1>4, <1>5, <2>2, <3>1, <3>2, <3>4, <3>5, <3>6 DEF TextInv
  <2> QED BY <2>1, <2>2
<1>14. LayerInv'
  <2> SUFFICES ASSUME Layered'
               PROVE  /\ \A i \in 1 .. Len(wire') : wire'[i].tls = InTls
                      /\ session'.mail # NoMail => session'.mail.tls = InTls
                      /\ \A n \in 1 .. Len(session'.recipients) : session'.recipients[n].tls = InTls
    BY <1>1 DEF LayerInv, InTls
  <2>1. /\ \A i \in 1 .. Len(wire) : wire[i].tls = InTls
        /\ session.mail # NoMail => session.mail.tls = InTls
        /\ \A n \in 1 .. Len(session.recipients) : session.recipients[n].tls = InTls
    BY <1>1 DEF MessageInv, LayerInv
  <2>2. \A i \in 1 .. Len(wire') : wire'[i].tls = InTls
    <3> SUFFICES ASSUME NEW i \in 1 .. Len(wire') PROVE wire'[i].tls = InTls
      OBVIOUS
    <3>1. i \in 1 .. Len(wire) - 1 /\ i + 1 \in 1 .. Len(wire)
      BY <1>2, <1>3, <1>8
    <3>2. wire'[i] = wire[i + 1]
      BY <1>3, <1>8, <3>1
    <3> QED BY <2>1, <3>1, <3>2
  <2>3. line.tls = InTls
    BY <1>3, <2>1
  <2>4. session'.mail # NoMail => session'.mail.tls = InTls
    <3>1. CASE session'.mail = session.mail \/ session'.mail = NoMail
      BY <2>1, <3>1
    <3>2. CASE session'.mail = [id |-> line.arg, tls |-> line.tls]
      <4>1. session'.mail.tls = line.tls
        BY <3>2
      <4> QED BY <2>3, <4>1
    <3> QED BY <1>8, <3>1, <3>2
  <2>5. \A n \in 1 .. Len(session'.recipients) : session'.recipients[n].tls = InTls
    <3>1. CASE session'.recipients = session.recipients
      BY <2>1, <3>1
    <3>2. CASE session'.recipients = <<>>
      BY <1>5, <3>2
    <3>3. CASE session'.recipients = Append(session.recipients, [addr |-> line.arg, tls |-> line.tls])
      <4> DEFINE rcpt == [addr |-> line.arg, tls |-> line.tls]
                 len == Len(session.recipients)
      <4>1. rcpt.tls = line.tls
        OBVIOUS
      <4> HIDE DEF rcpt
      <4>2. /\ Len(session'.recipients) = len + 1 /\ len \in Nat /\ session'.recipients[len + 1] = rcpt
            /\ \A n \in 1 .. len : session'.recipients[n] = session.recipients[n]
        BY <1>2, <3>3 DEF rcpt
      <4> SUFFICES ASSUME NEW n \in 1 .. Len(session'.recipients) PROVE session'.recipients[n].tls = InTls
        OBVIOUS
      <4>3. CASE n \in 1 .. len
        BY <2>1, <4>2, <4>3
      <4>4. CASE n = len + 1
        BY <2>3, <4>1, <4>2, <4>4
      <4> QED BY <4>2, <4>3, <4>4
    <3> QED BY <1>8, <3>1, <3>2, <3>3
  <2> QED BY <2>2, <2>4, <2>5
<1>15. StoreInv'
  BY <1>1 DEF MessageInv, StoreInv
<1>16. VerdictInv'
  BY <1>1, <1>6 DEF MessageInv, VerdictInv
<1> QED BY <1>1, <1>9, <1>10, <1>11, <1>12, <1>13, <1>14, <1>15, <1>16 DEF MessageInv

LEMMA MessageCommands ==
    ASSUME IInv, Aside \/ StartTls \/ MailFrom \/ RcptTo \/ Data \/ Rset \/ Quit
    PROVE  MessageInv'
<1>1. DialogueInv
  BY DEF IInv
<1>2. Layered /\ mode = "command" /\ wire # <<>> /\ UNCHANGED <<store, verdict>>
  <2>1. ASSUME NEW cmd, Command(cmd)
        PROVE  Layered /\ mode = "command" /\ wire # <<>> /\ UNCHANGED <<store, verdict>>
    BY <2>1 DEF Command, Layered, client
  <2>2. CASE Aside
    BY <2>1, <2>2 DEF Aside
  <2>3. CASE StartTls \/ MailFrom \/ RcptTo \/ Data \/ Rset
    BY <2>1, <2>3 DEF StartTls, MailFrom, RcptTo, Data, Rset
  <2>4. CASE Quit
    BY <2>4 DEF Quit, Layered, client
  <2> QED BY <2>2, <2>3, <2>4
<1>3. DialogueInv' /\ \E code \in Codes : Answers(Head(wire), code)
  <2>1. CASE Aside
    BY <1>1, <2>1, DialogueAside
  <2>2. CASE StartTls
    BY <1>1, <2>2, DialogueStartTls
  <2>3. CASE MailFrom
    BY <1>1, <2>3, DialogueMailFrom
  <2>4. CASE RcptTo
    BY <1>1, <2>4, DialogueRcptTo
  <2>5. CASE Data
    BY <1>1, <2>5, DialogueData
  <2>6. CASE Rset
    BY <1>1, <2>6, DialogueRset
  <2>7. CASE Quit
    BY <1>1, <2>7, DialogueQuit
  <2> QED BY <2>1, <2>2, <2>3, <2>4, <2>5, <2>6, <2>7
<1> QED BY <1>2, <1>3, MessageCommand

LEMMA MessageEnd ==
    ASSUME IInv, \/ Eof \/ HandshakeFails
                 \/ ConnectionLost \/ Crash
    PROVE  MessageInv'
<1>1. /\ phase' = "closed" /\ mode' = "command" /\ wire' = <<>>
      /\ session' = NoSession /\ body' = NoBody
      /\ UNCHANGED <<store, acks, open, peer, mails, messages, verdict>>
      /\ DialogueInv /\ MessageInv
  BY DEF Eof, HandshakeFails, ConnectionLost, Crash, End, client, IInv
<1>2. ~Layered'
  BY <1>1 DEF Layered
<1>3. Len(NoBody.lines) = 0
  BY DEF NoBody
<1>4. open => FreshInv'
  <2>1. \A i : View(i)' = View(i)
    BY <1>1 DEF View
  <2> QED BY <1>1, <2>1 DEF MessageInv, FreshInv
<1>5. JobInv' /\ LeftInv' /\ TextInv' /\ LayerInv'
  BY <1>1, <1>2, <1>3 DEF JobInv, LeftInv, TextInv, LayerInv
<1>6. Blank(0, messages, verdict)' /\ StoreInv' /\ VerdictInv'
  BY <1>1 DEF MessageInv, Blank, StoreInv, VerdictInv
<1> QED BY <1>1, <1>4, <1>5, <1>6 DEF MessageInv

LEMMA MessageHandshake ==
    ASSUME IInv, Handshake
    PROVE  MessageInv'
<1>1. /\ DialogueInv /\ MessageInv /\ open /\ wire' = <<>> /\ session' = NoSession
      /\ UNCHANGED <<mode, body, job, store, acks, open, mails, messages, verdict>>
  BY DEF IInv, Handshake, TlsLoop
<1>2. /\ acks = <<>> /\ peer.asked = <<>> /\ peer.mail = NoMail
      /\ peer'.asked = peer.asked /\ peer'.mail = peer.mail
      /\ ~peer'.writing /\ View(0)' = peer' /\ mode = "command"
  BY <1>1, DialogueHandshake
<1>3. NoMail.id = 0 /\ Len(<<>>) = 0 /\ NoSession.mail = NoMail /\ NoSession.recipients = <<>>
  BY DEF NoMail, NoSession
<1>4. FreshInv'
  <2>1. ASSUME NEW i \in 0 .. Len(acks') PROVE FreshView(View(i)', messages', verdict', store')
    <3>1. i = 0
      BY <1>1, <1>2, <1>3, <2>1
    <3>2. FreshView(peer', messages', verdict', store')
      BY <1>2, <1>3 DEF FreshView
    <3> QED BY <1>2, <3>1, <3>2
  <2>2. \A k \in Mails : k > mails' => Unused(k, messages', verdict', store')
    BY <1>1 DEF MessageInv, FreshInv
  <2> QED BY <2>1, <2>2 DEF FreshInv
<1>5. JobInv' /\ LayerInv'
  BY <1>1, <1>2, <1>3 DEF JobInv, LayerInv
<1>6. TextInv'
  BY <1>1, <1>2 DEF MessageInv, TextInv
<1>7. Blank(0, messages, verdict)' /\ StoreInv' /\ VerdictInv'
  BY <1>1, <1>2 DEF MessageInv, Blank, StoreInv, VerdictInv
<1> QED BY <1>1, <1>4, <1>5, <1>6, <1>7 DEF MessageInv

\* Nothing changes for the peer while mxd reads and delivers its text.
LEMMA FreshText ==
    ASSUME IInv, open, mode # "command", mode = "data" => wire # <<>>,
           UNCHANGED <<acks, peer, mails, messages, verdict>>,
           \A c \in store' : c \in store \/ c.mail = session.mail.id
    PROVE  FreshInv'
<1>1. /\ DialogueInv /\ MessageInv /\ peer.writing /\ acks = <<>>
      /\ Len(peer.asked) = 1 /\ Head(peer.asked).cmd = "DATA"
  BY InText DEF IInv
<1>2. /\ View(0) = peer /\ peer \in PeerType /\ session.mail.id <= mails /\ session.mail.id \in Mails
      /\ mails \in Nat /\ Mails \subseteq Nat
  BY <1>1, MessageTypes
<1>3. View(0)' = peer /\ Len(acks') = 0
  BY <1>1, <1>2 DEF View
<1>4. ASSUME NEW i \in 0 .. Len(acks') PROVE FreshView(View(i)', messages', verdict', store')
  <2>1. View(i)' = peer
    BY <1>3, <1>4
  <2>2. peer.asked[1].cmd = "DATA"
    BY <1>1, <1>2 DEF PeerType
  <2>3. FreshView(peer, messages', verdict', store')
    BY <1>1, <2>2 DEF FreshView
  <2> QED BY <2>1, <2>3
<1>5. ASSUME NEW k \in Mails, k > mails' PROVE Unused(k, messages', verdict', store')
  <2>1. k # session.mail.id /\ Unused(k, messages, verdict, store)
    BY <1>1, <1>2, <1>5 DEF MessageInv, FreshInv
  <2> QED BY <2>1 DEF Unused, Blank
<1> QED BY <1>4, <1>5 DEF FreshInv

\* A line read is one less on the wire and one more in the body.
LEMMA SentRead ==
    ASSUME NEW m, NEW b \in [lines : Seq(1 .. MaxText), tooLarge : BOOLEAN], NEW w \in Seq(Lines),
           NEW there, TextSent(m, b, w, there), TextLines(w), w # <<>>, Head(w).cmd = "TEXT",
           NEW more \in [lines : Seq(1 .. MaxText), tooLarge : BOOLEAN],
           more.lines = Append(b.lines, Head(w).arg)
    PROVE  TextSent(m, more, Tail(w), there)
<1> DEFINE n == Len(b.lines)
           line == Head(w)
           rest == Tail(w)
<1>1. /\ n \in Nat /\ Len(more.lines) = n + 1 /\ Len(w) \in Nat /\ Len(rest) = Len(w) - 1
      /\ \A i \in 1 .. Len(w) - 1 : rest[i] = w[i + 1]
      /\ Len(w) # 0
  OBVIOUS
<1>2. Last(w).cmd = "DOT" <=> rest # <<>> /\ Last(rest).cmd = "DOT"
  <2>1. line.cmd # "DOT"
    OBVIOUS
  <2> QED BY <2>1, TextHead
<1>3. /\ \A i \in 1 .. Len(w) : w[i].cmd # "DOT" => w[i].arg = n + i
      /\ IF Last(w).cmd = "DOT" THEN m.ended /\ m.lines = n + Len(w) - 1
         ELSE m.lines >= n + Len(w) /\ (there => m.lines = n + Len(w))
  BY DEF TextSent
<1> HIDE DEF n, line, rest
<1>4. \A i \in 1 .. Len(rest) : rest[i].cmd # "DOT" => rest[i].arg = (n + 1) + i
  <2> SUFFICES ASSUME NEW i \in 1 .. Len(rest), rest[i].cmd # "DOT" PROVE rest[i].arg = (n + 1) + i
    OBVIOUS
  <2>1. i \in 1 .. Len(w) - 1 /\ i + 1 \in 1 .. Len(w) /\ n + (i + 1) = (n + 1) + i
    BY <1>1
  <2>2. rest[i] = w[i + 1]
    BY <1>1, <2>1
  <2>3. w[i + 1].arg = n + (i + 1)
    BY <1>3, <2>1, <2>2
  <2> QED BY <2>1, <2>2, <2>3
<1>5. (n + 1) + Len(rest) = n + Len(w) /\ (n + 1) + Len(rest) - 1 = n + Len(w) - 1
  BY <1>1
<1>6. IF rest # <<>> /\ Last(rest).cmd = "DOT" THEN m.ended /\ m.lines = (n + 1) + Len(rest) - 1
      ELSE m.lines >= (n + 1) + Len(rest) /\ (there => m.lines = (n + 1) + Len(rest))
  <2>1. CASE Last(w).cmd = "DOT"
    BY <1>2, <1>3, <1>5, <2>1
  <2>2. CASE Last(w).cmd # "DOT"
    BY <1>2, <1>3, <1>5, <2>2
  <2> QED BY <2>1, <2>2
<1>7. Len(more.lines) = n + 1
  BY <1>1
<1> QED BY <1>4, <1>6, <1>7 DEF TextSent, rest

LEMMA MessageTextLine ==
    ASSUME IInv, TextLine
    PROVE  MessageInv'
<1>1. /\ DialogueInv /\ MessageInv /\ mode = "data" /\ wire # <<>> /\ Head(wire).cmd # "DOT"
      /\ body' = Extended(body, Head(wire)) /\ wire' = Tail(wire)
      /\ UNCHANGED <<phase, mode, session, job, store, acks, open, peer, mails, messages, verdict>>
  BY DEF IInv, TextLine, client
<1>2. /\ wire \in Seq(Lines) /\ TextLines(wire)
      /\ body \in [lines : Seq(1 .. MaxText), tooLarge : BOOLEAN] /\ Len(body.lines) <= MaxBody
      /\ Len(wire) \in Nat
  BY <1>1, MessageTypes DEF DialogueInv, WireInv, TypeOK
<1>3. /\ Len(Tail(wire)) = Len(wire) - 1
      /\ \A i \in 1 .. Len(wire) - 1 : Tail(wire)[i] = wire[i + 1]
  BY <1>1, <1>2
<1>4. IsText(Head(wire))
  BY <1>1, <1>2, TextHead
<1>5. /\ body' \in [lines : Seq(1 .. MaxText), tooLarge : BOOLEAN]
      /\ \/ body'.tooLarge /\ body'.lines = body.lines
         \/ /\ ~body'.tooLarge /\ ~body.tooLarge /\ Head(wire).cmd = "TEXT"
            /\ body'.lines = Append(body.lines, Head(wire).arg)
  BY <1>1, <1>2, <1>4, ExtendedType
<1>6. open => FreshInv'
  BY <1>1, FreshText
<1>7. open => JobInv'
  BY <1>1 DEF MessageInv, JobInv
<1>8. LeftInv'
  BY <1>1 DEF LeftInv
<1>9. TextInv'
  <2> DEFINE m == messages[session.mail.id]
  <2>1. /\ ~body.tooLarge => TextSent(m, body, wire, open)
        /\ \A i \in 1 .. Len(body.lines) : body.lines[i] = i
        /\ verdict[session.mail.id] = "none"
        /\ m.ended \/ (open /\ peer.writing) => m.recipients = session.recipients /\ m.tls = InTls
    BY <1>1 DEF MessageInv, TextInv
  <2> HIDE DEF m
  <2>2. ~body'.tooLarge => TextSent(m, body', wire', open)
    BY <1>1, <1>2, <1>5, <2>1, SentRead
  <2>3. \A i \in 1 .. Len(body'.lines) : body'.lines[i] = i
    <3>1. CASE body'.lines = body.lines
      BY <2>1, <3>1
    <3>2. CASE /\ ~body'.tooLarge /\ ~body.tooLarge /\ Head(wire).cmd = "TEXT"
               /\ body'.lines = Append(body.lines, Head(wire).arg)
      <4>1. Head(wire) = wire[1] /\ 1 \in 1 .. Len(wire)
        BY <1>1, <1>2
      <4>2. Head(wire).arg = Len(body.lines) + 1
        BY <2>1, <3>2, <4>1 DEF TextSent
      <4>3. body.lines \in Seq(1 .. MaxText) /\ Len(body.lines) \in Nat
        BY <1>2
      <4>4. /\ Len(body'.lines) = Len(body.lines) + 1 /\ body'.lines[Len(body.lines) + 1] = Len(body.lines) + 1
            /\ \A i \in 1 .. Len(body.lines) : body'.lines[i] = body.lines[i]
        BY <3>2, <4>2, <4>3
      <4> SUFFICES ASSUME NEW i \in 1 .. Len(body'.lines) PROVE body'.lines[i] = i
        OBVIOUS
      <4>5. CASE i \in 1 .. Len(body.lines)
        BY <2>1, <4>4, <4>5
      <4>6. CASE i = Len(body.lines) + 1
        BY <4>4, <4>6
      <4> QED BY <4>3, <4>4, <4>5, <4>6
    <3> QED BY <1>5, <3>1, <3>2
  <2>4. m = messages'[session'.mail.id]
    BY <1>1 DEF m
  <2> QED BY <1>1, <2>1, <2>2, <2>3, <2>4 DEF TextInv, InTls
<1>10. LayerInv'
  <2>1. Layered => \A i \in 1 .. Len(wire') : wire'[i].tls = InTls
    <3> SUFFICES ASSUME Layered, NEW i \in 1 .. Len(wire') PROVE wire'[i].tls = InTls
      OBVIOUS
    <3>1. i \in 1 .. Len(wire) - 1 /\ i + 1 \in 1 .. Len(wire)
      BY <1>1, <1>2, <1>3
    <3>2. wire'[i] = wire[i + 1]
      BY <1>1, <1>3, <3>1
    <3> QED BY <1>1, <3>1, <3>2 DEF MessageInv, LayerInv
  <2> QED BY <1>1, <2>1 DEF MessageInv, LayerInv, Layered, InTls
<1>11. Blank(0, messages, verdict)' /\ StoreInv' /\ VerdictInv'
  BY <1>1 DEF MessageInv, Blank, StoreInv, VerdictInv
<1> QED BY <1>1, <1>6, <1>7, <1>8, <1>9, <1>10, <1>11 DEF MessageInv

LEMMA MessageBody ==
    ASSUME IInv, Body
    PROVE  MessageInv'
<1>1. /\ DialogueInv /\ MessageInv /\ mode = "data" /\ ~body.tooLarge /\ mode' = "deliver"
      /\ wire = <<>> => ~open /\ wire' = <<>>
      /\ wire # <<>> => Head(wire).cmd = "DOT" /\ wire' = Tail(wire)
      /\ UNCHANGED <<phase, session, body, job, store, acks, open, peer, mails, messages, verdict>>
  BY DEF IInv, Body, TextEnded, RestOfWire, client
<1>2. /\ wire \in Seq(Lines) /\ TextLines(wire) /\ Len(wire) \in Nat /\ Len(body.lines) \in Nat
      /\ messages \in [Mails -> MessageType] /\ session.mail.id \in Mails
      /\ session.recipients \in Seq(Recipients) /\ Len(session.recipients) \in Nat
  BY <1>1, MessageTypes DEF DialogueInv, WireInv
<1>3. wire # <<>> => Tail(wire) = <<>> /\ Last(wire).cmd = "DOT" /\ Len(wire) = 1
  <2>1. wire # <<>> => Tail(wire) = <<>> /\ Last(wire) = Head(wire)
    BY <1>1, <1>2, TextHead
  <2>2. wire # <<>> => Len(Tail(wire)) = Len(wire) - 1
    BY <1>2
  <2>3. Len(<<>>) = 0 /\ Len(wire) \in Nat
    BY <1>2
  <2>4. wire # <<>> => Tail(wire) = <<>>
    BY <2>1
  <2>5. wire # <<>> => Len(wire) = 1
    BY <2>2, <2>3, <2>4
  <2> QED BY <1>1, <2>1, <2>5
<1>4. wire' = <<>>
  BY <1>1, <1>3
<1>5. open => FreshInv'
  BY <1>1, FreshText
<1>6. open => JobInv'
  <2> SUFFICES ASSUME open PROVE JobInv'
    OBVIOUS
  <2>1. peer.writing
    BY <1>1, InText
  <2>2. CopiesFor(session.mail.id, store) = {}
    BY <1>1, <2>1 DEF MessageInv, JobInv
  <2>3. job' = NoJob /\ NoJob.next = 1 /\ NoJob.delivered = 0 /\ NoJob.failed = 0
    BY <1>1 DEF DialogueInv, SessionInv, NoJob
  <2> HIDE DEF NoJob
  <2> QED BY <1>1, <1>2, <2>2, <2>3 DEF JobInv
<1>7. LeftInv'
  BY <1>1 DEF LeftInv
<1>8. TextInv'
  <2> DEFINE m == messages[session.mail.id]
             n == Len(body.lines)
  <2>1. /\ TextSent(m, body, wire, open)
        /\ \A i \in 1 .. n : body.lines[i] = i
        /\ verdict[session.mail.id] = "none"
        /\ m.ended \/ (open /\ peer.writing) => m.recipients = session.recipients /\ m.tls = InTls
    BY <1>1 DEF MessageInv, TextInv
  <2>2. m.lines \in Nat
    <3>1. m.lines \in 0 .. MaxText /\ MaxText \in Nat
      BY <1>2, BoundsAssumption DEF MessageType
    <3> QED BY <3>1
  <2> HIDE DEF m
  <2>3. m.lines >= n /\ (open => m.ended /\ m.lines = n)
    <3>1. CASE wire = <<>>
      <4>1. ~open /\ Len(wire) = 0
        BY <1>1, <3>1
      <4>2. m.lines >= n + Len(wire)
        BY <2>1, <3>1 DEF TextSent
      <4> QED BY <1>2, <2>2, <4>1, <4>2
    <3>2. CASE wire # <<>>
      <4>1. m.ended /\ m.lines = n + Len(wire) - 1
        BY <1>3, <2>1, <3>2 DEF TextSent
      <4>2. Len(wire) = 1
        BY <1>3, <3>2
      <4>3. n \in Nat
        BY <1>2
      <4>4. m.lines = n
        BY <4>1, <4>2, <4>3
      <4> QED BY <4>1, <4>3, <4>4
    <3> QED BY <3>1, <3>2
  <2>4. m = messages'[session'.mail.id]
    BY <1>1 DEF m
  <2> QED BY <1>1, <2>1, <2>3, <2>4 DEF TextInv, InTls
<1>9. LayerInv'
  <2>1. Len(wire') = 0
    BY <1>4
  <2> QED BY <1>1, <2>1 DEF MessageInv, LayerInv, Layered, InTls
<1>10. Blank(0, messages, verdict)' /\ StoreInv' /\ VerdictInv'
  BY <1>1 DEF MessageInv, Blank, StoreInv, VerdictInv
<1> QED BY <1>1, <1>5, <1>6, <1>7, <1>8, <1>9, <1>10 DEF MessageInv

\* The copy made is of the text as mxd has it, for a recipient of the transaction.
LEMMA CopyMade ==
    ASSUME IInv, mode = "deliver", NEW n \in 1 .. Len(session.recipients), NEW answered \in BOOLEAN
    PROVE  CopyOK(Copy(n, answered), messages[session.mail.id], open)
<1> DEFINE m == messages[session.mail.id]
           c == Copy(n, answered)
           len == Len(body.lines)
<1>1. /\ DialogueInv /\ MessageInv /\ Layered
  BY DEF IInv, DialogueInv, WireInv
<1>2. /\ messages \in [Mails -> MessageType] /\ session.mail.id \in Mails /\ session.mail.id # 0
      /\ body.lines \in Seq(1 .. MaxText) /\ len \in Nat
  BY <1>1, MessageTypes DEF DialogueInv, SessionInv
<1>3. /\ c.mail = session.mail.id /\ c.nth = n /\ c.to = Resolve[session.recipients[n].addr]
      /\ c.lines = body.lines /\ (c.tls <=> InTls) /\ c.tls \in BOOLEAN
  BY DEF Copy, InTls
<1>4. m.lines \in Nat
  <2>1. m.lines \in 0 .. MaxText /\ MaxText \in Nat
    BY <1>2, BoundsAssumption DEF MessageType
  <2> QED BY <2>1
<1>5. /\ m.lines >= len /\ (open => m.ended /\ m.lines = len)
      /\ \A i \in 1 .. len : body.lines[i] = i
      /\ m.ended => m.recipients = session.recipients /\ m.tls = InTls
  BY <1>1 DEF MessageInv, TextInv
<1>6. \A i \in 1 .. Len(session.recipients) : session.recipients[i].tls = InTls
  BY <1>1 DEF MessageInv, LayerInv
<1>7. /\ Text(m) \in Seq(Nat) /\ Len(Text(m)) = m.lines /\ \A i \in 1 .. m.lines : Text(m)[i] = i
  BY <1>4 DEF Text
<1>8. c.tls = InTls
  <2>1. InTls \in BOOLEAN
    BY DEF InTls
  <2> QED BY <1>3, <2>1, Zenon
<1> HIDE DEF c, m
<1>9. IsPrefix(c.lines, Text(m))
  <2>1. /\ SubSeq(Text(m), 1, len) \in Seq(Nat) /\ Len(SubSeq(Text(m), 1, len)) = len
        /\ \A i \in 1 .. len : SubSeq(Text(m), 1, len)[i] = Text(m)[i]
    BY <1>2, <1>4, <1>5, <1>7
  <2>2. \A i \in 1 .. len : SubSeq(Text(m), 1, len)[i] = body.lines[i]
    BY <1>2, <1>4, <1>5, <1>7, <2>1
  <2>3. body.lines = SubSeq(Text(m), 1, len)
    BY <1>2, <2>1, <2>2
  <2> QED BY <1>3, <1>5, <1>7, <2>3 DEF IsPrefix
<1>10. open => c.lines = Text(m)
  <2> SUFFICES ASSUME open PROVE body.lines = Text(m)
    BY <1>3
  <2>1. Len(Text(m)) = len /\ \A i \in 1 .. len : Text(m)[i] = body.lines[i]
    BY <1>5, <1>7
  <2> QED BY <1>2, <1>7, <2>1, SMTT(30)
<1>11. m.ended => /\ c.tls = m.tls /\ \A i \in 1 .. Len(m.recipients) : m.recipients[i].tls = c.tls
                  /\ c.nth \in 1 .. Len(m.recipients)
                  /\ Resolve[m.recipients[c.nth].addr] = c.to
  BY <1>3, <1>5, <1>6, <1>8
<1> QED BY <1>2, <1>3, <1>5, <1>9, <1>10, <1>11 DEF CopyOK, c, m


\* One recipient had its turn: with a copy that mxd knows of, with one it does not
\* know of, or with none.
LEMMA MessageTurn ==
    ASSUME IInv, mode = "deliver", job.next <= Len(session.recipients),
           NEW answered \in BOOLEAN, NEW new, new = {Copy(job.next, answered)} \/ (new = {} /\ ~answered),
           store' = store \cup new,
           job' = IF answered THEN [job EXCEPT !.next = @ + 1, !.delivered = @ + 1]
                  ELSE [job EXCEPT !.next = @ + 1, !.failed = @ + 1],
           UNCHANGED <<phase, mode, session, body, wire, acks, client>>
    PROVE  MessageInv'
<1> DEFINE id == session.mail.id
           c == Copy(job.next, answered)
           len == Len(session.recipients)
<1>1. /\ DialogueInv /\ MessageInv /\ mode = "deliver" /\ job.next <= len /\ store' = store \cup new
      /\ new = {c} \/ (new = {} /\ ~answered)
      /\ UNCHANGED <<phase, mode, session, body, wire, acks, open, peer, mails, messages, verdict>>
  BY DEF IInv, client
<1>2. /\ id \in Mails /\ len \in Nat /\ messages \in [Mails -> MessageType]
      /\ job \in [next : Nat, delivered : Nat, failed : Nat] /\ job.next # 0
  <2>1. ServerType /\ SessionInv
    BY <1>1, TypeParts DEF DialogueInv
  <2> QED BY <1>1, <2>1, MessageTypes DEF ServerType, SessionInv
<1>3. job.next \in 1 .. len /\ job.next \in Nat /\ job.delivered \in Nat /\ job.failed \in Nat
  BY <1>1, <1>2
<1>4. /\ job'.next = job.next + 1
      /\ answered => job'.delivered = job.delivered + 1 /\ job'.failed = job.failed
      /\ ~answered => job'.delivered = job.delivered /\ job'.failed = job.failed + 1
  BY <1>2
<1>5. c.mail = id /\ c.nth = job.next /\ c.lines = body.lines /\ c.answered = answered
  BY DEF Copy
<1>6. CopyOK(c, messages[id], open)
  BY <1>1, <1>3, CopyMade
<1> HIDE DEF c
<1>7. \A x \in store' : x \in store \/ x = c
  BY <1>1
<1>8. CopiesFor(id, store') = CopiesFor(id, store) \cup new
      /\ \A k : k # id => CopiesFor(k, store') = CopiesFor(k, store)
  BY <1>1, <1>5 DEF CopiesFor
<1>9. open => FreshInv'
  BY <1>1, <1>5, <1>7, FreshText
<1>10. open => JobInv'
  <2> SUFFICES ASSUME open PROVE JobInv'
    OBVIOUS
  <2> DEFINE copied == CopiesFor(id, store)
  <2>1. /\ \A x \in copied : x.lines = body.lines /\ x.nth < job.next
        /\ \A x, y \in copied : x.nth = y.nth => x = y
        /\ job.delivered = 0 <=> \A x \in copied : ~x.answered
        /\ job.failed = 0 <=> \A n \in 1 .. job.next - 1 : \E x \in copied : x.nth = n /\ x.answered
    BY <1>1 DEF MessageInv, JobInv
  <2>2. \A x \in copied : x.nth \in Nat
    <3>1. \A x \in store : x.nth \in 1 .. MaxRecipients
      BY <1>1, MessageTypes
    <3>2. MaxRecipients \in Nat
      BY BoundsAssumption
    <3> QED BY <3>1, <3>2 DEF CopiesFor
  <2> DEFINE copies == CopiesFor(id, store')
  <2>3. copies = copied \cup new
    BY <1>8
  <2> HIDE DEF copied, copies
  <2>4. /\ \A x \in copies : x \in copied \/ x = c
        /\ \A x \in copied : x \in copies /\ x.nth # job.next
        /\ answered => c \in copies
    BY <1>1, <1>3, <2>1, <2>2, <2>3
  <2>5. job'.next <= len + 1 /\ job'.next - 1 = job.next
    BY <1>3, <1>4
  <2>6. \A x \in copies : x.lines = body.lines /\ x.nth < job'.next
    <3> SUFFICES ASSUME NEW x \in copies PROVE x.lines = body.lines /\ x.nth < job'.next
      OBVIOUS
    <3>1. CASE x = c
      BY <1>3, <1>4, <1>5, <3>1
    <3>2. CASE x \in copied
      BY <1>3, <1>4, <2>1, <2>2, <3>2
    <3> QED BY <2>4, <3>1, <3>2
  <2>7. \A x, y \in copies : x.nth = y.nth => x = y
    BY <1>5, <2>1, <2>4
  <2>8. job'.delivered = 0 <=> \A x \in copies : ~x.answered
    <3>1. CASE answered
      <4>1. c.answered
        BY <1>5, <3>1, Zenon
      <4>2. job'.delivered # 0 /\ c \in copies
        BY <1>3, <1>4, <2>4, <3>1
      <4> QED BY <4>1, <4>2
    <3>2. CASE ~answered
      BY <1>4, <1>5, <2>1, <2>4, <3>2
    <3> QED BY <3>1, <3>2
  <2>9. job'.failed = 0 <=> \A n \in 1 .. job'.next - 1 : \E x \in copies : x.nth = n /\ x.answered
    <3>1. CASE answered
      <4>1. ASSUME \A n \in 1 .. job.next - 1 : \E x \in copied : x.nth = n /\ x.answered,
                   NEW n \in 1 .. job.next
            PROVE  \E x \in copies : x.nth = n /\ x.answered
        <5>1. CASE n = job.next
          BY <1>5, <2>4, <3>1, <5>1
        <5>2. CASE n \in 1 .. job.next - 1
          BY <2>4, <4>1, <5>2
        <5> QED BY <1>3, <5>1, <5>2
      <4>2. ASSUME \A n \in 1 .. job.next : \E x \in copies : x.nth = n /\ x.answered,
                   NEW n \in 1 .. job.next - 1
            PROVE  \E x \in copied : x.nth = n /\ x.answered
        <5>1. n \in 1 .. job.next /\ n # job.next
          BY <1>3
        <5>2. PICK x \in copies : x.nth = n /\ x.answered
          BY <4>2, <5>1
        <5>3. x # c
          BY <1>5, <5>1, <5>2
        <5> QED BY <2>4, <5>2, <5>3
      <4>3. job'.failed = job.failed
        BY <1>4, <3>1
      <4> QED BY <2>1, <2>5, <4>1, <4>2, <4>3
    <3>2. CASE ~answered
      <4>1. job'.failed # 0 /\ job.next \in 1 .. job'.next - 1
        BY <1>3, <1>4, <2>5, <3>2
      <4>2. \A x \in copies : ~(x.nth = job.next /\ x.answered)
        BY <1>5, <2>4, <3>2
      <4> QED BY <4>1, <4>2
    <3> QED BY <3>1, <3>2
  <2>10. id = session'.mail.id /\ len = Len(session'.recipients) /\ body' = body /\ mode' = mode
        /\ copies = CopiesFor(session'.mail.id, store')
    BY <1>1 DEF copies
  <2> QED BY <1>1, <2>5, <2>6, <2>7, <2>8, <2>9, <2>10 DEF JobInv
<1>11. LeftInv'
  BY <1>1 DEF LeftInv
<1>12. TextInv' /\ LayerInv' /\ Blank(0, messages, verdict)'
  BY <1>1 DEF MessageInv, TextInv, LayerInv, Layered, InTls, Blank
<1>13. StoreInv'
  BY <1>1, <1>5, <1>6, <1>7 DEF MessageInv, StoreInv
<1>14. VerdictInv'
  <2>1. verdict[id] = "none"
    BY <1>1 DEF MessageInv, TextInv
  <2>2. ASSUME NEW k \in Mails PROVE TrueOf(verdict[k], CopiesFor(k, store'), messages[k])
    <3>1. CASE k = id
      BY <2>1, <3>1 DEF TrueOf
    <3>2. CASE k # id
      BY <1>1, <1>8, <3>2 DEF MessageInv, VerdictInv
    <3> QED BY <3>1, <3>2
  <2>3. open /\ peer.writing => verdict[peer.mail.id] = "none"
    BY <1>1 DEF MessageInv, VerdictInv
  <2>4. open => acks = <<>>
    BY <1>1, InText
  <2> QED BY <1>1, <2>2, <2>3, <2>4 DEF VerdictInv
<1> QED BY <1>1, <1>9, <1>10, <1>11, <1>12, <1>13, <1>14 DEF MessageInv

LEMMA MessageDeliver ==
    ASSUME IInv, Deliver
    PROVE  MessageInv'
<1>1. /\ mode = "deliver" /\ job.next <= Len(session.recipients)
      /\ store' = store \cup {Copy(job.next, TRUE)}
      /\ job' = [job EXCEPT !.next = @ + 1, !.delivered = @ + 1]
      /\ UNCHANGED <<phase, mode, session, body, wire, acks, client>>
  BY DEF Deliver
<1> QED BY <1>1, MessageTurn

\* The others still get theirs.
LEMMA MessageDeliverFails ==
    ASSUME IInv, DeliverFails
    PROVE  MessageInv'
<1>1. /\ mode = "deliver" /\ job.next <= Len(session.recipients)
      /\ job' = [job EXCEPT !.next = @ + 1, !.failed = @ + 1]
      /\ UNCHANGED <<phase, mode, session, body, wire, acks, client>>
  BY DEF DeliverFails
<1>2. PICK new : /\ new = {Copy(job.next, FALSE)} \/ new = {}
                 /\ store' = store \cup new
  <2>1. CASE store' = store
    <3>1. store' = store \cup {}
      BY <2>1
    <3> QED BY <3>1
  <2>2. CASE store' = store \cup {Copy(job.next, FALSE)}
    BY <2>2
  <2> QED BY <2>1, <2>2 DEF DeliverFails
<1> QED BY <1>1, <1>2, MessageTurn


\* The answer to DATA says who has the message.
LEMMA OutcomeIsTrue ==
    ASSUME IInv, open, mode = "deliver", job.next > Len(session.recipients)
    PROVE  TrueOf(Outcome(job), CopiesFor(session.mail.id, store), messages[session.mail.id])
<1> DEFINE m == messages[session.mail.id]
           len == Len(session.recipients)
           copies == CopiesFor(session.mail.id, store)
           known == {x \in copies : x.answered /\ x.lines = Text(m)}
           served == {c.nth : c \in known}
           all == 1 .. Len(m.recipients)
<1>1. DialogueInv /\ MessageInv
  BY DEF IInv
<1>2. /\ job.next <= len + 1
      /\ \A c, d \in copies : c.nth = d.nth => c = d
      /\ job.delivered = 0 <=> \A c \in copies : ~c.answered
      /\ job.failed = 0 <=> \A n \in 1 .. job.next - 1 : \E c \in copies : c.nth = n /\ c.answered
  BY <1>1 DEF MessageInv, JobInv
<1>3. len \in Nat /\ job.next \in Nat
  <2>1. ServerType
    BY <1>1, TypeParts DEF DialogueInv
  <2> QED BY <1>1, <2>1, MessageTypes DEF ServerType
<1>4. job.next - 1 = len
  BY <1>2, <1>3
<1>5. m.ended /\ m.recipients = session.recipients
  BY <1>1 DEF MessageInv, TextInv
<1>6. \A c \in copies : c.lines = Text(m) /\ c.nth \in all
  BY <1>1, <1>5 DEF MessageInv, StoreInv, CopyOK, CopiesFor
<1>7. all = 1 .. len
  BY <1>5
<1> HIDE DEF copies, m, all
<1>8. /\ \A c : c \in known <=> c \in copies /\ c.answered
      /\ \A n : n \in served <=> \E c \in known : c.nth = n
      /\ served \subseteq all
  BY <1>6
<1> HIDE DEF served, known
<1>9. job.failed = 0 <=> served = all
  <2>1. job.failed = 0 <=> \A n \in all : n \in served
    BY <1>2, <1>4, <1>7, <1>8
  <2> QED BY <1>8, <2>1
<1>10. job.delivered = 0 <=> served = {}
  BY <1>2, <1>8
<1>11. TrueOf(Outcome(job), copies, m)
  <2>1. CASE job.delivered = 0
    <3>1. Outcome(job) = "451" /\ \A c \in copies : ~c.answered
      BY <1>2, <2>1 DEF Outcome
    <3> QED BY <1>2, <3>1 DEF TrueOf
  <2>2. CASE job.delivered # 0 /\ job.failed = 0
    <3>1. Outcome(job) = "250" /\ served = all
      BY <1>9, <2>2 DEF Outcome
    <3> QED BY <1>2, <3>1 DEF TrueOf, served, known, all
  <2>3. CASE job.delivered # 0 /\ job.failed # 0
    <3>1. Outcome(job) = "250 partial" /\ served # {} /\ served # all
      BY <1>9, <1>10, <2>3 DEF Outcome
    <3> QED BY <1>2, <3>1 DEF TrueOf, served, known, all
  <2> QED BY <2>1, <2>2, <2>3
<1> QED BY <1>11 DEF copies, m

\* The transaction is over, and a true answer on its way.
LEMMA MessageConcluded ==
    ASSUME IInv, mode # "command", mode = "data" => (wire # <<>> /\ Last(wire).cmd = "DOT") \/ ~open,
           NEW code \in Verdicts, Concludes(code),
           open => TrueOf(code, CopiesFor(session.mail.id, store), messages[session.mail.id])
    PROVE  MessageInv'
<1>1. /\ DialogueInv /\ MessageInv /\ acks' = Append(acks, code) /\ wire' = <<>> /\ session' = NoSession
      /\ body' = NoBody /\ mode' = "command"
      /\ UNCHANGED <<phase, store, open, peer, mails, messages, verdict>>
  BY DEF IInv, Concludes, client
<1>2. /\ NoMail.id = 0 /\ Len(<<>>) = 0 /\ NoSession.mail = NoMail /\ NoSession.recipients = <<>>
      /\ Len(NoBody.lines) = 0
  BY DEF NoMail, NoSession, NoBody
<1>3. open => /\ peer.writing /\ peer.mail = session.mail
              /\ Len(acks') = 1 /\ acks'[1] = code /\ View(0)' = peer
              /\ \A i : i = 1 => View(i)' = Informed'
              /\ Informed'.asked = <<>> /\ Informed'.mail = NoMail
  BY <1>1, Verdict DEF Knows
<1>4. open => FreshInv'
  <2> SUFFICES ASSUME open PROVE FreshInv'
    OBVIOUS
  <2>1. FreshView(peer, messages, verdict, store)
    <3>1. View(0) = peer /\ 0 \in 0 .. Len(acks)
      BY <1>1, MessageTypes
    <3> QED BY <1>1, <3>1 DEF MessageInv, FreshInv
  <2>2. FreshView(Informed', messages, verdict, store)
    BY <1>2, <1>3 DEF FreshView
  <2>3. ASSUME NEW i \in 0 .. Len(acks') PROVE FreshView(View(i)', messages', verdict', store')
    <3>1. i = 0 \/ i = 1
      <4>1. Len(acks') = 1
        BY <1>3
      <4> QED BY <4>1
    <3>2. CASE i = 0
      BY <1>1, <1>3, <2>1, <3>2
    <3>3. CASE i = 1
      BY <1>1, <1>3, <2>2, <3>3
    <3> QED BY <3>1, <3>2, <3>3
  <2>4. \A k \in Mails : k > mails' => Unused(k, messages', verdict', store')
    BY <1>1 DEF MessageInv, FreshInv
  <2> QED BY <2>3, <2>4 DEF FreshInv
<1>5. JobInv'
  BY <1>1 DEF JobInv
<1>6. LeftInv'
  BY <1>1, <1>2 DEF MessageInv, LeftInv, Blank
<1>7. TextInv'
  BY <1>1, <1>2 DEF TextInv
<1>8. LayerInv'
  BY <1>1, <1>2 DEF LayerInv
<1>9. Blank(0, messages, verdict)' /\ StoreInv'
  BY <1>1 DEF MessageInv, Blank, StoreInv
<1>10. VerdictInv'
  BY <1>1, <1>3 DEF MessageInv, VerdictInv
<1> QED BY <1>1, <1>4, <1>5, <1>6, <1>7, <1>8, <1>9, <1>10 DEF MessageInv

LEMMA MessageTooLarge ==
    ASSUME IInv, TooLarge
    PROVE  MessageInv'
<1>1. /\ mode = "data" /\ mode' = "command" /\ session' = NoSession /\ body' = NoBody
      /\ acks' = Append(acks, "552")
      /\ wire = <<>> => ~open /\ wire' = <<>>
      /\ wire # <<>> => Head(wire).cmd = "DOT" /\ wire' = Tail(wire)
      /\ UNCHANGED <<phase, job, store, client, faults>>
      /\ DialogueInv /\ MessageInv
  BY DEF TooLarge, TextEnded, RestOfWire, Reply, AfterData, IInv
<1>2. WireInv /\ SessionInv /\ wire \in Seq(Lines)
  BY <1>1, DialogueTypes DEF DialogueInv
<1>3. wire # <<>> => Tail(wire) = <<>> /\ Last(wire).cmd = "DOT"
  BY <1>1, <1>2, TextHead DEF WireInv
<1>4. wire' = <<>> /\ job' = NoJob
  BY <1>1, <1>2, <1>3 DEF SessionInv
<1>5. Concludes("552") /\ "552" \in Verdicts
  BY <1>1, <1>4 DEF Concludes, Verdicts
<1>6. open => TrueOf("552", CopiesFor(session.mail.id, store), messages[session.mail.id])
  <2>1. open => peer.writing
    BY <1>1, InText
  <2>2. open => CopiesFor(session.mail.id, store) = {}
    BY <1>1, <2>1 DEF MessageInv, JobInv
  <2> QED BY <2>2 DEF TrueOf
<1> QED BY <1>1, <1>3, <1>5, <1>6, MessageConcluded

LEMMA MessageDelivered ==
    ASSUME IInv, Delivered
    PROVE  MessageInv'
<1>1. /\ mode = "deliver" /\ mode' = "command" /\ session' = NoSession /\ body' = NoBody /\ job' = NoJob
      /\ job.next > Len(session.recipients) /\ DialogueInv
      /\ acks' = Append(acks, Outcome(job)) /\ UNCHANGED <<phase, store, wire, client, faults>>
  BY DEF Delivered, Reply, AfterData, IInv
<1>2. Outcome(job) \in Verdicts
  BY DEF Outcome, Verdicts
<1>3. wire' = <<>>
  BY <1>1 DEF DialogueInv, WireInv
<1>4. Concludes(Outcome(job))
  BY <1>1, <1>3 DEF Concludes
<1>5. open => TrueOf(Outcome(job), CopiesFor(session.mail.id, store), messages[session.mail.id])
  BY <1>1, OutcomeIsTrue
<1> QED BY <1>1, <1>2, <1>4, <1>5, MessageConcluded


----------------------------------------------------------------------------
(* Texts, copies and verdicts *)

LEMMA MessageInit ==
    ASSUME Init
    PROVE  MessageInv
<1>1. /\ phase = "clear" /\ mode = "command" /\ session = NoSession /\ body = NoBody
      /\ store = {} /\ wire = <<>> /\ acks = <<>> /\ open = TRUE
      /\ messages = [id \in Mails |-> NoMessage] /\ verdict = [id \in Mails |-> "none"]
  BY DEF Init
<1>2. DialogueInv /\ View(0) = peer /\ 0 \in Mails
  BY DialogueInit, MessageTypes
<1>3. peer.mail = NoMail /\ peer.asked = <<>> /\ ~peer.writing
  BY DEF Init
<1>4. /\ NoMail.id = 0 /\ Len(<<>>) = 0 /\ NoSession.mail = NoMail /\ NoSession.recipients = <<>>
      /\ Len(NoBody.lines) = 0
  BY DEF NoMail, NoSession, NoBody
<1>5. \A id \in Mails : Unused(id, messages, verdict, store)
  BY <1>1 DEF Unused, Blank
<1>6. FreshInv
  <2>1. ASSUME NEW i \in 0 .. Len(acks) PROVE FreshView(View(i), messages, verdict, store)
    <3>1. i = 0
      BY <1>1, <1>4, <2>1
    <3> QED BY <1>2, <1>3, <1>4, <3>1 DEF FreshView
  <2> QED BY <1>5, <2>1 DEF FreshInv
<1>7. JobInv /\ LayerInv
  BY <1>1, <1>3, <1>4 DEF JobInv, LayerInv
<1>8. TextInv
  BY <1>1, <1>4 DEF TextInv
<1>9. Blank(0, messages, verdict) /\ StoreInv
  BY <1>1, <1>2, <1>5 DEF Unused, StoreInv
<1>10. VerdictInv
  BY <1>1, <1>3 DEF VerdictInv, TrueOf
<1> QED BY <1>1, <1>6, <1>7, <1>8, <1>9, <1>10 DEF MessageInv

LEMMA MessageStutter ==
    ASSUME IInv, UNCHANGED vars
    PROVE  MessageInv'
<1>1. /\ UNCHANGED <<phase, mode, session, body, job, store, wire, acks, open, peer, mails, messages, verdict>>
      /\ DialogueInv /\ MessageInv
  BY DEF IInv, vars, server, client
<1>2. \A i : View(i)' = View(i)
  BY <1>1 DEF View
<1>3. open => FreshInv' /\ JobInv'
  BY <1>1, <1>2 DEF MessageInv, FreshInv, JobInv
<1>4. ~open => LeftInv'
  BY <1>1 DEF MessageInv, LeftInv, Layered, Blank
<1>5. Blank(0, messages, verdict)' /\ StoreInv' /\ VerdictInv'
  BY <1>1 DEF MessageInv, Blank, StoreInv, VerdictInv
<1>6. TextInv' /\ LayerInv'
  BY <1>1 DEF MessageInv, TextInv, LayerInv, Layered, InTls
<1> QED BY <1>1, <1>3, <1>4, <1>5, <1>6 DEF MessageInv

LEMMA MessageStep ==
    ASSUME IInv, [Next]_vars
    PROVE  MessageInv'
<1>1. CASE \/ SendMail \/ \E a \in Addrs : SendRcpt(a)
           \/ SendData \/ SendQuit \/ \E cmd \in Asides : SendAside(cmd)
  BY <1>1, MessageAsks
<1>2. CASE \/ \E cmd \in {"TEXT", "LONG"} : SendText(cmd)
           \/ SendDot
  BY <1>2, MessageTexts
<1>3. CASE Receive
  BY <1>3, MessageReceive
<1>4. CASE Disconnect
  BY <1>4, MessageDisconnect
<1>5. CASE Aside \/ StartTls \/ MailFrom \/ RcptTo \/ Data \/ Rset \/ Quit
  BY <1>5, MessageCommands
<1>6. CASE Eof \/ HandshakeFails \/ ConnectionLost \/ Crash
  BY <1>6, MessageEnd
<1>7. CASE Handshake
  BY <1>7, MessageHandshake
<1>8. CASE TextLine \/ TooLarge \/ Body \/ Deliver \/ DeliverFails \/ Delivered
  BY <1>8, MessageTextLine, MessageTooLarge, MessageBody, MessageDeliver, MessageDeliverFails,
     MessageDelivered
<1>9. CASE UNCHANGED vars
  BY <1>9, MessageStutter
<1> QED BY <1>1, <1>2, <1>3, <1>4, <1>5, <1>6, <1>7, <1>8, <1>9, Zenon DEF Next, Serve

\* The dialogue, the texts, the copies and the verdicts keep their invariant.
THEOREM Invariance == Spec => []IInv
<1>1. Init => IInv
  BY DialogueInit, MessageInit DEF IInv
<1>2. IInv /\ [Next]_vars => IInv'
  BY DialogueStep, MessageStep DEF IInv
<1> QED BY <1>1, <1>2, PTL DEF Spec

\* A copy holds the lines sent under its own MAIL, for a recipient accepted in that
\* transaction and layer, whole unless the connection ended inside DATA; nothing
\* said in clear before STARTTLS counts inside TLS (handle_connection,
\* read_data_bounded, deliver_to_recipients).
THEOREM CopiesFaithful == Spec => []CopiesAreAsSent
<1>1. IInv => NothingCrossesStartTls
  <2> SUFFICES ASSUME IInv PROVE NothingCrossesStartTls
    OBVIOUS
  <2>1. DialogueInv /\ MessageInv
    BY DEF IInv
  <2>2. session.recipients \in Seq(Recipients) /\ messages \in [Mails -> MessageType]
        /\ \A c \in store : c.mail \in Mails
    BY <2>1, MessageTypes
  <2>3. phase = "tls" => /\ session.mail # NoMail => session.mail.tls
                         /\ \A n \in DOMAIN session.recipients : session.recipients[n].tls
    <3> SUFFICES ASSUME phase = "tls"
                 PROVE  /\ session.mail # NoMail => session.mail.tls
                        /\ \A n \in DOMAIN session.recipients : session.recipients[n].tls
      OBVIOUS
    <3>1. Layered /\ InTls
      BY DEF Layered, InTls
    <3>2. DOMAIN session.recipients = 1 .. Len(session.recipients)
      BY <2>2
    <3>3. InTls = TRUE
      BY <3>1
    <3>4. /\ session.mail # NoMail => session.mail.tls = TRUE
          /\ \A n \in 1 .. Len(session.recipients) : session.recipients[n].tls = TRUE
      BY <2>1, <3>1, <3>3 DEF MessageInv, LayerInv
    <3> QED BY <3>2, <3>4
  <2>4. ASSUME NEW c \in store, messages[c.mail].ended
        PROVE  /\ c.tls = messages[c.mail].tls
               /\ \A n \in DOMAIN messages[c.mail].recipients : messages[c.mail].recipients[n].tls = c.tls
    <3>1. CopyOK(c, messages[c.mail], open)
      BY <2>1 DEF MessageInv, StoreInv
    <3>2. DOMAIN messages[c.mail].recipients = 1 .. Len(messages[c.mail].recipients)
      BY <2>2 DEF MessageType
    <3> QED BY <2>4, <3>1, <3>2 DEF CopyOK
  <2> QED BY <2>3, <2>4 DEF NothingCrossesStartTls
<1>2. ASSUME IInv, NEW c \in store, NEW m, m = messages[c.mail]
      PROVE  IF m.ended /\ c.lines = Text(m)
             THEN c.nth \in DOMAIN m.recipients /\ Resolve[m.recipients[c.nth].addr] = c.to
             ELSE ~open /\ IsPrefix(c.lines, Text(m))
  <2>1. DialogueInv /\ CopyOK(c, m, open)
    BY <1>2 DEF IInv, MessageInv, StoreInv
  <2>2. DOMAIN m.recipients = 1 .. Len(m.recipients)
    <3>1. m \in MessageType
      BY <1>2, <2>1, MessageTypes
    <3> QED BY <3>1 DEF MessageType
  <2> QED BY <2>1, <2>2 DEF CopyOK
<1>3. IInv => CopiesAreAsSent
  BY <1>1, <1>2 DEF CopiesAreAsSent
<1> QED BY <1>3, Invariance, PTL

\* A commit whose answer was lost cost a fault.
LossInv == IsFiniteSet(Unanswered) /\ Cardinality(Unanswered) <= faults

LEMMA LossStep ==
    ASSUME LossInv, faults \in Nat, [Next]_vars
    PROVE  LossInv'
<1>1. CASE UNCHANGED <<store, faults>>
  BY <1>1 DEF LossInv, Unanswered
<1>2. CASE faults' = faults /\ \E n : store' = store \cup {Copy(n, TRUE)}
  <2>1. PICK n : store' = store \cup {Copy(n, TRUE)}
    BY <1>2
  <2>2. Copy(n, TRUE).answered
    BY DEF Copy
  <2>3. Unanswered' = Unanswered
    BY <2>1, <2>2 DEF Unanswered
  <2> QED BY <1>2, <2>3 DEF LossInv
<1>3. CASE faults' = faults + 1 /\ (store' = store \/ \E c : store' = store \cup {c})
  <2>1. PICK c : Unanswered' = Unanswered \/ Unanswered' = Unanswered \cup {c}
    BY <1>3 DEF Unanswered
  <2>2. IsFiniteSet(Unanswered) /\ Cardinality(Unanswered) <= faults /\ Cardinality(Unanswered) \in Nat
    BY FS_CardinalityType DEF LossInv
  <2>3. /\ IsFiniteSet(Unanswered \cup {c})
        /\ Cardinality(Unanswered \cup {c}) =
              IF c \in Unanswered THEN Cardinality(Unanswered) ELSE Cardinality(Unanswered) + 1
    BY <2>2, FS_AddElement
  <2>4. IsFiniteSet(Unanswered')
        /\ Cardinality(Unanswered') \in {Cardinality(Unanswered), Cardinality(Unanswered) + 1}
    <3>1. CASE Unanswered' = Unanswered
      BY <2>2, <3>1
    <3>2. CASE Unanswered' = Unanswered \cup {c}
      BY <2>3, <3>2
    <3> QED BY <2>1, <3>1, <3>2
  <2> QED BY <1>3, <2>2, <2>4 DEF LossInv
<1>4. CASE Deliver
  BY <1>2, <1>4 DEF Deliver
<1>5. CASE DeliverFails
  BY <1>3, <1>5 DEF DeliverFails
<1>6. CASE Crash
  BY <1>3, <1>6 DEF Crash
<1>7. CASE \/ SendMail \/ \E a \in Addrs : SendRcpt(a)
           \/ SendData \/ \E cmd \in Asides : SendAside(cmd)
           \/ SendQuit \/ \E cmd \in {"TEXT", "LONG"} : SendText(cmd)
           \/ SendDot \/ Receive \/ Disconnect
  BY <1>1, <1>7 DEF SendMail, SendRcpt, SendData, SendAside, SendQuit, SendText, SendDot,
                    Receive, Disconnect
<1>8. CASE Aside \/ StartTls \/ MailFrom \/ RcptTo \/ Data \/ Rset \/ Quit \/ Eof
  BY <1>1, <1>8 DEF Aside, StartTls, MailFrom, RcptTo, Data, Rset, Quit, Eof, Command
<1>9. CASE Handshake \/ HandshakeFails \/ TextLine \/ TooLarge \/ Body \/ Delivered \/ ConnectionLost
  BY <1>1, <1>9 DEF Handshake, HandshakeFails, TextLine, TooLarge, Body, Delivered, ConnectionLost
<1>10. CASE UNCHANGED vars
  BY <1>1, <1>10 DEF vars
<1> QED BY <1>4, <1>5, <1>6, <1>7, <1>8, <1>9, <1>10, Zenon DEF Next, Serve

\* The answer to DATA is true of what mxd could know: who it says has the message has
\* it, a recipient that failed has a copy only behind a commit whose answer was lost,
\* one fault each, and nobody has two (deliver_to_recipients, DeliveryOutcome).
THEOREM VerdictsTrue == Spec => []VerdictIsTrue
<1>1. ASSUME IInv, NEW id \in Mails
      PROVE  LET copies == CopiesOf(id)
                 served == {c.nth : c \in {x \in copies : x.answered /\ x.lines = Text(messages[id])}}
                 all == DOMAIN messages[id].recipients
             IN  verdict[id] # "none" =>
                   /\ \A c, d \in copies : c.nth = d.nth => c = d
                   /\ CASE verdict[id] = "250" -> served = all
                        [] verdict[id] = "250 partial" -> served # {} /\ served # all
                        [] verdict[id] = "451" -> \A c \in copies : ~c.answered
                        [] OTHER -> copies = {}
  <2>1. TrueOf(verdict[id], CopiesFor(id, store), messages[id])
    BY <1>1 DEF IInv, MessageInv, VerdictInv
  <2>2. CopiesFor(id, store) = CopiesOf(id)
    BY DEF CopiesFor, CopiesOf
  <2>3. DOMAIN messages[id].recipients = 1 .. Len(messages[id].recipients)
    <3>1. messages[id] \in MessageType
      BY <1>1, MessageTypes DEF IInv
    <3> QED BY <3>1 DEF MessageType
  <2> HIDE DEF CopiesOf
  <2> QED BY <2>1, <2>2, <2>3 DEF TrueOf
<1>2. TypeOK => faults \in Nat
  BY BoundsAssumption DEF TypeOK
<1>3. Init => LossInv
  <2> SUFFICES ASSUME Init PROVE LossInv
    OBVIOUS
  <2>1. Unanswered = {} /\ faults = 0
    BY DEF Init, Unanswered
  <2> QED BY <2>1, FS_EmptySet DEF LossInv
<1>4. LossInv /\ TypeOK /\ [Next]_vars => LossInv'
  BY <1>2, LossStep
<1>5. IInv /\ LossInv => VerdictIsTrue
  BY <1>1 DEF VerdictIsTrue, LossInv
<1> QED BY <1>3, <1>4, <1>5, Invariance, TypeCorrectness, PTL DEF Spec

=============================================================================
