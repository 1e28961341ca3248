-------------------------- MODULE Submission_proofs --------------------------
(***************************************************************************)
(* Proofs about Submission, for every number of sessions, addresses,       *)
(* recipients, attempts and faults: what a client is told of a DATA is     *)
(* what happened to it, and Submission implements SubmitPromise.           *)
(*                                                                         *)
(* The inductive invariant says of each session where its handler stands   *)
(* in the list of recipients (Place), and of each attempt that was         *)
(* answered what the answer says (Exact).  A step is the work of one       *)
(* session on the attempt it owns and leaves all others alone (Alone).     *)
(***************************************************************************)
EXTENDS Submission, TLAPS

----------------------------------------------------------------------------
(* The inductive invariant *)

Working(s) == bridge[s].pc \in {"data", "submit"}
Try(s) == bridge[s].try

\* Between the choice of a route and the end of the dialogue with diamy-mxd.
Relaying(s) == handler[s].pc \in DOMAIN NextStage \cup {"text", "final", "quit"}

\* A session between DATA and its answer has an attempt, which names its recipients
\* and is not answered; it has a handler once its text was sent.
Own(s) ==
    /\ handler[s].pc # "none" <=> bridge[s].pc = "submit"
    /\ Working(s) => /\ Try(s) \in 1 .. tries
                     /\ named[Try(s)] = bridge[s].rcpts
                     /\ told[Try(s)] = "none" /\ Try(s) \notin barred
                     /\ client[s] = "there" /\ Try(s) \in cut => Try(s) \in doubt
    /\ ~Working(s) => Try(s) = 0

\* Nobody has a copy before the first recipient has its turn.
Before(s) ==
    /\ handler[s].pc = "received" => handler[s].next = 1 /\ ~handler[s].relayed
    /\ Working(s) /\ handler[s].pc \in {"none", "received"} =>
           \A n \in Entries : copies[Try(s)][n] = 0

\* The recipient whose turn it is, and what diamy-submitd knows of it.
Turn(s) ==
    LET h == handler[s]
        rcpts == bridge[s].rcpts
    IN  Relaying(s) => /\ h.next <= Len(rcpts)
                       /\ AfterFirstAt[rcpts[h.next]] \in LocalDomains
                       /\ h.pc \in {"data", "text", "final", "quit"} => rcpts[h.next] \in Known

\* Where the handler stands: behind it, as long as no fault put the attempt in
\* doubt, exactly those that can be served have a copy; the recipient whose turn it
\* is has one once diamy-mxd took the text; nobody ahead has.
Place(s) ==
    LET h == handler[s]
        rcpts == bridge[s].rcpts
        count == copies[Try(s)]
    IN  h.pc \notin {"none", "received"} =>
            /\ h.next <= Len(rcpts) + 1
            /\ \A n \in Entries : n > h.next => count[n] = 0
            /\ h.next \in Entries => count[h.next] = IF h.pc \in {"final", "quit"} THEN 1 ELSE 0
            /\ h.relayed => \E n \in Entries : n < h.next /\ count[n] = 1
            /\ Try(s) \notin doubt => \A n \in Entries : n < h.next =>
                  /\ count[n] = 1 <=> Deliverable(rcpts[n])
                  /\ count[n] = 1 => h.relayed

\* Two sessions never work on the same attempt.
TriesDiffer ==
    \A r, s \in Sessions : Working(r) /\ Working(s) /\ Try(r) = Try(s) => r = s

\* Nothing is known of an attempt that has not begun.
Future(t) ==
    t > tries => /\ \A n \in Entries : copies[t][n] = 0
                 /\ told[t] = "none"
                 /\ t \notin cut \cup doubt \cup barred

\* No recipient has two copies.
Once(t) == \A n \in Entries : copies[t][n] \in {0, 1}

\* What an answer says, one code after the other.
Exact(t) ==
    LET served == {n \in Entries : copies[t][n] = 1}
        can == {n \in DOMAIN named[t] : Deliverable(named[t][n])}
    IN  t \notin doubt =>
            /\ told[t] = "250" => served = can /\ can # {} /\ t \notin cut
            /\ told[t] = "550" => can = {} /\ served = {}
            /\ told[t] = "451" => t \in barred /\ served = {}

IInv ==
    /\ TypeOK /\ TriesDiffer
    /\ \A s \in Sessions : Own(s) /\ Before(s) /\ Turn(s) /\ Place(s)
    /\ \A t \in Attempts : Future(t) /\ Once(t) /\ Exact(t)

----------------------------------------------------------------------------
(* Types *)

Stages == {"connect", "banner", "ehlo", "mail", "rcpt", "data"}

LEMMA StageFacts ==
    /\ DOMAIN NextStage = Stages
    /\ \A pc \in Stages : NextStage[pc] \in Stages \cup {"text"}
    /\ \A pc \in Stages : NextStage[pc] \in {"data", "text"} <=> pc \in {"rcpt", "data"}
BY DEF NextStage, Stages

\* The parts of TypeOK.
SessionType ==
    [pc : {"command", "user", "password", "plain", "data", "submit", "closed"},
     authed : BOOLEAN, mail : BOOLEAN, rcpts : Seq(Addrs), size : Sizes, try : 0 .. MaxAttempts]
HandlerType ==
    [pc : {"none", "received", "route", "text", "final", "quit"} \cup DOMAIN NextStage,
     next : 1 .. MaxRecipients + 1, relayed : BOOLEAN]

BridgeOK ==
    /\ bridge \in [Sessions -> SessionType]
    /\ \A s \in Sessions : Len(bridge[s].rcpts) <= MaxRecipients
HandlerOK == handler \in [Sessions -> HandlerType]
AttemptsOK ==
    /\ expired \in BOOLEAN /\ tries \in 0 .. MaxAttempts /\ faults \in 0 .. MaxFaults
    /\ named \in [Attempts -> Seq(Addrs)]
    /\ copies \in [Attempts -> [Entries -> Nat]]
    /\ told \in [Attempts -> Codes]
    /\ cut \subseteq Attempts /\ doubt \subseteq Attempts /\ barred \subseteq Attempts

LEMMA TypeParts ==
    TypeOK <=> BridgeOK /\ client \in [Sessions -> {"there", "gone"}] /\ HandlerOK /\ AttemptsOK
BY DEF TypeOK, BridgeOK, HandlerOK, AttemptsOK, SessionType, HandlerType

LEMMA TypePartsNext ==
    TypeOK' <=> /\ BridgeOK' /\ client' \in [Sessions -> {"there", "gone"}]
                /\ HandlerOK' /\ AttemptsOK'
BY DEF TypeOK, BridgeOK, HandlerOK, AttemptsOK, SessionType, HandlerType

\* The sessions a step leaves behind.
LEMMA BridgeStep ==
    ASSUME BridgeOK, NEW s \in Sessions, NEW b \in SessionType, Len(b.rcpts) <= MaxRecipients,
           bridge' = [bridge EXCEPT ![s] = b]
    PROVE  /\ BridgeOK' /\ bridge'[s] = b
           /\ \A r \in Sessions : r # s => bridge'[r] = bridge[r]
BY DEF BridgeOK

LEMMA HandlerStep ==
    ASSUME HandlerOK, NEW s \in Sessions, NEW h \in HandlerType,
           handler' = [handler EXCEPT ![s] = h]
    PROVE  /\ HandlerOK' /\ handler'[s] = h
           /\ \A r \in Sessions : r # s => handler'[r] = handler[r]
BY DEF HandlerOK

\* States both begin in.
LEMMA NoFacts ==
    /\ <<>> \in Seq(Addrs) /\ Len(<<>>) <= MaxRecipients
    /\ NoSession \in SessionType /\ NoSession.rcpts = <<>> /\ NoSession.try = 0
    /\ NoSession.pc = "command"
    /\ [NoSession EXCEPT !.pc = "closed"] \in SessionType
    /\ [NoSession EXCEPT !.pc = "closed"].rcpts = <<>>
    /\ [NoSession EXCEPT !.pc = "closed"].try = 0
    /\ [NoSession EXCEPT !.pc = "closed"].pc = "closed"
    /\ NoHandler \in HandlerType /\ NoHandler.pc = "none"
<1>1. <<>> \in Seq(Addrs) /\ Len(<<>>) <= MaxRecipients
  BY BoundsAssumption
<1>2. /\ NoHandler \in HandlerType /\ NoHandler.pc = "none"
  BY BoundsAssumption DEF NoHandler, HandlerType
<1>3. 0 \in 0 .. MaxAttempts /\ "small" \in Sizes
  BY BoundsAssumption DEF Sizes
<1> QED BY <1>1, <1>2, <1>3 DEF NoSession, SessionType

\* What a session at work holds.
LEMMA WorkFacts ==
    ASSUME IInv, NEW s \in Sessions, Working(s)
    PROVE  /\ Try(s) \in Attempts /\ tries \in Nat
           /\ bridge[s].rcpts \in Seq(Addrs) /\ Len(bridge[s].rcpts) \in Nat
           /\ Len(bridge[s].rcpts) <= MaxRecipients
BY BoundsAssumption DEF IInv, TypeOK, Own, Attempts, Try

\* The end of a relay moves the handler to the next recipient.
LEMMA EndRelayFacts ==
    ASSUME IInv, NEW s \in Sessions, NEW ok \in BOOLEAN,
           Relaying(s) \/ MoreToRelay(s), EndRelay(s, ok)
    PROVE  /\ bridge[s].pc = "submit" /\ handler[s].next \in Entries
           /\ handler'[s] = [pc |-> "route", next |-> handler[s].next + 1,
                             relayed |-> handler[s].relayed \/ ok]
           /\ \A r \in Sessions : r # s => handler'[r] = handler[r]
           /\ HandlerOK'
<1>1. HandlerOK
  BY TypeParts DEF IInv
<1>2. handler[s].pc # "none"
  BY StageFacts DEF Relaying, MoreToRelay, Stages
<1>3. bridge[s].pc = "submit"
  BY <1>2 DEF IInv, Own
<1>4. handler[s].next <= Len(bridge[s].rcpts)
  BY DEF IInv, Turn, MoreToRelay
<1>5. handler[s].next \in 1 .. MaxRecipients
  BY <1>1, <1>3, <1>4, WorkFacts, BoundsAssumption DEF HandlerOK, HandlerType, Working
<1>6. AfterRelay(handler[s], ok) \in HandlerType
  BY <1>1, <1>5, BoundsAssumption DEF AfterRelay, HandlerOK, HandlerType
<1>7. handler' = [handler EXCEPT ![s] = AfterRelay(handler[s], ok)]
  BY <1>1 DEF EndRelay, HandlerOK
<1> QED BY <1>1, <1>3, <1>5, <1>6, <1>7, HandlerStep DEF Entries, AfterRelay

\* One more fault is within the bound, and puts in doubt an attempt of s or none.
LEMMA FaultFacts ==
    ASSUME IInv, NEW s \in Sessions, Fault(s)
    PROVE  /\ faults' \in 0 .. MaxFaults /\ doubt' \subseteq Attempts /\ doubt \subseteq doubt'
           /\ \A t \in doubt' : t \in doubt \/ t = Try(s)
           /\ Working(s) => Try(s) \in doubt'
BY WorkFacts, BoundsAssumption DEF IInv, TypeOK, Fault, Try

\* A copy stored is that of the recipient whose turn it is, who had none.
LEMMA CopyStoredFacts ==
    ASSUME IInv, NEW s \in Sessions, handler[s].pc = "text", CopyStored(s)
    PROVE  /\ Working(s) /\ handler[s].next \in Entries
           /\ copies' = [copies EXCEPT ![Try(s)] = [copies[Try(s)] EXCEPT ![handler[s].next] = 1]]
           /\ copies'[Try(s)] = [copies[Try(s)] EXCEPT ![handler[s].next] = 1]
           /\ copies[Try(s)] \in [Entries -> Nat] /\ copies[Try(s)][handler[s].next] = 0
           /\ \A t \in Attempts : t # Try(s) => copies'[t] = copies[t]
           /\ copies' \in [Attempts -> [Entries -> Nat]]
<1>1. bridge[s].pc = "submit" /\ Working(s)
  BY DEF IInv, Own, Working
<1>2. handler[s].next <= Len(bridge[s].rcpts)
  BY DEF IInv, Turn, Relaying
<1>3. handler[s].next \in Entries
  BY <1>1, <1>2, WorkFacts, BoundsAssumption DEF IInv, TypeOK, Entries
<1>4. copies[Try(s)] \in [Entries -> Nat] /\ Try(s) \in Attempts
  BY <1>1, WorkFacts DEF IInv, TypeOK
<1>5. copies[Try(s)][handler[s].next] = 0
  BY <1>3 DEF IInv, Place
<1>6. copies' = [copies EXCEPT ![Try(s)] = [copies[Try(s)] EXCEPT ![handler[s].next] = 1]]
  BY <1>4, <1>5 DEF CopyStored, Try
<1>7. copies \in [Attempts -> [Entries -> Nat]]
  BY DEF IInv, TypeOK
<1>8. copies' \in [Attempts -> [Entries -> Nat]]
      /\ copies'[Try(s)] = [copies[Try(s)] EXCEPT ![handler[s].next] = 1]
      /\ \A t \in Attempts : t # Try(s) => copies'[t] = copies[t]
  BY <1>4, <1>6, <1>7
<1> QED BY <1>1, <1>3, <1>4, <1>5, <1>6, <1>8

\* A dropped connection leaves at most one copy more, for the recipient whose turn
\* it is, all of the text or not.
LEMMA DroppedFacts ==
    ASSUME IInv, NEW s \in Sessions, Dropped(s)
    PROVE  /\ \/ UNCHANGED <<copies, cut>>
              \/ handler[s].pc = "text" /\ CopyStored(s)
           /\ copies' \in [Attempts -> [Entries -> Nat]] /\ cut' \subseteq Attempts
           /\ \A t \in Attempts : t # Try(s) => copies'[t] = copies[t] /\ (t \in cut' <=> t \in cut)
           /\ cut \subseteq cut'
<1>1. copies \in [Attempts -> [Entries -> Nat]] /\ cut \subseteq Attempts
  BY DEF IInv, TypeOK
<1>2. CASE UNCHANGED <<copies, cut>>
  BY <1>1, <1>2
<1>3. CASE /\ handler[s].pc = "text" /\ CopyStored(s)
           /\ cut' \in {cut, cut \cup {bridge[s].try}}
  <2>1. Try(s) \in Attempts
    BY <1>3, CopyStoredFacts, WorkFacts
  <2> QED BY <1>1, <1>3, <2>1, CopyStoredFacts DEF Try
<1> QED BY <1>2, <1>3 DEF Dropped

\* To diamy-submitd, a 451 of diamy-mxd is as good as a lost connection: a copy may
\* be stored or not.
LEMMA FailsAsLost ==
    ASSUME NEW s \in Sessions, MxdFails(s) PROVE RelayLost(s)
<1>1. /\ handler[s].pc = "text" /\ Fault(s) /\ EndRelay(s, FALSE)
      /\ UNCHANGED copies \/ CopyStored(s)
      /\ UNCHANGED <<bridge, client, expired, tries, named, cut, told, barred>>
  BY DEF MxdFails
<1>2. Dropped(s)
  BY <1>1 DEF Dropped
<1> QED BY <1>1, <1>2 DEF RelayLost

\* An answer ends the attempt; a client that left does not get it.
LEMMA AnswerFacts ==
    ASSUME IInv, NEW s \in Sessions, NEW code \in Codes, Working(s), Answer(s, code)
    PROVE  /\ BridgeOK'
           /\ bridge'[s].pc \in {"command", "closed"} /\ bridge'[s].try = 0
           /\ \A r \in Sessions : r # s => bridge'[r] = bridge[r]
           /\ told' \in [Attempts -> Codes]
           /\ told'[Try(s)] = IF client[s] = "there" THEN code ELSE "none"
           /\ \A t \in Attempts : t # Try(s) => told'[t] = told[t]
<1> DEFINE new == IF client[s] = "there" THEN Over(bridge[s])
                                         ELSE [NoSession EXCEPT !.pc = "closed"]
<1>1. BridgeOK /\ told \in [Attempts -> Codes] /\ Try(s) \in Attempts /\ told[Try(s)] = "none"
  BY WorkFacts, TypeParts DEF IInv, Own, AttemptsOK
<1>2. bridge' = [bridge EXCEPT ![s] = new]
  BY <1>1 DEF Answer, BridgeOK
<1>3. new \in SessionType /\ Len(new.rcpts) <= MaxRecipients
      /\ new.pc \in {"command", "closed"} /\ new.try = 0
  <2>1. bridge[s] \in SessionType
    BY <1>1 DEF BridgeOK
  <2>2. Over(bridge[s]) \in SessionType /\ Over(bridge[s]).rcpts = <<>>
        /\ Over(bridge[s]).pc = "command" /\ Over(bridge[s]).try = 0
    BY <2>1, NoFacts, BoundsAssumption DEF Over, SessionType, Sizes
  <2> QED BY <2>2, NoFacts
<1> HIDE DEF new
<1>4. told' = IF client[s] = "there" THEN [told EXCEPT ![Try(s)] = code] ELSE told
  BY DEF Answer, Try
<1>5. /\ told' \in [Attempts -> Codes]
      /\ told'[Try(s)] = IF client[s] = "there" THEN code ELSE "none"
      /\ \A t \in Attempts : t # Try(s) => told'[t] = told[t]
  BY <1>1, <1>4 DEF Codes
<1> QED BY <1>1, <1>2, <1>3, <1>5, BridgeStep

LEMMA ClientType ==
    ASSUME IInv, NEW s \in Sessions, Client(s) \/ TextCut(s) \/ Eof(s)
    PROVE  TypeOK'
<1> USE TypePartsNext DEF history
<1>1. /\ BridgeOK /\ client \in [Sessions -> {"there", "gone"}] /\ HandlerOK /\ AttemptsOK
      /\ bridge[s] \in SessionType /\ Len(bridge[s].rcpts) <= MaxRecipients
  BY TypeParts DEF IInv, BridgeOK
<1>2. CASE AskCredentials(s) \/ AskPassword(s) \/ Authenticate(s) \/ AuthFails(s)
  <2>1. PICK pc \in {"user", "plain", "password", "command"}, authed \in BOOLEAN :
           bridge' = [bridge EXCEPT ![s] = [bridge[s] EXCEPT !.pc = pc, !.authed = authed]]
    <3>1. bridge[s].authed \in BOOLEAN
      BY <1>1 DEF SessionType
    <3>2. CASE \E pc \in {"user", "plain", "password", "command"} : bridge' = [bridge EXCEPT ![s].pc = pc]
      <4>1. PICK pc \in {"user", "plain", "password", "command"} : bridge' = [bridge EXCEPT ![s].pc = pc]
        BY <3>2
      <4>2. [bridge[s] EXCEPT !.pc = pc] = [bridge[s] EXCEPT !.pc = pc, !.authed = bridge[s].authed]
        BY <1>1 DEF SessionType
      <4> QED BY <1>1, <3>1, <4>1, <4>2 DEF BridgeOK
    <3>3. CASE Authenticate(s)
      BY <1>1, <3>3 DEF Authenticate, BridgeOK
    <3> QED BY <1>2, <3>2, <3>3 DEF AskCredentials, AskPassword, AuthFails
  <2> DEFINE b == [bridge[s] EXCEPT !.pc = pc, !.authed = authed]
  <2>2. b \in SessionType /\ b.rcpts = bridge[s].rcpts
    BY <1>1 DEF SessionType
  <2> HIDE DEF b
  <2>3. BridgeOK'
    BY <1>1, <2>1, <2>2, BridgeStep DEF b
  <2> QED BY <1>1, <1>2, <2>3 DEF AskCredentials, AskPassword, Authenticate, AuthFails, HandlerOK, AttemptsOK
<1>3. CASE MailFrom(s) \/ Rset(s)
  <2>1. PICK mail \in BOOLEAN :
           bridge' = [bridge EXCEPT ![s] = [bridge[s] EXCEPT !.mail = mail, !.rcpts = <<>>]]
    BY <1>1, <1>3 DEF MailFrom, Rset, BridgeOK
  <2> DEFINE b == [bridge[s] EXCEPT !.mail = mail, !.rcpts = <<>>]
  <2>3. b \in SessionType /\ b.rcpts = <<>>
    BY <1>1, NoFacts DEF SessionType
  <2> HIDE DEF b
  <2>2. BridgeOK'
    BY <1>1, <2>1, <2>3, NoFacts, BridgeStep DEF b
  <2> QED BY <1>1, <1>3, <2>2 DEF MailFrom, Rset, HandlerOK, AttemptsOK
<1>4. ASSUME NEW a \in Addrs, RcptTo(s, a) PROVE TypeOK'
  <2>1. /\ Append(bridge[s].rcpts, a) \in Seq(Addrs)
        /\ Len(Append(bridge[s].rcpts, a)) <= MaxRecipients
    BY <1>1, <1>4, BoundsAssumption DEF SessionType, RcptTo
  <2>2. bridge' = [bridge EXCEPT ![s].rcpts = Append(bridge[s].rcpts, a)]
    BY <1>1, <1>4 DEF RcptTo, BridgeOK
  <2>3. BridgeOK'
    BY <1>1, <2>1, <2>2 DEF BridgeOK, SessionType
  <2> QED BY <1>1, <1>4, <2>3 DEF RcptTo, HandlerOK, AttemptsOK
<1>5. CASE Data(s)
  <2>1. tries' \in 1 .. MaxAttempts /\ bridge[s].rcpts \in Seq(Addrs)
    BY <1>1, <1>5, BoundsAssumption DEF AttemptsOK, SessionType, Data, AtCommand
  <2>4. PICK k \in 0 .. MaxAttempts : k = tries'
    BY <2>1
  <2> DEFINE b == [bridge[s] EXCEPT !.pc = "data", !.try = k]
  <2>5. b \in SessionType /\ b.rcpts = bridge[s].rcpts
    BY <1>1, <2>4 DEF SessionType
  <2>9. bridge' = [bridge EXCEPT ![s].pc = "data", ![s].try = k]
    BY <1>5, <2>4 DEF Data
  <2>10. bridge' = [bridge EXCEPT ![s] = b]
    BY <1>1, <2>9 DEF BridgeOK
  <2> HIDE DEF b
  <2>2. BridgeOK'
    BY <1>1, <2>5, <2>10, BridgeStep
  <2>6. named' \in [Attempts -> Seq(Addrs)]
    BY <1>1, <1>5, <2>1 DEF Data, AttemptsOK
  <2>7. tries' \in 0 .. MaxAttempts
    BY <2>1
  <2>8. UNCHANGED <<expired, copies, cut, told, doubt, barred, faults>>
    BY <1>5 DEF Data
  <2>3. AttemptsOK'
    BY <1>1, <2>6, <2>7, <2>8 DEF AttemptsOK
  <2> QED BY <1>1, <1>5, <2>2, <2>3 DEF Data, HandlerOK
<1>6. CASE TextTooLarge(s)
  <2>1. Working(s) /\ Answer(s, "552")
    BY <1>6 DEF TextTooLarge, Working
  <2>2. BridgeOK' /\ told' \in [Attempts -> Codes]
    BY <2>1, AnswerFacts DEF Codes
  <2> QED BY <1>1, <1>6, <2>2 DEF TextTooLarge, HandlerOK, AttemptsOK
<1>7. CASE TextRead(s) \/ TextCut(s)
  <2>1. Try(s) \in Attempts
    BY <1>7, WorkFacts DEF TextRead, TextCut, Submit, Working
  <2>2. Submit(s)
    BY <1>7 DEF TextRead, TextCut
  <2>6. PICK size \in Sizes :
           bridge' = [bridge EXCEPT ![s] = [bridge[s] EXCEPT !.pc = "submit", !.size = size]]
    BY <1>1, <2>2 DEF Submit, BridgeOK
  <2> DEFINE b == [bridge[s] EXCEPT !.pc = "submit", !.size = size]
  <2>7. b \in SessionType /\ b.rcpts = bridge[s].rcpts
    BY <1>1 DEF SessionType
  <2> HIDE DEF b
  <2>3. BridgeOK'
    BY <1>1, <2>6, <2>7, BridgeStep DEF b
  <2>4. HandlerOK'
    BY <1>1, <2>2, NoFacts DEF Submit, HandlerOK, HandlerType
  <2>5. AttemptsOK' /\ client' = client
    BY <1>1, <1>7, <2>1 DEF TextRead, TextCut, AttemptsOK, Try
  <2> QED BY <1>1, <2>3, <2>4, <2>5
<1>8. CASE ClientLeaves(s)
  BY <1>1, <1>8 DEF ClientLeaves, BridgeOK, HandlerOK, AttemptsOK
<1>9. CASE Eof(s) \/ Connect(s)
  <2>1. BridgeOK'
    BY <1>1, <1>9, NoFacts, BridgeStep DEF Eof, Connect
  <2> QED BY <1>1, <1>9, <2>1 DEF Eof, Connect, HandlerOK, AttemptsOK
<1> QED BY <1>2, <1>3, <1>4, <1>5, <1>6, <1>7, <1>8, <1>9 DEF Client

LEMMA HandleType ==
    ASSUME IInv, NEW s \in Sessions, Handle(s) \/ Failure(s)
    PROVE  TypeOK'
<1> USE TypePartsNext DEF history
<1>1. /\ BridgeOK /\ client \in [Sessions -> {"there", "gone"}] /\ HandlerOK /\ AttemptsOK
      /\ handler[s] \in HandlerType
  BY TypeParts DEF IInv, HandlerOK
<1>2. handler[s].pc # "none" => Working(s) /\ Try(s) \in Attempts
  BY WorkFacts DEF IInv, Own, Working
<1>3. Unusable(s) /\ Working(s) => BridgeOK' /\ HandlerOK' /\ told' \in [Attempts -> Codes]
  BY <1>1, AnswerFacts, NoFacts, HandlerStep DEF Unusable, Codes
<1>4. CASE Unauthorized(s) \/ BodyTooLarge(s)
  <2>1. Working(s) /\ Try(s) \in Attempts
    BY <1>2, <1>4 DEF Unauthorized, BodyTooLarge
  <2> QED BY <1>1, <1>3, <1>4, <2>1 DEF Unauthorized, BodyTooLarge, AttemptsOK, Try
<1>5. CASE Accept(s) \/ Route(s) \/ Exchange(s) \/ FinalRead(s)
  <2>1. HandlerOK'
    BY <1>1, <1>5, StageFacts DEF Accept, Route, Exchange, FinalRead, Stages, HandlerOK, HandlerType
  <2> QED BY <1>1, <1>5, <2>1 DEF Accept, Route, Exchange, FinalRead, BridgeOK, AttemptsOK
<1>6. CASE RejectExternal(s) \/ RcptRefused(s) \/ Quit(s)
  <2>1. EndRelay(s, TRUE) \/ EndRelay(s, FALSE)
    BY <1>6 DEF RejectExternal, RcptRefused, Quit
  <2>2. Relaying(s) \/ MoreToRelay(s)
    BY <1>6, StageFacts DEF RejectExternal, RcptRefused, Quit, Relaying, Stages
  <2>3. HandlerOK'
    BY <2>1, <2>2, EndRelayFacts
  <2> QED BY <1>1, <1>6, <2>3 DEF RejectExternal, RcptRefused, Quit, BridgeOK, AttemptsOK
<1>7. CASE Respond(s)
  <2>1. PICK code \in Codes : Answer(s, code)
    BY <1>7 DEF Respond, Codes
  <2>2. BridgeOK' /\ told' \in [Attempts -> Codes]
    BY <1>2, <1>7, <2>1, AnswerFacts DEF Respond
  <2>3. HandlerOK'
    BY <1>1, <1>7, NoFacts, HandlerStep DEF Respond
  <2> QED BY <1>1, <1>7, <2>2, <2>3 DEF Respond, AttemptsOK
<1>8. CASE MxdStores(s)
  <2>1. HandlerOK'
    BY <1>1, <1>8 DEF MxdStores, HandlerOK, HandlerType
  <2>2. copies' \in [Attempts -> [Entries -> Nat]]
    BY <1>8, CopyStoredFacts DEF MxdStores
  <2> QED BY <1>1, <1>8, <2>1, <2>2 DEF MxdStores, BridgeOK, AttemptsOK
<1>9. CASE MxdFails(s) \/ RelayLost(s)
  <2> SUFFICES ASSUME RelayLost(s) PROVE TypeOK'
    BY <1>9, FailsAsLost
  <2>1. HandlerOK'
    BY EndRelayFacts DEF RelayLost, Relaying
  <2>2. faults' \in 0 .. MaxFaults /\ doubt' \subseteq Attempts
    BY FaultFacts DEF RelayLost
  <2>3. copies' \in [Attempts -> [Entries -> Nat]] /\ cut' \subseteq Attempts
    BY DroppedFacts DEF RelayLost
  <2> QED BY <1>1, <2>1, <2>2, <2>3 DEF RelayLost, BridgeOK, AttemptsOK
<1>11. CASE HttpLost(s)
  <2>1. BridgeOK' /\ HandlerOK' /\ told' \in [Attempts -> Codes]
    BY <1>2, <1>3, <1>11 DEF HttpLost
  <2>2. faults' \in 0 .. MaxFaults /\ doubt' \subseteq Attempts
    BY <1>11, FaultFacts DEF HttpLost
  <2>3. copies' \in [Attempts -> [Entries -> Nat]] /\ cut' \subseteq Attempts
    BY <1>11, DroppedFacts DEF HttpLost
  <2> QED BY <1>1, <1>11, <2>1, <2>2, <2>3 DEF HttpLost, AttemptsOK
<1>12. CASE Stop(s)
  <2>1. BridgeOK' /\ HandlerOK'
    BY <1>1, <1>12, NoFacts, BridgeStep, HandlerStep DEF Stop
  <2>2. faults' \in 0 .. MaxFaults /\ doubt' \subseteq Attempts
    BY <1>12, FaultFacts DEF Stop
  <2>3. copies' \in [Attempts -> [Entries -> Nat]] /\ cut' \subseteq Attempts
    BY <1>12, DroppedFacts DEF Stop
  <2> QED BY <1>1, <1>12, <2>1, <2>2, <2>3 DEF Stop, AttemptsOK
<1> QED BY <1>4, <1>5, <1>6, <1>7, <1>8, <1>9, <1>11, <1>12 DEF Handle, Failure

----------------------------------------------------------------------------
(* A step of one session leaves the others alone *)

Untouched(t) ==
    /\ copies'[t] = copies[t] /\ told'[t] = told[t] /\ named'[t] = named[t]
    /\ t \in cut' <=> t \in cut
    /\ t \in doubt' <=> t \in doubt
    /\ t \in barred' <=> t \in barred

\* Session s goes on with its attempt, leaves it, or begins the next one.
Alone(s) ==
    /\ \A r \in Sessions : r # s =>
          bridge'[r] = bridge[r] /\ client'[r] = client[r] /\ handler'[r] = handler[r]
    /\ \/ tries' = tries /\ Try(s)' \in {0, Try(s)}
       \/ tries' = tries + 1 /\ Try(s) = 0 /\ Try(s)' = tries'
    /\ \A t \in Attempts : t # Try(s) /\ t # Try(s)' => Untouched(t)

Local(s) == Own(s) /\ Before(s) /\ Turn(s) /\ Place(s)

LEMMA Numbers == ASSUME IInv PROVE tries \in Nat /\ Attempts \subseteq Nat
BY BoundsAssumption DEF IInv, TypeOK, Attempts

\* What the others hold of their attempt is not that of s.
LEMMA OthersKept ==
    ASSUME IInv, NEW s \in Sessions, Alone(s), NEW r \in Sessions, r # s
    PROVE  Local(r)'
<1>1. /\ bridge'[r] = bridge[r] /\ client'[r] = client[r] /\ handler'[r] = handler[r]
      /\ Own(r) /\ Before(r) /\ Turn(r) /\ Place(r)
      /\ Own(s)
  BY DEF Alone, IInv
<1>2. Working(r)' = Working(r) /\ Try(r)' = Try(r)
  BY <1>1 DEF Working, Try
<1>3. tries \in Nat /\ tries' \in Nat /\ tries' >= tries
  BY Numbers DEF Alone
<1>4. CASE Working(r)
  <2>1. Try(r) \in Attempts /\ Try(r) \in 1 .. tries
    BY <1>1, <1>4, WorkFacts DEF Own
  <2>2. Try(r) # Try(s)
    BY <1>1, <1>4, <2>1, <1>3 DEF IInv, TriesDiffer, Own
  <2>3. Try(r) # Try(s)'
    BY <2>1, <2>2, <1>3 DEF Alone
  <2>4. Untouched(Try(r))
    BY <2>1, <2>2, <2>3 DEF Alone
  <2>5. Own(r)'
    <3>1. Try(r)' \in 1 .. tries'
      BY <1>2, <1>3, <2>1
    <3>2. /\ named'[Try(r)'] = bridge'[r].rcpts
          /\ told'[Try(r)'] = "none" /\ Try(r)' \notin barred'
          /\ client'[r] = "there" /\ Try(r)' \in cut' => Try(r)' \in doubt'
      BY <1>1, <1>2, <1>4, <2>4 DEF Own, Untouched
    <3> QED BY <1>1, <1>2, <1>4, <3>1, <3>2 DEF Own
  <2>6. Before(r)' /\ Turn(r)'
    BY <1>1, <1>2, <2>4 DEF Before, Turn, Relaying, Untouched
  <2>7. Place(r)'
    BY <1>1, <1>2, <2>4 DEF Place, Untouched
  <2> QED BY <2>5, <2>6, <2>7 DEF Local
<1>5. CASE ~Working(r)
  <2>1. handler'[r].pc = "none"
    BY <1>1, <1>5 DEF Own, Working
  <2>2. Own(r)' /\ Before(r)'
    BY <1>1, <1>2, <1>5 DEF Own, Before
  <2> QED BY <2>1, <2>2, StageFacts DEF Local, Turn, Place, Relaying, Stages
<1> QED BY <1>4, <1>5

\* What is known of the attempts nobody touches stays.
LEMMA AttemptsKept ==
    ASSUME IInv, NEW t \in Attempts, Untouched(t), tries' >= tries, tries' \in Nat
    PROVE  (Future(t) /\ Once(t) /\ Exact(t))'
<1>1. Future(t) /\ Once(t) /\ Exact(t) /\ tries \in Nat /\ t \in Nat
  BY Numbers DEF IInv
<1>2. Future(t)'
  BY <1>1 DEF Future, Untouched
<1>3. Once(t)'
  BY <1>1 DEF Once, Untouched
<1>4. Exact(t)'
  BY <1>1 DEF Exact, Untouched
<1> QED BY <1>2, <1>3, <1>4

\* The whole invariant from what holds of the session that moved and its attempt.
LEMMA Combine ==
    ASSUME IInv, TypeOK', NEW s \in Sessions, Alone(s), Local(s)',
           \A t \in Attempts : t \in {Try(s), Try(s)'} => (Once(t) /\ Exact(t))'
    PROVE  IInv'
<1>1. tries \in Nat /\ tries' >= tries /\ tries' \in Nat /\ Attempts \subseteq Nat
  BY Numbers DEF Alone
<1>2. \A r \in Sessions : Local(r)'
  BY OthersKept
<1>3. TriesDiffer'
  <2> SUFFICES ASSUME NEW r \in Sessions, r # s, Working(r)', Working(s)', Try(r)' = Try(s)'
               PROVE  FALSE
    <3>1. ASSUME NEW p \in Sessions, NEW q \in Sessions, p # s, q # s,
                 Working(p)', Working(q)', Try(p)' = Try(q)'
          PROVE  p = q
      BY <3>1 DEF Alone, IInv, TriesDiffer, Working, Try
    <3> QED BY <3>1 DEF TriesDiffer
  <2>1. Working(r) /\ Try(r)' = Try(r)
    BY DEF Alone, Working, Try
  <2>2. Try(r) \in 1 .. tries
    BY <2>1 DEF IInv, Own
  <2>3. Try(s)' = Try(s) /\ Try(s) # 0
    BY <2>1, <2>2, <1>1 DEF Alone
  <2>4. Working(s)
    BY <2>3 DEF IInv, Own
  <2> QED BY <2>1, <2>3, <2>4 DEF IInv, TriesDiffer
<1>4. ASSUME NEW t \in Attempts PROVE (Future(t) /\ Once(t) /\ Exact(t))'
  <2>1. CASE t \notin {Try(s), Try(s)'}
    BY <2>1, <1>1, AttemptsKept DEF Alone
  <2>2. CASE t \in {Try(s), Try(s)'}
    <3>1. t <= tries'
      <4>1. Try(s) \in 0 .. tries /\ Try(s)' \in 0 .. tries'
        BY <1>1, <1>2 DEF IInv, Local, Own
      <4> QED BY <2>2, <4>1, <1>1
    <3>2. Future(t)'
      BY <3>1, <1>1 DEF Future
    <3> QED BY <2>2, <3>2
  <2> QED BY <2>1, <2>2
<1> QED BY <1>2, <1>3, <1>4 DEF IInv, Local

\* A session between two attempts owes nothing.
LEMMA IdleLocal ==
    ASSUME NEW s \in Sessions,
           ~Working(s)', bridge'[s].pc # "submit", Try(s)' = 0, handler'[s].pc = "none"
    PROVE  Local(s)'
<1>1. Own(s)' /\ Before(s)'
  BY DEF Own, Before
<1>2. Turn(s)' /\ Place(s)'
  BY StageFacts DEF Turn, Place, Relaying, Stages
<1> QED BY <1>1, <1>2 DEF Local

\* A step of a handler that does not answer.
LEMMA HandlerGoesOn ==
    ASSUME IInv, TypeOK', NEW s \in Sessions,
           handler[s].pc # "none", handler'[s].pc \notin {"none", "received"},
           \A r \in Sessions : r # s => handler'[r] = handler[r],
           UNCHANGED <<bridge, client, tries, named, told, barred>>,
           \A t \in Attempts : t # Try(s) =>
               /\ copies'[t] = copies[t]
               /\ t \in cut' <=> t \in cut
               /\ t \in doubt' <=> t \in doubt,
           doubt \subseteq doubt', Try(s) \in cut' => Try(s) \in cut \cup doubt',
           Turn(s)', Place(s)', Once(Try(s))'
    PROVE  IInv'
<1>1. bridge[s].pc = "submit" /\ Working(s) /\ Working(s)' /\ Try(s)' = Try(s) /\ Own(s)
  BY DEF IInv, Own, Working, Try
<1>2. Alone(s)
  BY <1>1 DEF Alone, Untouched
<1>3. Own(s)'
  BY <1>1 DEF Own
<1>4. Before(s)'
  BY DEF Before
<1>5. told'[Try(s)] = "none"
  BY <1>1 DEF Own
<1>6. Exact(Try(s))'
  BY <1>1, <1>5 DEF Exact
<1> QED BY <1>1, <1>2, <1>3, <1>4, <1>6, Combine DEF Local

----------------------------------------------------------------------------
(* The steps of a handler that do not answer *)

\* The handler is behind a relay that ended in ok, which left a copy or not.
LEMMA PlaceAfterRelay ==
    ASSUME IInv, NEW s \in Sessions, NEW ok \in BOOLEAN, UNCHANGED bridge,
           handler[s].pc \notin {"none", "received"}, handler[s].next \in Entries,
           handler[s].next <= Len(bridge[s].rcpts),
           handler'[s] = [pc |-> "route", next |-> handler[s].next + 1,
                          relayed |-> handler[s].relayed \/ ok],
           \A n \in Entries : n # handler[s].next => copies'[Try(s)][n] = copies[Try(s)][n],
           ok => copies'[Try(s)][handler[s].next] = 1,
           Try(s) \notin doubt' =>
               /\ Try(s) \notin doubt
               /\ copies'[Try(s)][handler[s].next] = 1 <=>
                      Deliverable(bridge[s].rcpts[handler[s].next])
               /\ copies'[Try(s)][handler[s].next] = 1 => ok
    PROVE  Turn(s)' /\ Place(s)'
<1> DEFINE next == handler[s].next
           rcpts == bridge[s].rcpts
           old == copies[Try(s)]
           new == copies'[Try(s)]
<1>1. /\ Entries \subseteq Nat /\ next \in Nat /\ next \in Entries /\ Len(rcpts) \in Nat
  <2>1. Working(s)
    BY DEF IInv, Own, Working
  <2> QED BY <2>1, WorkFacts DEF Entries
<1>2. /\ Try(s)' = Try(s) /\ bridge'[s].rcpts = rcpts
      /\ handler'[s].pc = "route" /\ handler'[s].next = next + 1
      /\ handler'[s].relayed = (handler[s].relayed \/ ok)
  BY DEF Try
<1>3. /\ \A n \in Entries : n > next => old[n] = 0
      /\ handler[s].relayed => \E n \in Entries : n < next /\ old[n] = 1
      /\ Try(s) \notin doubt => \A n \in Entries : n < next =>
            /\ old[n] = 1 <=> Deliverable(rcpts[n])
            /\ old[n] = 1 => handler[s].relayed
  BY DEF IInv, Place
<1>4. \A n \in Entries : n # next => new[n] = old[n]
  OBVIOUS
<1> HIDE DEF next, rcpts, old, new
<1>5. \A n \in Entries : n > next + 1 => new[n] = 0
  BY <1>1, <1>3, <1>4
<1>6. next + 1 \in Entries => new[next + 1] = 0
  BY <1>1, <1>3, <1>4
<1>7. handler'[s].relayed => \E n \in Entries : n < next + 1 /\ new[n] = 1
  <2>1. CASE ok
    BY <1>1, <2>1 DEF next, new
  <2>2. CASE handler[s].relayed
    <3>1. PICK n \in Entries : n < next /\ old[n] = 1
      BY <1>3, <2>2
    <3>2. n # next /\ n < next + 1
      BY <1>1, <3>1
    <3> QED BY <1>4, <3>1, <3>2
  <2> QED BY <1>2, <2>1, <2>2
<1>8. Try(s) \notin doubt' => \A n \in Entries : n < next + 1 =>
          /\ new[n] = 1 <=> Deliverable(rcpts[n])
          /\ new[n] = 1 => handler'[s].relayed
  <2> SUFFICES ASSUME Try(s) \notin doubt', NEW n \in Entries, n < next + 1
               PROVE  /\ new[n] = 1 <=> Deliverable(rcpts[n])
                      /\ new[n] = 1 => handler'[s].relayed
    OBVIOUS
  <2>1. CASE n = next
    BY <1>2, <2>1 DEF next, new, rcpts
  <2>2. CASE n # next
    <3>1. n < next
      BY <1>1, <2>2
    <3> QED BY <1>2, <1>3, <1>4, <2>2, <3>1
  <2> QED BY <2>1, <2>2
<1>9. next + 1 <= Len(rcpts) + 1
  BY <1>1 DEF next, rcpts
<1>10. Turn(s)'
  BY <1>2, StageFacts DEF Turn, Relaying, Stages
<1>11. Place(s)'
  <2>1. \A n \in Entries : Deliverable(rcpts[n])' = Deliverable(rcpts[n])
    BY DEF Deliverable, rcpts
  <2> QED BY <1>2, <1>5, <1>6, <1>7, <1>8, <1>9, <2>1 DEF Place, Deliverable, new, rcpts
<1> QED BY <1>10, <1>11

\* The relay ends and no copy was left by this step.
LEMMA EndsWithoutCopy ==
    ASSUME IInv, TypeOK', NEW s \in Sessions,
           RejectExternal(s) \/ RcptRefused(s) \/ Quit(s)
    PROVE  IInv'
<1> DEFINE next == handler[s].next
           count == copies[Try(s)]
<1>1. PICK ok \in BOOLEAN : EndRelay(s, ok) /\ (ok <=> Quit(s))
  BY StageFacts DEF RejectExternal, RcptRefused, Quit, MoreToRelay, Stages
<1>2. Relaying(s) \/ MoreToRelay(s)
  BY StageFacts DEF RejectExternal, RcptRefused, Quit, Relaying, Stages
<1>3. /\ bridge[s].pc = "submit" /\ next \in Entries
      /\ handler'[s] = [pc |-> "route", next |-> next + 1, relayed |-> handler[s].relayed \/ ok]
      /\ \A r \in Sessions : r # s => handler'[r] = handler[r]
  BY <1>1, <1>2, EndRelayFacts
<1>4. next <= Len(bridge[s].rcpts)
  BY <1>2 DEF IInv, Turn, MoreToRelay
<1>5. handler[s].pc \notin {"none", "received"}
  BY <1>2, StageFacts DEF Relaying, MoreToRelay, Stages
<1>6. UNCHANGED <<bridge, client, tries, copies, named, cut, told, barred>>
  BY DEF RejectExternal, RcptRefused, Quit, history
<1>7. Working(s) /\ Try(s) \in Attempts
  BY <1>3, WorkFacts DEF Working
<1>8. doubt' = doubt
  BY DEF RejectExternal, RcptRefused, Quit, history
<1>9. count[next] = IF handler[s].pc \in {"final", "quit"} THEN 1 ELSE 0
  BY <1>3, <1>5 DEF IInv, Place
<1>10. ok => copies'[Try(s)][next] = 1
  BY <1>1, <1>6, <1>9 DEF Quit
<1>11. Try(s) \notin doubt' =>
          /\ Try(s) \notin doubt
          /\ count[next] = 1 <=> Deliverable(bridge[s].rcpts[next])
          /\ count[next] = 1 => ok
  <2> SUFFICES ASSUME Try(s) \notin doubt'
               PROVE  /\ count[next] = 1 <=> Deliverable(bridge[s].rcpts[next])
                      /\ count[next] = 1 => ok
    BY <1>8
  <2>1. CASE Quit(s)
    BY <1>1, <1>9, <2>1, StageFacts DEF Quit, IInv, Turn, Relaying, Deliverable
  <2>2. CASE RejectExternal(s)
    BY <1>9, <2>2 DEF RejectExternal, MoreToRelay, Recipient, Deliverable
  <2>3. CASE RcptRefused(s)
    BY <1>9, <2>3 DEF RcptRefused, Recipient, Deliverable
  <2> QED BY <1>8, <2>1, <2>2, <2>3
<1>12. Turn(s)' /\ Place(s)'
  BY <1>3, <1>4, <1>5, <1>6, <1>10, <1>11, PlaceAfterRelay
<1>13. Once(Try(s))'
  BY <1>6, <1>7 DEF IInv, Once, Try
<1> QED BY <1>3, <1>5, <1>6, <1>8, <1>12, <1>13, HandlerGoesOn

\* The connection to diamy-mxd is lost, with a copy stored or without.
LEMMA RelayLostStep ==
    ASSUME IInv, TypeOK', NEW s \in Sessions, MxdFails(s) \/ RelayLost(s) PROVE IInv'
<1> DEFINE next == handler[s].next
<1>1. Relaying(s) /\ EndRelay(s, FALSE) /\ Dropped(s) /\ Fault(s)
      /\ UNCHANGED <<bridge, client, tries, named, told, barred>>
  BY FailsAsLost DEF RelayLost, Relaying
<1>2. /\ bridge[s].pc = "submit" /\ next \in Entries
      /\ handler'[s] = [pc |-> "route", next |-> next + 1,
                        relayed |-> handler[s].relayed \/ FALSE]
      /\ \A r \in Sessions : r # s => handler'[r] = handler[r]
  BY <1>1, EndRelayFacts
<1>3. next <= Len(bridge[s].rcpts)
  BY <1>1 DEF IInv, Turn
<1>4. handler[s].pc \notin {"none", "received"}
  BY <1>1, StageFacts DEF Relaying, Stages
<1>5. Working(s) /\ Try(s) \in Attempts
  BY <1>2, WorkFacts DEF Working
<1>6. /\ doubt \subseteq doubt' /\ Try(s) \in doubt'
      /\ \A t \in Attempts : t # Try(s) => (t \in doubt' <=> t \in doubt)
  BY <1>1, <1>5, FaultFacts
<1>7. /\ \A t \in Attempts : t # Try(s) => copies'[t] = copies[t] /\ (t \in cut' <=> t \in cut)
      /\ UNCHANGED copies \/ (handler[s].pc = "text" /\ CopyStored(s))
  BY <1>1, DroppedFacts
<1>8. \A n \in Entries : /\ n # next => copies'[Try(s)][n] = copies[Try(s)][n]
                         /\ copies'[Try(s)][n] \in {0, 1}
  <2>1. \A n \in Entries : copies[Try(s)][n] \in {0, 1}
    BY <1>5 DEF IInv, Once
  <2>2. CASE UNCHANGED copies
    BY <2>1, <2>2
  <2>3. CASE handler[s].pc = "text" /\ CopyStored(s)
    BY <2>1, <2>3, CopyStoredFacts
  <2> QED BY <1>7, <2>2, <2>3
<1>9. Turn(s)' /\ Place(s)'
  BY <1>1, <1>2, <1>3, <1>4, <1>6, <1>8, PlaceAfterRelay
<1>10. Once(Try(s))'
  BY <1>1, <1>8 DEF Once, Try
<1>11. handler'[s].pc \notin {"none", "received"}
  BY <1>2
<1> QED BY <1>1, <1>2, <1>4, <1>6, <1>7, <1>9, <1>10, <1>11, HandlerGoesOn

\* The dialogue moves on within one relay, or begins it.
LEMMA DialogueStep ==
    ASSUME IInv, TypeOK', NEW s \in Sessions,
           Accept(s) \/ Route(s) \/ Exchange(s) \/ FinalRead(s)
    PROVE  IInv'
<1> DEFINE h == handler[s]
<1>1. /\ UNCHANGED <<bridge, client, tries, copies, named, cut, told, doubt, barred>>
      /\ h.pc # "none"
  BY StageFacts DEF Accept, Route, Exchange, FinalRead, MoreToRelay, Stages, history
<1>2. Working(s) /\ Try(s) \in Attempts
  BY <1>1, WorkFacts DEF IInv, Own, Working
<1>3. handler \in [Sessions -> HandlerType]
  BY TypeParts DEF IInv, HandlerOK
<1>4. PICK pc \in {"route", "connect", "quit"} \cup {NextStage[x] : x \in Stages} :
         handler' = [handler EXCEPT ![s] = [handler[s] EXCEPT !.pc = pc]]
  <2>1. CASE Exchange(s)
    BY <1>3, <2>1, StageFacts DEF Exchange
  <2>2. CASE Accept(s)
    BY <1>3, <2>2 DEF Accept
  <2>3. CASE Route(s)
    BY <1>3, <2>3 DEF Route
  <2>4. CASE FinalRead(s)
    BY <1>3, <2>4 DEF FinalRead
  <2> QED BY <2>1, <2>2, <2>3, <2>4
<1>5. /\ handler'[s].pc = pc /\ handler'[s].next = h.next /\ handler'[s].relayed = h.relayed
      /\ \A r \in Sessions : r # s => handler'[r] = handler[r]
  BY <1>3, <1>4 DEF HandlerType
<1>6. pc \notin {"none", "received", "final"}
  BY <1>4, StageFacts DEF Stages
<1>7. Turn(s) /\ Place(s) /\ Before(s)
  BY DEF IInv
<1>8. Turn(s)' /\ Place(s)'
  <2>1. CASE Accept(s)
    <3>1. /\ h.pc = "received" /\ handler'[s].pc = "route"
          /\ h.next = 1 /\ ~h.relayed /\ \A n \in Entries : copies[Try(s)][n] = 0
      BY <1>2, <1>3, <1>7, <2>1 DEF Accept, Before
    <3>2. Turn(s)'
      BY <3>1, StageFacts DEF Turn, Relaying, Stages
    <3>3. Len(bridge[s].rcpts) \in Nat /\ Entries \subseteq Nat
      BY <1>2, WorkFacts DEF Entries
    <3>4. /\ 1 <= Len(bridge[s].rcpts) + 1
          /\ \A n \in Entries : ~(n < 1)
      BY <3>3 DEF Entries
    <3>5. Place(s)'
      BY <1>1, <1>5, <3>1, <3>4 DEF Place, Try
    <3> QED BY <3>2, <3>5
  <2>2. CASE Route(s)
    <3>1. /\ h.pc = "route" /\ handler'[s].pc = "connect" /\ h.next <= Len(bridge[s].rcpts)
          /\ AfterFirstAt[bridge[s].rcpts[h.next]] \in LocalDomains
      BY <1>3, <2>2 DEF Route, MoreToRelay, Recipient
    <3>2. Turn(s)'
      BY <1>1, <1>5, <3>1 DEF Turn
    <3>3. Place(s)'
      BY <1>1, <1>5, <1>7, <3>1 DEF Place, Try, Deliverable
    <3> QED BY <3>2, <3>3
  <2>3. CASE Exchange(s)
    <3>1. /\ h.pc \in Stages /\ handler'[s].pc = NextStage[h.pc]
          /\ h.pc = "rcpt" => bridge[s].rcpts[h.next] \in Known
      BY <1>3, <2>3, StageFacts DEF Exchange, Recipient
    <3>2. Turn(s)'
      BY <1>1, <1>5, <1>7, <3>1, StageFacts DEF Turn, Relaying, Stages
    <3>3. Place(s)'
      BY <1>1, <1>5, <1>7, <3>1, StageFacts DEF Place, Try, Deliverable, Stages
    <3> QED BY <3>2, <3>3
  <2>4. CASE FinalRead(s)
    <3>1. h.pc = "final" /\ handler'[s].pc = "quit"
      BY <1>3, <2>4 DEF FinalRead
    <3>2. Turn(s)'
      BY <1>1, <1>5, <1>7, <3>1 DEF Turn, Relaying
    <3>3. Place(s)'
      BY <1>1, <1>5, <1>7, <3>1 DEF Place, Try, Deliverable
    <3> QED BY <3>2, <3>3
  <2> QED BY <2>1, <2>2, <2>3, <2>4
<1>9. Once(Try(s))'
  BY <1>1, <1>2 DEF IInv, Once, Try
<1> QED BY <1>1, <1>5, <1>6, <1>8, <1>9, HandlerGoesOn

\* diamy-mxd stores the copy of the recipient whose turn it is.
LEMMA MxdStoresStep ==
    ASSUME IInv, TypeOK', NEW s \in Sessions, MxdStores(s) PROVE IInv'
<1> DEFINE h == handler[s]
<1>1. /\ UNCHANGED <<bridge, client, tries, named, cut, told, doubt, barred>>
      /\ h.pc = "text" /\ CopyStored(s)
      /\ handler' = [handler EXCEPT ![s].pc = "final"]
  BY DEF MxdStores
<1>2. handler \in [Sessions -> HandlerType]
  BY TypeParts DEF IInv, HandlerOK
<1>3. /\ handler'[s].pc = "final" /\ handler'[s].next = h.next /\ handler'[s].relayed = h.relayed
      /\ \A r \in Sessions : r # s => handler'[r] = handler[r]
  BY <1>1, <1>2 DEF HandlerType
<1>4. Turn(s) /\ Place(s) /\ h.next \in Entries /\ Working(s) /\ Try(s) \in Attempts
  BY <1>1, CopyStoredFacts, WorkFacts DEF IInv
<1>5. /\ \A t \in Attempts : t # Try(s) => copies'[t] = copies[t]
      /\ copies'[Try(s)][h.next] = 1
      /\ \A n \in Entries : n # h.next => copies'[Try(s)][n] = copies[Try(s)][n]
  BY <1>1, <1>4, CopyStoredFacts
<1>6. Turn(s)'
  BY <1>1, <1>3, <1>4 DEF Turn, Relaying
<1>7. \A n \in Entries : n < h.next \/ n > h.next => n # h.next
  BY <1>4 DEF Entries
<1>8. Place(s)'
  BY <1>1, <1>3, <1>4, <1>5, <1>7 DEF Place, Try, Deliverable
<1>9. Once(Try(s))'
  BY <1>1, <1>4, <1>5 DEF IInv, Once, Try
<1> QED BY <1>1, <1>3, <1>5, <1>6, <1>8, <1>9, HandlerGoesOn

----------------------------------------------------------------------------
(* The steps of a session *)

\* A step that touches no attempt and leaves the session between two attempts.
LEMMA BetweenAttempts ==
    ASSUME IInv, TypeOK', NEW s \in Sessions,
           \A r \in Sessions : r # s =>
               bridge'[r] = bridge[r] /\ client'[r] = client[r] /\ handler'[r] = handler[r],
           bridge'[s].pc \notin {"data", "submit"}, Try(s)' = 0, handler'[s].pc = "none",
           UNCHANGED <<tries, history>>
    PROVE  IInv'
<1>1. Local(s)'
  BY IdleLocal DEF Working
<1>2. Alone(s)
  BY DEF Alone, Untouched, history
<1>3. \A t \in Attempts : (Once(t) /\ Exact(t))'
  BY DEF IInv, Once, Exact, history
<1> QED BY <1>1, <1>2, <1>3, Combine

\* Commands, credentials, the beginning and the end of a connection.
LEMMA QuietStep ==
    ASSUME IInv, TypeOK', NEW s \in Sessions,
           \/ AskCredentials(s) \/ AskPassword(s) \/ Authenticate(s) \/ AuthFails(s)
           \/ MailFrom(s) \/ Rset(s) \/ Connect(s) \/ Eof(s)
           \/ \E a \in Addrs : RcptTo(s, a)
    PROVE  IInv'
<1>1. /\ bridge \in [Sessions -> SessionType] /\ client \in [Sessions -> {"there", "gone"}]
      /\ UNCHANGED <<handler, tries, history>>
  BY TypeParts DEF IInv, BridgeOK, AskCredentials, AskPassword, Authenticate, AuthFails,
       MailFrom, Rset, Connect, Eof, RcptTo
<1>2. bridge[s].pc # "submit" /\ Own(s)
  BY DEF IInv, AskCredentials, AskPassword, Authenticate, AuthFails,
       MailFrom, Rset, Connect, Eof, RcptTo, AtCommand
<1>3. handler[s].pc = "none"
  BY <1>2 DEF Own
<1>4. \A r \in Sessions : r # s => bridge'[r] = bridge[r] /\ client'[r] = client[r]
  BY <1>1 DEF AskCredentials, AskPassword, Authenticate, AuthFails,
       MailFrom, Rset, Connect, Eof, RcptTo
<1>5. bridge'[s].pc \notin {"data", "submit"} /\ Try(s)' = 0
  <2>1. CASE AskCredentials(s) \/ AskPassword(s) \/ Authenticate(s) \/ AuthFails(s)
    <3>1. Try(s) = 0
      BY <1>2, <2>1 DEF Own, Working, AskCredentials, AskPassword, Authenticate, AuthFails, AtCommand
    <3>2. bridge'[s].try = bridge[s].try /\ bridge'[s].pc \notin {"data", "submit"}
      BY <1>1, <2>1 DEF SessionType, AskCredentials, AskPassword, Authenticate, AuthFails
    <3> QED BY <3>1, <3>2 DEF Try
  <2>2. CASE MailFrom(s) \/ Rset(s) \/ \E a \in Addrs : RcptTo(s, a)
    <3>1. Try(s) = 0 /\ bridge[s].pc = "command"
      BY <1>2, <2>2 DEF Own, Working, MailFrom, Rset, RcptTo, AtCommand
    <3>2. bridge'[s].try = bridge[s].try /\ bridge'[s].pc = bridge[s].pc
      BY <1>1, <2>2 DEF SessionType, MailFrom, Rset, RcptTo
    <3> QED BY <3>1, <3>2 DEF Try
  <2>3. CASE Connect(s) \/ Eof(s)
    BY <1>1, <2>3, NoFacts DEF Connect, Eof, Try
  <2> QED BY <2>1, <2>2, <2>3
<1> QED BY <1>1, <1>3, <1>4, <1>5, BetweenAttempts

\* The client is gone; what its session holds stays.
LEMMA LeavesStep ==
    ASSUME IInv, TypeOK', NEW s \in Sessions, ClientLeaves(s) PROVE IInv'
<1>1. /\ client \in [Sessions -> {"there", "gone"}] /\ client' = [client EXCEPT ![s] = "gone"]
      /\ UNCHANGED <<bridge, handler, tries, history>>
  BY TypeParts DEF IInv, ClientLeaves
<1>2. Alone(s)
  BY <1>1 DEF Alone, Untouched, history, Try
<1>3. Own(s) /\ Before(s) /\ Turn(s) /\ Place(s)
  BY DEF IInv
<1>4. Own(s)'
  BY <1>1, <1>3 DEF Own, Working, Try, history
<1>5. Before(s)' /\ Turn(s)' /\ Place(s)'
  BY <1>1, <1>3 DEF Before, Turn, Place, Working, Try, Relaying, Deliverable, history
<1>6. \A t \in Attempts : (Once(t) /\ Exact(t))'
  BY <1>1 DEF IInv, Once, Exact, history, Deliverable
<1> QED BY <1>2, <1>4, <1>5, <1>6, Combine DEF Local

LEMMA ExpiresStep ==
    ASSUME IInv, TypeOK', TokenExpires PROVE IInv'
<1>1. UNCHANGED <<bridge, client, handler, tries, history>>
  BY DEF TokenExpires
<1>2. TriesDiffer'
  BY <1>1 DEF IInv, TriesDiffer, Working, Try
<1>3. \A s \in Sessions : (Own(s) /\ Before(s) /\ Turn(s) /\ Place(s))'
  BY <1>1 DEF IInv, Own, Before, Turn, Place, Working, Try, Relaying, history
<1>4. \A t \in Attempts : (Future(t) /\ Once(t) /\ Exact(t))'
  BY <1>1 DEF IInv, Future, Once, Exact, history
<1> QED BY <1>2, <1>3, <1>4 DEF IInv

\* DATA begins an attempt of which nothing is known.
LEMMA DataStep ==
    ASSUME IInv, TypeOK', NEW s \in Sessions, Data(s) PROVE IInv'
<1>1. /\ BridgeOK /\ bridge[s].pc = "command" /\ tries' = tries + 1 /\ tries < MaxAttempts
      /\ bridge' = [bridge EXCEPT ![s].pc = "data", ![s].try = tries']
      /\ named' = [named EXCEPT ![tries'] = bridge[s].rcpts]
      /\ named \in [Attempts -> Seq(Addrs)]
      /\ UNCHANGED <<client, handler, copies, cut, told, doubt, barred>>
  BY TypeParts DEF IInv, AttemptsOK, Data, AtCommand
<1>2. tries \in Nat /\ tries' \in Attempts /\ tries' > tries
  BY <1>1, Numbers, BoundsAssumption DEF Attempts
<1>3. /\ Own(s) /\ Future(tries') /\ Try(s) = 0 /\ handler[s].pc = "none"
      /\ handler[s] \in HandlerType
  BY <1>1, <1>2, TypeParts DEF IInv, Own, Working, HandlerOK
<1>4. /\ bridge'[s].pc = "data" /\ Try(s)' = tries' /\ bridge'[s].rcpts = bridge[s].rcpts
      /\ \A r \in Sessions : r # s => bridge'[r] = bridge[r]
  BY <1>1 DEF BridgeOK, SessionType, Try
<1>5. \A t \in Attempts : t # tries' => named'[t] = named[t]
  BY <1>1
<1>6. Alone(s)
  BY <1>1, <1>3, <1>4, <1>5 DEF Alone, Untouched
<1>7. /\ \A n \in Entries : copies[tries'][n] = 0
      /\ told[tries'] = "none" /\ tries' \notin cut \cup doubt \cup barred
  BY <1>2, <1>3 DEF Future
<1>8. Own(s)'
  <2>1. named'[tries'] = bridge[s].rcpts
    BY <1>1, <1>2
  <2>2. tries' \in 1 .. tries'
    BY <1>2 DEF Attempts
  <2> QED BY <1>1, <1>3, <1>4, <1>7, <2>1, <2>2 DEF Own, Working
<1>10. Before(s)'
  BY <1>1, <1>3, <1>4, <1>7 DEF Before
<1>11. Turn(s)' /\ Place(s)'
  BY <1>1, <1>3, StageFacts DEF Turn, Place, Relaying, Stages
<1>12. \A t \in Attempts : t \in {Try(s), Try(s)'} => (Once(t) /\ Exact(t))'
  <2>1. ASSUME NEW t \in Attempts, t = tries' PROVE (Once(t) /\ Exact(t))'
    BY <1>1, <1>7, <2>1 DEF Once, Exact
  <2>2. 0 \notin Attempts
    BY DEF Attempts
  <2> QED BY <1>3, <1>4, <2>1, <2>2
<1> QED BY <1>6, <1>8, <1>10, <1>11, <1>12, Combine DEF Local

\* The text is sent, whole or cut short, and a handler receives it.
LEMMA TextStep ==
    ASSUME IInv, TypeOK', NEW s \in Sessions, TextRead(s) \/ TextCut(s) PROVE IInv'
<1>1. /\ BridgeOK /\ HandlerOK /\ bridge[s].pc = "data" /\ Submit(s)
      /\ UNCHANGED <<client, tries, named, copies, told, doubt, barred>>
      /\ client[s] = "there" => cut' = cut
      /\ cut' \in {cut, cut \cup {Try(s)}}
  BY TypeParts DEF IInv, TextRead, TextCut, Submit, Try, history
<1>2. Working(s) /\ Own(s) /\ Before(s) /\ Try(s) \in Attempts
  BY <1>1, WorkFacts DEF IInv, Working
<1>3. handler[s].pc = "none"
  BY <1>1, <1>2 DEF Own
<1>4. /\ handler'[s].pc = "received" /\ handler'[s].next = 1 /\ handler'[s].relayed = FALSE
      /\ \A r \in Sessions : r # s => handler'[r] = handler[r]
  BY <1>1 DEF Submit, NoHandler, HandlerOK
<1>5. /\ bridge'[s].pc = "submit" /\ bridge'[s].rcpts = bridge[s].rcpts /\ Try(s)' = Try(s)
      /\ \A r \in Sessions : r # s => bridge'[r] = bridge[r]
  <2>1. PICK size \in Sizes : bridge' = [bridge EXCEPT ![s].pc = "submit", ![s].size = size]
    BY <1>1 DEF Submit
  <2> QED BY <1>1, <2>1 DEF BridgeOK, SessionType, Try
<1>6. Alone(s)
  BY <1>1, <1>4, <1>5 DEF Alone, Untouched
<1>7. Own(s)'
  <2>1. client[s] = "there" /\ Try(s) \in cut' => Try(s) \in doubt
    BY <1>1, <1>2 DEF Own
  <2>2. /\ Try(s) \in 1 .. tries /\ named[Try(s)] = bridge[s].rcpts
        /\ told[Try(s)] = "none" /\ Try(s) \notin barred
    BY <1>2 DEF Own
  <2> QED BY <1>1, <1>4, <1>5, <2>1, <2>2 DEF Own, Working
<1>8. Before(s)'
  BY <1>1, <1>2, <1>3, <1>4, <1>5 DEF Before
<1>9. Turn(s)' /\ Place(s)'
  BY <1>4, StageFacts DEF Turn, Place, Relaying, Stages
<1>10. (Once(Try(s)) /\ Exact(Try(s)))'
  <2>1. told'[Try(s)] = "none" /\ Once(Try(s))
    BY <1>1, <1>2 DEF Own, IInv
  <2> QED BY <1>1, <1>5, <2>1 DEF Once, Exact
<1>11. \A t \in Attempts : t \in {Try(s), Try(s)'} => (Once(t) /\ Exact(t))'
  <2>1. ASSUME NEW t \in Attempts, t = Try(s) PROVE (Once(t) /\ Exact(t))'
    BY <1>1, <1>2, <2>1 DEF IInv, Once, Exact, Own
  <2> QED BY <1>5, <2>1
<1> QED BY <1>6, <1>7, <1>8, <1>9, <1>11, Combine DEF Local

\* A step that ends the attempt of s: what it leaves must be exact.
LEMMA AttemptEnds ==
    ASSUME IInv, TypeOK', NEW s \in Sessions,
           \A r \in Sessions : r # s =>
               bridge'[r] = bridge[r] /\ client'[r] = client[r] /\ handler'[r] = handler[r],
           bridge'[s].pc \notin {"data", "submit"}, Try(s)' = 0, handler'[s].pc = "none",
           UNCHANGED tries, \A t \in Attempts : t # Try(s) => Untouched(t),
           \A t \in Attempts : t = Try(s) => (Once(t) /\ Exact(t))'
    PROVE  IInv'
<1>1. Local(s)'
  BY IdleLocal DEF Working
<1>2. Alone(s)
  BY DEF Alone
<1>3. \A t \in Attempts : t \in {Try(s), Try(s)'} => (Once(t) /\ Exact(t))'
  BY DEF Attempts
<1> QED BY <1>1, <1>2, <1>3, Combine

\* What a handler has done when every recipient had its turn.
LEMMA ListDone ==
    ASSUME IInv, NEW s \in Sessions,
           handler[s].pc = "route", handler[s].next > Len(bridge[s].rcpts)
    PROVE  LET t == Try(s)
               served == {n \in Entries : copies[t][n] = 1}
               can == {n \in DOMAIN named[t] : Deliverable(named[t][n])}
           IN  /\ handler[s].relayed => served # {}
               /\ t \notin doubt => served = can /\ (served # {} => handler[s].relayed)
<1> DEFINE t == Try(s)
           h == handler[s]
           rcpts == bridge[s].rcpts
           count == copies[t]
           served == {n \in Entries : copies[t][n] = 1}
           can == {n \in DOMAIN named[t] : Deliverable(named[t][n])}
<1>1. Working(s) /\ Own(s) /\ Place(s)
  BY DEF IInv, Own, Working
<1>2. rcpts \in Seq(Addrs) /\ Len(rcpts) \in Nat /\ Len(rcpts) <= MaxRecipients
  BY <1>1, WorkFacts
<1>3. DOMAIN named[t] = 1 .. Len(rcpts) /\ named[t] = rcpts
  BY <1>1, <1>2 DEF Own
<1>4. h.next = Len(rcpts) + 1
  <2>1. h.next <= Len(rcpts) + 1 /\ h.next \in Nat
    BY <1>1, TypeParts DEF Place, IInv, HandlerOK, HandlerType
  <2> QED BY <1>2, <2>1
<1>5. /\ \A n \in Entries : n > h.next => count[n] = 0
      /\ h.next \in Entries => count[h.next] = 0
      /\ h.relayed => \E n \in Entries : n < h.next /\ count[n] = 1
      /\ t \notin doubt => \A n \in Entries : n < h.next =>
            /\ count[n] = 1 <=> Deliverable(rcpts[n])
            /\ count[n] = 1 => h.relayed
  BY <1>1 DEF Place
<1>6. \A n \in Entries : n \notin 1 .. Len(rcpts) => count[n] = 0
  <2> SUFFICES ASSUME NEW n \in Entries, n \notin 1 .. Len(rcpts) PROVE count[n] = 0
    OBVIOUS
  <2>1. n > h.next \/ n = h.next
    BY <1>2, <1>4 DEF Entries
  <2> QED BY <1>5, <2>1
<1>7. \A n \in 1 .. Len(rcpts) : n \in Entries /\ n < h.next
  BY <1>2, <1>4, BoundsAssumption DEF Entries
<1>8. t \notin doubt => \A n \in Entries :
          n \in served <=> (n \in 1 .. Len(rcpts) /\ Deliverable(rcpts[n]))
  BY <1>5, <1>6, <1>7
<1>9. t \notin doubt => served = can
  BY <1>3, <1>7, <1>8
<1>10. t \notin doubt /\ served # {} => h.relayed
  BY <1>5, <1>6, <1>7
<1> QED BY <1>5, <1>9, <1>10

\* The bridge answers a text it does not send on, or what POST /submit answered.
LEMMA AnswerStep ==
    ASSUME IInv, TypeOK', NEW s \in Sessions,
           TextTooLarge(s) \/ Unauthorized(s) \/ BodyTooLarge(s) \/ Respond(s)
    PROVE  IInv'
<1>1. PICK code \in Codes :
         /\ Answer(s, code)
         /\ TextTooLarge(s) => code = "552"
         /\ Unauthorized(s) \/ BodyTooLarge(s) => code = "451" /\ barred' = barred \cup {Try(s)}
         /\ Respond(s) => code = IF handler[s].relayed THEN "250" ELSE "550"
  <2>1. CASE TextTooLarge(s)
    <3>1. ~Unauthorized(s) /\ ~BodyTooLarge(s) /\ ~Respond(s)
      BY <2>1 DEF TextTooLarge, Unauthorized, BodyTooLarge, Respond, IInv, Own
    <3> QED BY <2>1, <3>1 DEF TextTooLarge, Codes
  <2>2. CASE Unauthorized(s) \/ BodyTooLarge(s)
    <3>1. ~TextTooLarge(s) /\ ~Respond(s)
      BY <2>2 DEF TextTooLarge, Unauthorized, BodyTooLarge, Respond, IInv, Own
    <3> QED BY <2>2, <3>1 DEF Unauthorized, BodyTooLarge, Unusable, Codes, Try
  <2>3. CASE Respond(s)
    <3>1. ~TextTooLarge(s) /\ ~Unauthorized(s) /\ ~BodyTooLarge(s)
      BY <2>3 DEF TextTooLarge, Unauthorized, BodyTooLarge, Respond, IInv, Own
    <3> QED BY <2>3, <3>1 DEF Respond, Codes
  <2> QED BY <2>1, <2>2, <2>3
<1>2. /\ UNCHANGED <<client, tries, named, copies, cut, doubt>>
      /\ \A t \in Attempts : t # Try(s) => (t \in barred' <=> t \in barred)
  BY DEF TextTooLarge, Unauthorized, BodyTooLarge, Respond, Try
<1>3. Own(s) /\ Before(s) /\ HandlerOK
  BY TypeParts DEF IInv
<1>4. Working(s) /\ Try(s) \in Attempts
  BY <1>3, WorkFacts DEF Own, Working, TextTooLarge, Unauthorized, BodyTooLarge, Respond
<1>5. /\ bridge'[s].pc \notin {"data", "submit"} /\ Try(s)' = 0
      /\ \A r \in Sessions : r # s => bridge'[r] = bridge[r]
      /\ told'[Try(s)] = IF client[s] = "there" THEN code ELSE "none"
      /\ \A t \in Attempts : t # Try(s) => told'[t] = told[t]
  BY <1>1, <1>4, AnswerFacts DEF Try
<1>6. handler'[s].pc = "none" /\ \A r \in Sessions : r # s => handler'[r] = handler[r]
  <2>1. CASE TextTooLarge(s)
    BY <1>3, <2>1 DEF TextTooLarge, Own
  <2>2. CASE Unauthorized(s) \/ BodyTooLarge(s) \/ Respond(s)
    BY <1>3, <2>2, NoFacts DEF Unauthorized, BodyTooLarge, Respond, Unusable, HandlerOK
  <2> QED BY <2>1, <2>2
<1>7. \A t \in Attempts : t # Try(s) => Untouched(t)
  BY <1>2, <1>5 DEF Untouched
<1>8. ASSUME NEW t \in Attempts, t = Try(s) PROVE (Once(t) /\ Exact(t))'
  <2>1. Once(t)'
    BY <1>2 DEF IInv, Once
  <2>2. CASE client[s] # "there"
    BY <1>5, <1>8, <2>1, <2>2 DEF Exact
  <2>3. CASE client[s] = "there" /\ TextTooLarge(s)
    BY <1>1, <1>5, <1>8, <2>1, <2>3 DEF Exact
  <2>4. CASE client[s] = "there" /\ (Unauthorized(s) \/ BodyTooLarge(s))
    <3>1. told'[t] = "451" /\ t \in barred'
      BY <1>1, <1>5, <1>8, <2>4
    <3>2. handler[s].pc = "received"
      BY <2>4 DEF Unauthorized, BodyTooLarge
    <3>3. \A n \in Entries : copies'[t][n] = 0
      BY <1>2, <1>3, <1>4, <1>8, <3>2 DEF Before
    <3> QED BY <2>1, <3>1, <3>3 DEF Exact
  <2>5. CASE client[s] = "there" /\ Respond(s)
    <3>1. told'[t] = IF handler[s].relayed THEN "250" ELSE "550"
      BY <1>1, <1>5, <1>8, <2>5
    <3>2. t \in cut => t \in doubt
      BY <1>3, <1>4, <1>8, <2>5 DEF Own
    <3> DEFINE served == {n \in Entries : copies[t][n] = 1}
               can == {n \in DOMAIN named[t] : Deliverable(named[t][n])}
    <3>3. /\ handler[s].relayed => served # {}
          /\ t \notin doubt => served = can /\ (served # {} => handler[s].relayed)
      BY <1>8, <2>5, ListDone DEF Respond
    <3> HIDE DEF served, can
    <3>4. t \notin doubt =>
            /\ told'[t] = "250" => served = can /\ can # {} /\ t \notin cut
            /\ told'[t] = "550" => can = {} /\ served = {}
            /\ told'[t] # "451"
      BY <3>1, <3>2, <3>3
    <3>5. Exact(t)'
      BY <1>2, <3>4 DEF Exact, served, can, Deliverable
    <3> QED BY <2>1, <3>5
  <2> QED BY <2>1, <2>2, <2>3, <2>4, <2>5
<1> QED BY <1>2, <1>4, <1>5, <1>6, <1>7, <1>8, AttemptEnds

\* The request, diamy-submitd or the bridge is lost: the attempt is in doubt.
LEMMA LostStep ==
    ASSUME IInv, TypeOK', NEW s \in Sessions, HttpLost(s) \/ Stop(s) PROVE IInv'
<1>1. Fault(s) /\ Dropped(s) /\ UNCHANGED <<tries, named, barred>>
  BY DEF HttpLost, Stop
<1>2. BridgeOK /\ HandlerOK /\ client \in [Sessions -> {"there", "gone"}] /\ Own(s)
  BY TypeParts DEF IInv
<1>3. /\ \A t \in Attempts : t # Try(s) => copies'[t] = copies[t] /\ (t \in cut' <=> t \in cut)
      /\ UNCHANGED copies \/ (handler[s].pc = "text" /\ CopyStored(s))
  BY <1>1, DroppedFacts
<1>4. /\ \A t \in doubt' : t \in doubt \/ t = Try(s)
      /\ doubt \subseteq doubt'
      /\ \A t \in Attempts : t = Try(s) => t \in doubt'
  <2>1. ~Working(s) => Try(s) \notin Attempts
    BY <1>2 DEF Own, Attempts
  <2> QED BY <1>1, <2>1, FaultFacts
<1>5. /\ bridge'[s].pc \notin {"data", "submit"} /\ Try(s)' = 0
      /\ \A t \in Attempts : t # Try(s) => told'[t] = told[t]
      /\ \A r \in Sessions : r # s => bridge'[r] = bridge[r] /\ client'[r] = client[r]
  <2>1. CASE HttpLost(s)
    <3>1. Working(s) /\ Answer(s, "451") /\ client' = client
      BY <1>2, <2>1 DEF HttpLost, Unusable, Own, Working
    <3> QED BY <3>1, AnswerFacts DEF Codes, Try
  <2>2. CASE Stop(s)
    BY <1>2, <2>2, NoFacts DEF Stop, BridgeOK, Try
  <2> QED BY <2>1, <2>2
<1>6. handler'[s].pc = "none" /\ \A r \in Sessions : r # s => handler'[r] = handler[r]
  BY <1>2, NoFacts DEF HttpLost, Stop, Unusable, HandlerOK
<1>7. \A t \in Attempts : t # Try(s) => Untouched(t)
  BY <1>1, <1>3, <1>4, <1>5 DEF Untouched
<1>8. ASSUME NEW t \in Attempts, t = Try(s) PROVE (Once(t) /\ Exact(t))'
  <2>1. Exact(t)'
    BY <1>4, <1>8 DEF Exact
  <2>2. Once(t)
    BY DEF IInv
  <2>3. CASE UNCHANGED copies
    BY <2>1, <2>2, <2>3 DEF Once
  <2>4. CASE handler[s].pc = "text" /\ CopyStored(s)
    BY <1>8, <2>1, <2>2, <2>4, CopyStoredFacts DEF Once
  <2> QED BY <1>3, <2>3, <2>4
<1> QED BY <1>1, <1>5, <1>6, <1>7, <1>8, AttemptEnds

----------------------------------------------------------------------------
(* The theorems *)

LEMMA InitInv == Init => IInv
<1> SUFFICES ASSUME Init PROVE IInv
  OBVIOUS
<1>1. /\ \A s \in Sessions : bridge[s] = NoSession /\ handler[s] = NoHandler
      /\ \A t \in Attempts : /\ told[t] = "none" /\ named[t] = <<>>
                             /\ copies[t] = [n \in Entries |-> 0]
      /\ tries = 0 /\ cut = {} /\ doubt = {} /\ barred = {}
  BY DEF Init
<1>2. TypeOK
  <2>1. BridgeOK
    BY <1>1, NoFacts DEF Init, BridgeOK
  <2>2. HandlerOK
    BY NoFacts DEF Init, HandlerOK
  <2>3. AttemptsOK
    <3>1. /\ expired \in BOOLEAN /\ tries \in 0 .. MaxAttempts /\ faults \in 0 .. MaxFaults
          /\ cut \subseteq Attempts /\ doubt \subseteq Attempts /\ barred \subseteq Attempts
      <4>1. expired = FALSE /\ faults = 0
        BY DEF Init
      <4>2. 0 \in 0 .. MaxAttempts /\ 0 \in 0 .. MaxFaults
        BY BoundsAssumption
      <4> QED BY <1>1, <4>1, <4>2
    <3>2. named \in [Attempts -> Seq(Addrs)] /\ told \in [Attempts -> Codes]
      BY NoFacts DEF Init, Codes
    <3>3. copies \in [Attempts -> [Entries -> Nat]]
      BY DEF Init
    <3> QED BY <3>1, <3>2, <3>3 DEF AttemptsOK
  <2>4. client \in [Sessions -> {"there", "gone"}]
    BY DEF Init
  <2> QED BY <2>1, <2>2, <2>3, <2>4, TypeParts
<1>3. \A s \in Sessions :
         ~Working(s) /\ bridge[s].pc # "submit" /\ Try(s) = 0 /\ handler[s].pc = "none"
  BY <1>1, NoFacts DEF Working, Try
<1>4. TriesDiffer
  BY <1>3 DEF TriesDiffer
<1>5. \A s \in Sessions : Own(s) /\ Before(s) /\ Turn(s) /\ Place(s)
  BY <1>3, StageFacts DEF Own, Before, Turn, Place, Relaying, Stages
<1>6. \A t \in Attempts : Future(t) /\ Once(t) /\ Exact(t)
  BY <1>1 DEF Future, Once, Exact
<1> QED BY <1>2, <1>4, <1>5, <1>6 DEF IInv

LEMMA StepInv == IInv /\ [Next]_vars => IInv'
<1> SUFFICES ASSUME IInv, [Next]_vars PROVE IInv'
  OBVIOUS
<1>1. ASSUME NEW s \in Sessions, Client(s) \/ TextCut(s) \/ Eof(s) PROVE IInv'
  <2>1. TypeOK'
    BY <1>1, ClientType
  <2> QED BY <1>1, <2>1, QuietStep, LeavesStep, DataStep, TextStep, AnswerStep DEF Client
<1>2. ASSUME NEW s \in Sessions, Handle(s) \/ Failure(s) PROVE IInv'
  <2>1. TypeOK'
    BY <1>2, HandleType
  <2> QED BY <1>2, <2>1, AnswerStep, DialogueStep, EndsWithoutCopy, MxdStoresStep, RelayLostStep,
             LostStep DEF Handle, Failure
<1>3. CASE TokenExpires
  <2>1. TypeOK'
    BY <1>3 DEF IInv, TypeOK, TokenExpires, history
  <2> QED BY <1>3, <2>1, ExpiresStep
<1>4. CASE UNCHANGED vars
  <2>1. TypeOK'
    BY <1>4 DEF IInv, TypeOK, vars, history
  <2>2. TriesDiffer'
    BY <1>4 DEF IInv, TriesDiffer, Working, Try, vars
  <2>3. \A s \in Sessions : (Own(s) /\ Before(s) /\ Turn(s) /\ Place(s))'
    BY <1>4 DEF IInv, Own, Before, Turn, Place, Working, Try, Relaying, vars, history
  <2>4. \A t \in Attempts : (Future(t) /\ Once(t) /\ Exact(t))'
    BY <1>4 DEF IInv, Future, Once, Exact, vars, history
  <2> QED BY <2>1, <2>2, <2>3, <2>4 DEF IInv
<1> QED BY <1>1, <1>2, <1>3, <1>4 DEF Next

\* Each attempt belongs to one session, whose handler stands where its copies say.
THEOREM Invariance == Spec => []IInv
BY InitInv, StepInv, PTL DEF Spec

\* Every variable keeps its type, and no transaction outgrows MAX_SMTP_RECIPIENTS.
THEOREM TypeCorrectness == Spec => []TypeOK
<1>1. IInv => TypeOK
  BY DEF IInv
<1> QED BY <1>1, Invariance, PTL

\* Without a fault the answer to a DATA says exactly who has the message.
THEOREM AnswersAreExact == Spec => []FaultlessAnswersAreExact
<1>1. IInv => FaultlessAnswersAreExact
  BY DEF IInv, Exact, FaultlessAnswersAreExact
<1> QED BY <1>1, Invariance, PTL

----------------------------------------------------------------------------
(* Submission implements SubmitPromise *)

\* What a step must show of the attempt it works on to be a step of the promise.
LEMMA Advances ==
    ASSUME IInv, TypeOK', (\A t \in Attempts : Once(t))', NEW s \in Sessions, Working(s),
           \A t \in Attempts : t # Try(s) => copies'[t] = copies[t] /\ told'[t] = told[t],
           doubt' \in {doubt, doubt \cup {Try(s)}},
           Promise!Progress(copies[Try(s)], copies'[Try(s)]),
           told'[Try(s)] = "250" => ~Promise!Nobody(copies'[Try(s)]),
           told'[Try(s)] \notin {"none", "250"} =>
               Promise!Nobody(copies'[Try(s)]) \/ Try(s) \in doubt'
    PROVE  Promise!Next
<1> DEFINE t == Try(s)
           count == copies'[t]
           code == told'[t]
<1>1. t \in Attempts /\ told[t] = "none"
  BY WorkFacts DEF IInv, Own
<1>2. /\ copies \in [Attempts -> [Entries -> Nat]] /\ told \in [Attempts -> Codes]
      /\ copies' \in [Attempts -> [Entries -> Nat]] /\ told' \in [Attempts -> Codes]
  BY DEF IInv, TypeOK
<1>3. count \in [Entries -> 0 .. 1]
  <2>1. \A n \in Entries : count[n] \in 0 .. 1
    BY <1>1 DEF Once
  <2> QED BY <1>1, <1>2, <2>1
<1>4. code \in Promise!Codes
  BY <1>1, <1>2 DEF Codes, Promise!Codes
<1>5. PICK faulted \in {{}, {t}} : doubt' = doubt \cup faulted
  OBVIOUS
<1>6. copies' = [copies EXCEPT ![t] = count] /\ told' = [told EXCEPT ![t] = code]
  BY <1>1, <1>2
<1>7. /\ Promise!Progress(copies[t], count)
      /\ code = "250" => ~Promise!Nobody(count)
      /\ code \notin {"none", "250"} => Promise!Nobody(count) \/ t \in doubt \cup faulted
  BY <1>5
<1> HIDE DEF t, count, code
<1>8. Promise!Advance(t)
  BY <1>1, <1>3, <1>4, <1>5, <1>6, <1>7 DEF Promise!Advance, Promise!Final
<1> QED BY <1>1, <1>8 DEF Promise!Next

\* A fault of a session at work puts its attempt in doubt, of another one none.
LEMMA FaultDoubt ==
    ASSUME IInv, NEW s \in Sessions, Fault(s)
    PROVE  IF Working(s) THEN doubt' = doubt \cup {Try(s)} ELSE doubt' = doubt
<1>1. CASE Working(s)
  BY <1>1, WorkFacts DEF Fault, Try
<1>2. CASE ~Working(s)
  <2>1. Try(s) \notin Attempts
    BY <1>2 DEF IInv, Own, Attempts
  <2> QED BY <1>2, <2>1 DEF Fault, Try
<1> QED BY <1>1, <1>2

LEMMA DroppedProgress ==
    ASSUME IInv, NEW s \in Sessions, Dropped(s)
    PROVE  Promise!Progress(copies[Try(s)], copies'[Try(s)])
BY DroppedFacts, CopyStoredFacts DEF Promise!Progress

\* Steps that store a copy or end a relay: no answer yet.
LEMMA RelayMoves ==
    ASSUME IInv, IInv', NEW s \in Sessions, MxdStores(s) \/ MxdFails(s) \/ RelayLost(s)
    PROVE  Promise!Next
<1>1. Working(s) /\ told' = told
  BY StageFacts DEF IInv, Own, Working, MxdStores, MxdFails, RelayLost, Stages
<1>2. told'[Try(s)] = "none"
  BY <1>1 DEF IInv, Own
<1>3. doubt' \in {doubt, doubt \cup {Try(s)}}
  BY <1>1, FaultDoubt DEF MxdStores, MxdFails, RelayLost
<1>4. /\ \A t \in Attempts : t # Try(s) => copies'[t] = copies[t]
      /\ Promise!Progress(copies[Try(s)], copies'[Try(s)])
  <2>1. CASE MxdStores(s)
    BY <2>1, CopyStoredFacts DEF MxdStores, Promise!Progress
  <2>2. CASE RelayLost(s)
    BY <2>2, DroppedFacts, DroppedProgress DEF RelayLost
  <2> QED BY <2>1, <2>2, FailsAsLost
<1>5. TypeOK' /\ (\A t \in Attempts : Once(t))'
  BY DEF IInv
<1> QED BY <1>1, <1>2, <1>3, <1>4, <1>5, Advances

\* 250 is answered of a message somebody has, an error of one nobody has, or that a
\* fault put in doubt.
LEMMA AnswerMoves ==
    ASSUME IInv, IInv', NEW s \in Sessions,
           TextTooLarge(s) \/ Unauthorized(s) \/ BodyTooLarge(s) \/ Respond(s)
    PROVE  Promise!Next
<1>1. Working(s) /\ Try(s) \in Attempts /\ UNCHANGED <<copies, doubt>>
  <2>1. Working(s)
    BY DEF IInv, Own, Working, TextTooLarge, Unauthorized, BodyTooLarge, Respond
  <2> QED BY <2>1, WorkFacts DEF TextTooLarge, Unauthorized, BodyTooLarge, Respond
<1>2. PICK code \in Codes :
         /\ Answer(s, code)
         /\ code = "250" => Respond(s) /\ handler[s].relayed
         /\ Respond(s) /\ handler[s].relayed => code = "250"
  <2>1. CASE Respond(s)
    BY <2>1 DEF Respond, Codes
  <2>2. CASE ~Respond(s)
    BY <2>2 DEF TextTooLarge, Unauthorized, BodyTooLarge, Unusable, Codes
  <2> QED BY <2>1, <2>2
<1>3. /\ \A t \in Attempts : t # Try(s) => told'[t] = told[t]
      /\ told'[Try(s)] \in {code, "none"}
  BY <1>1, <1>2, AnswerFacts
<1>4. told'[Try(s)] = "250" => ~Promise!Nobody(copies'[Try(s)])
  BY <1>1, <1>2, <1>3, ListDone DEF Respond, Promise!Nobody
<1>5. ~Respond(s) => Promise!Nobody(copies[Try(s)])
  <2>1. handler[s].pc \in {"none", "received"} \/ Respond(s)
    BY DEF IInv, Own, TextTooLarge, Unauthorized, BodyTooLarge
  <2> QED BY <1>1, <2>1 DEF IInv, Before, Promise!Nobody
<1>6. Respond(s) /\ ~handler[s].relayed =>
          Promise!Nobody(copies[Try(s)]) \/ Try(s) \in doubt
  <2> SUFFICES ASSUME Respond(s), ~handler[s].relayed, Try(s) \notin doubt
               PROVE  Promise!Nobody(copies[Try(s)])
    OBVIOUS
  <2>1. \A n \in Entries : copies[Try(s)][n] # 1
    BY ListDone DEF Respond
  <2>2. \A n \in Entries : copies[Try(s)][n] \in {0, 1}
    BY <1>1 DEF IInv, Once
  <2> QED BY <2>1, <2>2 DEF Promise!Nobody
<1>7. told'[Try(s)] \notin {"none", "250"} =>
          Promise!Nobody(copies'[Try(s)]) \/ Try(s) \in doubt'
  BY <1>1, <1>2, <1>3, <1>5, <1>6
<1>8. Promise!Progress(copies[Try(s)], copies'[Try(s)])
  BY <1>1 DEF Promise!Progress
<1>9. TypeOK' /\ (\A t \in Attempts : Once(t))'
  BY DEF IInv
<1> QED BY <1>1, <1>3, <1>4, <1>7, <1>8, <1>9, Advances

\* What is lost is in doubt; a session that had no attempt loses none.
LEMMA LostMoves ==
    ASSUME IInv, IInv', NEW s \in Sessions, HttpLost(s) \/ Stop(s)
    PROVE  [Promise!Next]_Promise!vars
<1>1. Fault(s) /\ Dropped(s) /\ Own(s)
  BY DEF HttpLost, Stop, IInv
<1>2. CASE Working(s)
  <2>1. doubt' = doubt \cup {Try(s)} /\ Try(s) \in doubt'
    BY <1>1, <1>2, FaultDoubt
  <2>2. /\ \A t \in Attempts : t # Try(s) => told'[t] = told[t]
        /\ told'[Try(s)] # "250"
    <3>1. CASE HttpLost(s)
      <4>1. Answer(s, "451") /\ "451" \in Codes
        BY <3>1 DEF HttpLost, Unusable, Codes
      <4> QED BY <1>2, <4>1, AnswerFacts
    <3>2. CASE Stop(s)
      BY <1>1, <1>2, <3>2 DEF Stop, Own
    <3> QED BY <3>1, <3>2
  <2>3. /\ \A t \in Attempts : t # Try(s) => copies'[t] = copies[t]
        /\ Promise!Progress(copies[Try(s)], copies'[Try(s)])
    BY <1>1, DroppedFacts, DroppedProgress
  <2>4. TypeOK' /\ (\A t \in Attempts : Once(t))'
    BY DEF IInv
  <2> QED BY <1>2, <2>1, <2>2, <2>3, <2>4, Advances
<1>3. CASE ~Working(s)
  <2>1. handler[s].pc = "none" /\ Stop(s)
    BY <1>1, <1>3 DEF Own, Working, HttpLost
  <2>2. copies' = copies /\ told' = told
    BY <1>1, <2>1 DEF Dropped, Stop
  <2>3. doubt' = doubt
    BY <1>1, <1>3, FaultDoubt
  <2> QED BY <2>2, <2>3 DEF Promise!vars
<1> QED BY <1>2, <1>3

\* No other step touches copies, answers or doubt.
LEMMA StepMoves == IInv /\ IInv' /\ [Next]_vars => [Promise!Next]_Promise!vars
<1> SUFFICES ASSUME IInv, IInv', [Next]_vars PROVE [Promise!Next]_Promise!vars
  OBVIOUS
<1>1. ASSUME NEW s \in Sessions, Client(s) \/ TextCut(s) \/ Eof(s)
      PROVE  [Promise!Next]_Promise!vars
  <2>1. CASE TextTooLarge(s)
    BY <2>1, AnswerMoves
  <2>2. CASE ~TextTooLarge(s)
    BY <1>1, <2>2 DEF Client, AskCredentials, AskPassword, Authenticate, AuthFails, MailFrom,
         RcptTo, Rset, Data, TextRead, TextCut, ClientLeaves, Connect, Eof, history, Promise!vars
  <2> QED BY <2>1, <2>2
<1>2. ASSUME NEW s \in Sessions, Handle(s) PROVE [Promise!Next]_Promise!vars
  <2>1. CASE Unauthorized(s) \/ BodyTooLarge(s) \/ Respond(s)
    BY <2>1, AnswerMoves
  <2>2. CASE MxdStores(s)
    BY <2>2, RelayMoves
  <2>3. CASE Accept(s) \/ Route(s) \/ RejectExternal(s) \/ Exchange(s) \/ RcptRefused(s)
             \/ FinalRead(s) \/ Quit(s)
    BY <2>3 DEF Accept, Route, RejectExternal, Exchange, RcptRefused, FinalRead, Quit, history,
         Promise!vars
  <2> QED BY <1>2, <2>1, <2>2, <2>3 DEF Handle
<1>3. ASSUME NEW s \in Sessions, Failure(s) PROVE [Promise!Next]_Promise!vars
  BY <1>3, RelayMoves, LostMoves DEF Failure
<1>4. CASE TokenExpires \/ UNCHANGED vars
  BY <1>4 DEF TokenExpires, vars, history, Promise!vars
<1> QED BY <1>1, <1>2, <1>3, <1>4 DEF Next

\* Every behaviour of the submission path is one its promise to the client allows.
THEOREM Refinement == Spec => KeepsSubmitPromise
<1>1. Init => Promise!Init
  BY DEF Init, Promise!Init
<1> QED BY <1>1, Invariance, StepMoves, PTL DEF Spec, KeepsSubmitPromise, Promise!Spec

=============================================================================
