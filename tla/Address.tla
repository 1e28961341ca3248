------------------------------- MODULE Address -------------------------------
(***************************************************************************)
(* diamy_addr_canon, the only form in which addresses are compared, stored *)
(* and looked up, and resolve_principal of the directory, which is keyed   *)
(* by it.                                                                  *)
(*                                                                         *)
(* Characters stand for their classes: "a" and "A" for letters, "ZW" for   *)
(* the invisible format characters, "TAB" for the control characters.      *)
(* Unicode normalisation of other letters and the flags of suspicious      *)
(* addresses are left out.                                                 *)
(***************************************************************************)
EXTENDS MailText

CONSTANTS
    MaxAddress,     \* 320, the bound on an address
    MaxLocal        \* 64, the bound on its local part

ASSUME AddressAssumption == MaxAddress \in Nat /\ MaxLocal \in Nat

Folded(text) == [i \in DOMAIN text |-> IF text[i] = "A" THEN "a" ELSE text[i]]

----------------------------------------------------------------------------

\* The addr-spec, out of its display name and angle brackets; empty when they do
\* not match.
AddrSpec(raw) ==
    LET from == Find(raw, "<") IN
    IF from = 0 THEN raw
    ELSE IF Last(raw) = ">" THEN SubSeq(raw, from + 1, Len(raw) - 1) ELSE <<>>

\* Mutant: the first "@", as diamy-submitd takes it.
ScanFirst(spec) ==
    [quoted |-> FALSE, skip |-> FALSE, at |-> Find(spec, "@")]

\* The i-th character of an addr-spec. A backslash inside quotes hides the next one.
NextMark(s, c, i) ==
    IF s.skip THEN [quoted |-> s.quoted, skip |-> FALSE, at |-> s.at]
    ELSE [quoted |-> IF c = Quote THEN ~s.quoted ELSE s.quoted,
          skip |-> s.quoted /\ c = Backslash,
          at |-> IF c = "@" /\ ~s.quoted THEN i ELSE s.at]

\* The last "@" outside quotes.
Scan(spec) ==
    LET scan[i \in 0 .. Len(spec)] ==
            IF i = 0 THEN [quoted |-> FALSE, skip |-> FALSE, at |-> 0]
            ELSE NextMark(scan[i - 1], spec[i], i)
    IN  scan[Len(spec)]

IsQuoted(local) ==
    Len(local) >= 2 /\ Head(local) = Quote /\ Last(local) = Quote

StripFormat(text) ==
    LET visible == InOrder({i \in DOMAIN text : text[i] # "ZW"})
    IN  [n \in DOMAIN visible |-> text[visible[n]]]

\* idna::domain_to_ascii.
DomainToAscii(domain) == Folded(StripFormat(domain))

\* The default policy folds a local part unless it is quoted, and keeps its tag.
Cased(local, quoted) == IF quoted THEN local ELSE Folded(local)

NotAnAddress == [ok |-> FALSE, local |-> <<>>, domain |-> <<>>]

Canon(given) ==
    LET raw == Trim(given, Blank)
        spec == AddrSpec(raw)
        scan == Scan(spec)
        local == SubSeq(spec, 1, scan.at - 1)
        domain == SubSeq(spec, scan.at + 1, Len(spec))
        ascii == DomainToAscii(domain)
    IN  IF \/ Len(raw) > MaxAddress \/ "TAB" \in ToSet(raw)
           \/ spec = <<>> \/ scan.quoted \/ scan.at = 0
           \/ local = <<>> \/ Len(local) > MaxLocal
           \/ domain = <<>> \/ ToSet(domain) \cap Blank # {}
           \/ <<>> \in ToSet(Split(ascii, "."))
        THEN NotAnAddress
        ELSE [ok |-> TRUE, local |-> Cased(StripFormat(local), IsQuoted(local)), domain |-> ascii]

\* The canonical form itself.
AsText(address) == address.local \o <<"@">> \o address.domain

----------------------------------------------------------------------------
(* The recipient of RCPT TO, from the bridge to the mailbox *)

\* The line of the mail client; the bridge keeps the canonical form.
BridgeRecipient(line) == Canon(ExtractAddr(line))

\* The domain the bridge and diamy-submitd look for among the local ones.
BridgeDomain(text) == SubSeq(text, FindLast(text, "@") + 1, Len(text))
SubmitdDomain(text) == SubSeq(text, Find(text, "@") + 1, Len(text))

\* What diamy-mxd makes of the line diamy-submitd sends for it.
RelayedRecipient(text) == Canon(ExtractAddr(<<"<">> \o text \o <<">">>))

\* The principal of a mailbox, whose key in the directory is canonical.
Resolves(address, key) == Canon(address).ok /\ AsText(Canon(address)) = key

----------------------------------------------------------------------------
(* Properties *)

\* An invisible character behind the backslash of a quoted part.
EscapesInvisible(raw) ==
    LET spec == AddrSpec(Trim(raw, Blank)) IN
    \E i \in DOMAIN spec : spec[i] = "ZW" /\ Scan(SubSeq(spec, 1, i - 1)).skip

\* The canonical form is its own canonical form, so that what was stored is found
\* again (A24-BI-1, diamy_addr_canon). Only a local part that invisible characters or
\* inner brackets hid escapes it: it may be left empty, or begin with a blank or hold
\* a bracket, which the next reading strips or refuses; and a backslash whose
\* invisible character is gone hides the next one instead.
CanonIsStable(raw) ==
    LET canon == Canon(raw) IN
    /\ canon.ok /\ ~EscapesInvisible(raw)
    /\ canon.local # <<>> /\ Head(canon.local) \notin Blank /\ "<" \notin ToSet(AsText(canon))
    => Canon(AsText(canon)) = canon

\* A recipient the bridge accepts is, if it has no invisible character, the one
\* diamy-mxd delivers to, of the domain the bridge tested; diamy-submitd tests the
\* same domain exactly when the local part has no "@" (handle_smtp_connection,
\* relay_one_recipient, run_command_loop).
RecipientIsKept(line) ==
    LET accepted == BridgeRecipient(line)
        text == AsText(accepted)
    IN  accepted.ok /\ "ZW" \notin ToSet(line) /\ Quote \notin ToSet(BridgeDomain(text)) =>
            /\ RelayedRecipient(text) = accepted
            /\ BridgeDomain(text) = accepted.domain
            /\ SubmitdDomain(text) = accepted.domain <=> "@" \notin ToSet(accepted.local)

\* Every spelling of an address in letters of any case finds the mailbox of that
\* address, and a quoted local part only its own spelling (resolve_principal, seeded).
SpellingsFindOneMailbox(raw) ==
    LET scan == Scan(AddrSpec(Trim(raw, Blank)))
        local == SubSeq(AddrSpec(Trim(raw, Blank)), 1, scan.at - 1)
    IN  Canon(raw).ok =>
            Resolves(raw, AsText(Canon(Folded(raw)))) <=> (IsQuoted(local) => Folded(local) = local)
=============================================================================
