------------------------------ MODULE MailText ------------------------------
(***************************************************************************)
(* The text of a message between the servers: how diamy-submitd writes it  *)
(* on the wire, how diamy-mxd and diamy-bridged read it (the two have the  *)
(* same reader and the same bounds), and the address of MAIL FROM and      *)
(* RCPT TO.                                                                *)
(*                                                                         *)
(* A text is a sequence of characters; what crosses the wire is a sequence *)
(* of lines, each without its line feed.                                   *)
(***************************************************************************)
EXTENDS Text

CONSTANTS
    MaxLine,    \* MAX_LINE_LEN
    MaxData     \* MAX_SMTP_DATA_BYTES, DEFAULT_MAX_DATA_BYTES

\* A dot alone and its CR are not too long a line.
ASSUME BoundsAssumption == MaxLine \in Nat /\ MaxLine >= 2 /\ MaxData \in Nat

Lines(text) == Split(text, "LF")

----------------------------------------------------------------------------
(* dot_stuff_for_wire *)

\* A line that starts with a dot gets another one.
Stuffed(line) == IF IsPrefix(<<".">>, line) THEN <<".">> \o line ELSE line

WithoutCR(line) == IF IsSuffix(<<"CR">>, line) THEN Front(line) ELSE line

Wire(text) ==
    [i \in DOMAIN Lines(text) |-> Stuffed(WithoutCR(Lines(text)[i])) \o <<"CR">>]
        \o << <<".", "CR">> >>

----------------------------------------------------------------------------
(* read_line_bounded, read_data_bounded, read_smtp_data_bounded *)

TooLong(line) == Len(line) > MaxLine

Content(line) == IF TooLong(line) THEN <<>> ELSE TrimEnd(line, {"CR"})

EndsText(line) == ~TooLong(line) /\ Content(line) = <<".">>

\* The first of two dots is dropped, a single one is kept.
Unstuffed(content) == IF IsPrefix(<<".", ".">>, content) THEN Tail(content) ELSE content

\* Mutant: the line feed is not counted.
ExtendUncounted(read, line) ==
    LET more == Unstuffed(Content(line)) IN
    IF read.tooLarge \/ TooLong(line) \/ Len(read.body) + Len(more) > MaxData
    THEN [read EXCEPT !.tooLarge = TRUE]
    ELSE [read EXCEPT !.body = @ \o more \o <<"LF">>]

Extend(read, line) ==
    LET more == Unstuffed(Content(line)) IN
    IF read.tooLarge \/ TooLong(line) \/ Len(read.body) + Len(more) + 1 > MaxData
    THEN [read EXCEPT !.tooLarge = TRUE]
    ELSE [read EXCEPT !.body = @ \o more \o <<"LF">>]

\* Where the text ends: at the first dot alone, or with the connection.
EndOfText(wire) == Min({i \in DOMAIN wire : EndsText(wire[i])} \cup {Len(wire) + 1})

\* What the lines before the end add up to.
Received(lines) ==
    LET read[i \in 0 .. Len(lines)] ==
            IF i = 0 THEN [body |-> <<>>, tooLarge |-> FALSE] ELSE Extend(read[i - 1], lines[i])
    IN  read[Len(lines)]

ReadText(wire) == Received(SubSeq(wire, 1, EndOfText(wire) - 1))

----------------------------------------------------------------------------
(* extract_addr *)

Blank == {Space, "TAB"}

\* What stands between the first "<" and the ">" that follows, empty when the
\* code finds no address.
ExtractAddr(line) ==
    LET from == Find(line, "<")
        rest == SubSeq(line, from + 1, Len(line))
    IN  IF from = 0 THEN <<>> ELSE Trim(SubSeq(rest, 1, Find(rest, ">") - 1), Blank)

----------------------------------------------------------------------------
(* Properties *)

\* What a text becomes on its way: the CRs before a line feed, or at the end, are
\* gone, and there is one line feed more.
Rewritten(text) ==
    LET lost == {i \in DOMAIN text : \E j \in i .. Len(text) :
                    /\ \A k \in i .. j : text[k] = "CR"
                    /\ j = Len(text) \/ text[j + 1] = "LF"}
        kept == InOrder(DOMAIN text \ lost)
    IN  [n \in DOMAIN kept |-> text[kept[n]]] \o <<"LF">>

\* diamy-mxd reads the whole text diamy-submitd relays, not a dot more or less,
\* and takes none of its lines for the end; it refuses one that is too large
\* (dot_stuff_for_wire, read_data_bounded).
RelayedTextIsRead(text) ==
    LET wire == Wire(text)
        read == ReadText(wire)
    IN  /\ EndOfText(wire) = Len(wire)
        /\ read.tooLarge <=> \/ \E i \in DOMAIN wire : TooLong(wire[i])
                             \/ Len(Rewritten(text)) > MaxData
        /\ ~read.tooLarge => read.body = Rewritten(text)

\* The lines of a mail client that ends them with CR LF and doubles their dots.
Conforming(lines) ==
    \A i \in DOMAIN lines :
        IsSuffix(<<"CR">>, lines[i]) /\ (IsPrefix(<<".">>, lines[i]) => IsPrefix(<<".", ".">>, lines[i]))

\* A text the bridge accepts reaches the mailbox as the client sent it, one line
\* feed longer. Only a text of exactly MaxData bytes is then refused by diamy-mxd,
\* for that line feed (read_smtp_data_bounded, dot_stuff_for_wire, read_data_bounded).
SubmittedTextIsRead(lines) ==
    LET sent == SubSeq(lines, 1, EndOfText(lines) - 1)
        submitted == ReadText(lines)
        read == ReadText(Wire(submitted.body))
    IN  ~submitted.tooLarge =>
        /\ ~read.tooLarge => read.body = submitted.body \o <<"LF">>
        /\ Conforming(sent) => (read.tooLarge <=> Len(submitted.body) = MaxData)
=============================================================================
