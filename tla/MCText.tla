------------------------------- MODULE MCText -------------------------------
(***************************************************************************)
(* The text algorithms on every input up to a bound: an input grows by one *)
(* character, line or item per step, and the properties are invariants.    *)
(***************************************************************************)
EXTENDS Address, ImapText

CONSTANTS
    Alphabet,   \* what each kind of input is made of
    MaxLength   \* length of each kind of input

\* The lines of a command end with literals, a set of numbers has the parts of one.
ASSUME AlphabetAssumption ==
    /\ "command" \in DOMAIN Alphabet => Alphabet["command"] \subseteq Literals
    /\ "set" \in DOMAIN Alphabet => Alphabet["set"] \subseteq Parts

VARIABLES kind, input

\* Mailboxes, as the UIDs of their rows, in order.
Boxes == {<<>>, <<3>>, <<1, 2, 3>>, <<1, 4, 6>>, <<2, 4, 5, 6>>}

Init == kind \in DOMAIN Alphabet /\ input = <<>>

Next ==
    /\ Len(input) < MaxLength[kind]
    /\ \E c \in Alphabet[kind] : input' = Append(input, c)
    /\ UNCHANGED kind

Spec == Init /\ [][Next]_<<kind, input>>

\* What dot_stuff_for_wire writes, read_data_bounded reads, and a text the bridge
\* accepts reaches the mailbox whole.
TextsAreRead ==
    kind = "text" =>
        RelayedTextIsRead(input) /\ SubmittedTextIsRead(Lines(input) \o << <<".", "CR">> >>)

\* A canonical address is its own canonical form, the recipient the bridge accepts is
\* the one of the mailbox, and the spellings of an address lead to one principal
\* (diamy_addr_canon, RCPT TO of the bridge and of diamy-mxd, resolve_principal).
AddressesAreKept ==
    kind \in {"address", "quoted"} =>
        /\ CanonIsStable(input)
        /\ RecipientIsKept(<<"<">> \o input \o <<">">>)
        /\ SpellingsFindOneMailbox(input)

\* An IMAP client gets one answer to its command, never to the rest of a refused one,
\* the arguments it sends as literals are those LOGIN reads, and a FETCH answers the
\* rows it designates, on mailboxes with holes in their UIDs and with rows the bridge
\* cannot open (read_command, tokenize_args, cmd_fetch).
CommandsAreAnswered ==
    /\ kind = "command" =>
        \A lastLine \in {"blank", "words"} : EachCommandIsAnsweredOnce(input, lastLine)
    /\ kind = "arguments" => LiteralsArrive(Split(input, "|"))
    /\ kind = "set" =>
        \A box \in Boxes, isUid \in BOOLEAN : \A readable \in SUBSET DOMAIN box :
            FetchAnswersTheDesignated(box, input, isUid, readable)

\* The answer has each item asked of a row, under its name, and the date diamy-maild
\* sent (parse_fetch_items, to_rfc2822_date).
ItemsAreAnswered ==
    /\ kind = "items" => \A isUid \in BOOLEAN : FetchItemsAreAnswered(input, isUid)
    /\ kind = "years" /\ input # <<>> => DatesAreKept(Head(input))

Bounds == {0, 1, 2, 4, 7}

Alphabets ==
    [text |-> {".", "x", "CR", "LF"},
     address |-> {"a", "A", "@", "<", ">", " ", "TAB", ".", "ZW"},
     quoted |-> {"a", "A", "@", "\"", "\\", "ZW"},
     command |-> Literals,
     arguments |-> {"a", " ", "\"", "\\", "|"},
     set |-> [range : {TRUE}, from : Bounds, to : Bounds \cup {Star}]
                \cup {[range |-> FALSE, from |-> n, to |-> n] : n \in Bounds \cup {Star, Garbled}},
     items |-> Supported \cup {<<"BODY[", "TEXT", "]">>, <<"BODY[", "]", "<0.9>">>,
                               <<"fields", <<"From">>>>, <<"fields", <<"From">>, <<"Subject">>>>},
     years |-> 2024 .. 2101]

Lengths ==
    [text |-> 7, address |-> 5, quoted |-> 6, command |-> 5, arguments |-> 6, set |-> 2,
     items |-> 3, years |-> 1]
=============================================================================
