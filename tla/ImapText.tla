------------------------------ MODULE ImapText ------------------------------
(***************************************************************************)
(* How diamy-bridged reads the commands of an IMAP client and which        *)
(* messages and items a FETCH answers.                                     *)
(*                                                                         *)
(* Characters are lexemes where only whole words matter: "HEADER.FIELDS",  *)
(* "BODY[" are one character of an item list each.                         *)
(***************************************************************************)
EXTENDS Text

CONSTANTS
    MaxLiterals,    \* MAX_LITERALS_PER_COMMAND
    MaxExpansion    \* MAX_SET_EXPANSION

ASSUME LimitsAssumption == MaxLiterals \in Nat \ {0} /\ MaxExpansion \in Nat

----------------------------------------------------------------------------
(* read_command, handle_connection: the lines of one command              *)
(*                                                                         *)
(* A client sends its command as lines that end with a literal each, and   *)
(* a last line. A literal is                                               *)
(*   size  "fits"; "over", of more bytes than MAX_LITERAL_LEN; or          *)
(*         "unseen", of a few bytes but on a line over MAX_LINE_LEN        *)
(*   sync  {N}: the client waits for "+" before it sends the N bytes and   *)
(*         the rest; {N+}: it sends them at once                           *)

Literals == [size : {"fits", "over", "unseen"}, sync : BOOLEAN]

\* The bytes of a refused literal are read and dropped (drain_bytes).
Drained(literal) == literal.size = "over" /\ ~literal.sync

\* What the client gets for a command that is read: one tagged answer, whatever the
\* command is, and none for a blank line.
Dispatched(blank) == IF blank THEN <<>> ELSE <<"run">>

\* For one that is not (LineRead::TooLong).
Refusal == <<"BAD">>

\* One line more. begun says that the command being read is not blank so far, waiting
\* that the client waits for a "+" that does not come and sends nothing.
AfterLiteral(s, literal) ==
    IF s.waiting THEN s
    ELSE IF literal.size # "fits"
    THEN [accepted |-> 0, begun |-> ~Drained(literal), answers |-> s.answers \o Refusal,
          waiting |-> literal.sync]
    ELSE IF s.accepted + 1 < MaxLiterals
    THEN [accepted |-> s.accepted + 1, begun |-> TRUE, answers |-> s.answers, waiting |-> FALSE]
    ELSE [accepted |-> 0, begun |-> FALSE, answers |-> s.answers \o Refusal, waiting |-> FALSE]

\* All the answers to a command. Bytes that are left on the stream begin the next one.
Answers(literals, lastLine) ==
    LET read[i \in 0 .. Len(literals)] ==
            IF i = 0 THEN [accepted |-> 0, begun |-> TRUE, answers |-> <<>>, waiting |-> FALSE]
            ELSE AfterLiteral(read[i - 1], literals[i])
        end == read[Len(literals)]
    IN  end.answers \o IF end.waiting THEN <<>> ELSE Dispatched(~end.begun /\ lastLine = "blank")

----------------------------------------------------------------------------
(* imap_quote, tokenize_args *)

EscapedChar(c) == IF c \in {Backslash, Quote} THEN <<Backslash, c>> ELSE <<c>>

Escaped(text) ==
    LET escaped[i \in 0 .. Len(text)] ==
            IF i = 0 THEN <<>> ELSE escaped[i - 1] \o EscapedChar(text[i])
    IN  escaped[Len(text)]

Quoted(text) == <<Quote>> \o Escaped(text) \o <<Quote>>

\* in: "gap", "word" or "quotes". A quote opens a token only where one may start,
\* and a backslash is a character like any other.
NextChar(s, c) ==
    LET opens == s.in = "gap" /\ c # Space
        closes == \/ s.in = "word" /\ c = Space
                  \/ s.in = "quotes" /\ c = Quote
        last == Len(s.done)
    IN  IF opens /\ c = Quote THEN [done |-> Append(s.done, <<>>), in |-> "quotes"]
        ELSE IF opens THEN [done |-> Append(s.done, <<c>>), in |-> "word"]
        ELSE IF closes \/ s.in = "gap" THEN [done |-> s.done, in |-> "gap"]
        ELSE [done |-> [s.done EXCEPT ![last] = Append(@, c)], in |-> s.in]

Tokens(text) ==
    LET read[i \in 0 .. Len(text)] ==
            IF i = 0 THEN [done |-> <<>>, in |-> "gap"] ELSE NextChar(read[i - 1], text[i])
    IN  read[Len(text)].done

\* The arguments a client sends as literals, as read_command assembles them.
Assembled(literals) ==
    LET line[i \in 0 .. Len(literals)] ==
            IF i = 0 THEN <<>> ELSE line[i - 1] \o <<Space>> \o Quoted(literals[i])
    IN  line[Len(literals)]

----------------------------------------------------------------------------
(* parse_number_set *)

Star == -1
Garbled == -2       \* not a number

\* The parts of a set: ranges, and numbers alone.
Ends == Nat \cup {Star, Garbled}
Parts == {p \in [range : BOOLEAN, from : Ends, to : Ends] : p.range \/ p.from = p.to}

\* The bounds of a part: a number alone is a range of one.
LowEnd(part) == IF part.from < 1 THEN 1 ELSE part.from
HighEnd(part, max) == IF part.to < 0 THEN max ELSE part.to

\* Bounds in any order.
Between(part, max) ==
    LET ends == {LowEnd(part), HighEnd(part, max)} IN Min(ends) .. Max(ends)

NumbersOf(part, max) ==
    CASE part.range -> Between(part, max) \cap 1 .. max
      [] ~part.range /\ part.from = Star -> {max} \cap 1 .. max
      [] OTHER -> {part.from} \cap 1 .. max

\* The n smallest.
Smallest(S, n) == {x \in S : Cardinality({y \in S : y < x}) < n}

\* Only a range is held to the bound; duplicates count for it.
AddPart(s, part, max) ==
    LET new == IF part.range THEN Smallest(NumbersOf(part, max), MaxExpansion - s.pushed)
                             ELSE NumbersOf(part, max)
    IN  [all |-> s.all \cup new, pushed |-> s.pushed + Cardinality(new)]

NumberSet(parts, max) ==
    LET read[i \in 0 .. Len(parts)] ==
            IF i = 0 THEN [all |-> {}, pushed |-> 0] ELSE AddPart(read[i - 1], parts[i], max)
    IN  read[Len(parts)]

----------------------------------------------------------------------------
(* cmd_fetch: which rows are answered *)

\* Mutant: the bound on UIDs is the number of rows.
HighestAsCount(box, isUid) == Len(box)

Highest(box, isUid) ==
    IF isUid THEN Max({box[i] : i \in DOMAIN box} \cup {0}) ELSE Len(box)

\* The positions answered, in order: box is the UIDs of the rows, readable the
\* rows fetch_and_decrypt opens.
Fetched(box, parts, isUid, readable) ==
    LET numbers == NumberSet(parts, Highest(box, isUid)).all
    IN  InOrder({i \in DOMAIN box : (IF isUid THEN box[i] ELSE i) \in numbers} \cap readable)

----------------------------------------------------------------------------
(* tokenize_bracket_aware, parse_header_fields_item, parse_fetch_items *)

\* Mutant: only one name of the body opens a bracket.
OpensBody(c) == c \in {"(", "BODY["}

Opens(c) == c \in {"(", "BODY[", "BODY.PEEK["}
Closes(c) == c \in {")", "]"}

\* A blank separates outside brackets only.
ItemTokens(text) ==
    LET Step(s, c) ==
            IF c = " " /\ s.depth <= 0
            THEN IF Last(s.done) = <<>> THEN s ELSE [s EXCEPT !.done = Append(@, <<>>)]
            ELSE [done |-> Append(Front(s.done), Append(Last(s.done), c)),
                  depth |-> s.depth + (IF Opens(c) THEN 1 ELSE 0) - (IF Closes(c) THEN 1 ELSE 0)]
    IN  SelectSeq(FoldLeft(Step, [done |-> << <<>> >>, depth |-> 0], text).done,
                  LAMBDA token : token # <<>>)

NoFields == << <<>> >>

\* The header fields a token asks for.
HeaderFields(token) ==
    LET inner == SubSeq(token, 2, Len(token) - 1)
        rest == Trim(Tail(inner), {" "})
    IN  IF /\ Len(token) >= 2 /\ Head(token) \in {"BODY[", "BODY.PEEK["} /\ Last(token) = "]"
           /\ inner # <<>> /\ Head(inner) = "HEADER.FIELDS"
           /\ Len(rest) >= 2 /\ Head(rest) = "(" /\ Last(rest) = ")"
        THEN Words(SubSeq(rest, 2, Len(rest) - 1), {" "})
        ELSE NoFields

Supported == {<<"UID">>, <<"FLAGS">>, <<"BODY[", "]">>, <<"BODY.PEEK[", "]">>}

\* The items, a list of fields in its normal form.
FetchItems(text) ==
    LET Item(token) == IF HeaderFields(token) # NoFields
                       THEN <<"fields">> \o HeaderFields(token) ELSE token
        tokens == ItemTokens(TrimEnd(TrimStart(Trim(text, {" "}), {"("}), {")"}))
        items == [i \in DOMAIN tokens |-> Item(tokens[i])]
    IN  SelectSeq(items, LAMBDA item : Head(item) = "fields" \/ item \in Supported)

\* The attributes of one answer: a UID FETCH always has the UID, and a body has the
\* same label whether it was peeked at or not.
Attributes(items, isUid) ==
    (IF isUid /\ <<"UID">> \notin ToSet(items) THEN << <<"UID">> >> ELSE <<>>)
        \o [i \in DOMAIN items |-> IF items[i] = <<"BODY.PEEK[", "]">> THEN <<"BODY[", "]">> ELSE items[i]]

----------------------------------------------------------------------------
(* day_of_week, to_rfc2822_date *)

SakamotoYear(year, month) == IF month < 3 THEN year - 1 ELSE year

\* 0 is Sunday.
DayOfWeek(year, month, day) ==
    LET y == SakamotoYear(year, month) IN
    (y + y \div 4 - y \div 100 + y \div 400 + <<0, 3, 2, 5, 0, 3, 5, 1, 4, 6, 2, 4>>[month] + day) % 7

\* A character of such a text is a whole number, up to this bound.
LastYear == 2200
Value == [c \in {ToString(n) : n \in 0 .. LastYear} |-> CHOOSE n \in 0 .. LastYear : ToString(n) = c]

\* The numbers between the separators, -1 for what is not one.
Numbers(text, separator) ==
    LET pieces == Split(text, separator)
        number(piece) == IF Len(piece) = 1 /\ piece[1] \in DOMAIN Value THEN Value[piece[1]] ELSE -1
    IN  [i \in DOMAIN pieces |-> number(pieces[i])]

\* split_time_and_tz: the zone follows the last blank.
TimeAndZone(text) ==
    LET cut == FindLast(text, " ") IN
    [time |-> Trim(SubSeq(text, 1, cut - 1), {" "}), zone |-> SubSeq(text, cut + 1, Len(text))]

Unread == [read |-> FALSE]

\* parse_maild_datetime: date, hour without fractions, offset without seconds.
RawDateTime(raw) ==
    LET text == Trim(raw, {" "})
        cut == Find(text, " ")
        parts == TimeAndZone(SubSeq(text, cut + 1, Len(text)))
        day == Numbers(SubSeq(text, 1, cut - 1), "-")
        time == Numbers(Split(parts.time, ".")[1], ":")
        zone == Numbers(Tail(parts.zone), ":")
    IN  IF /\ cut > 0 /\ parts.zone # <<>> /\ Head(parts.zone) \in {"+", "-"}
           /\ Len(day) = 3 /\ Len(time) = 3 /\ -1 \notin ToSet(day \o time \o SubSeq(zone, 1, 2))
        THEN [read |-> TRUE, day |-> day, time |-> time, negative |-> Head(parts.zone) = "-",
              zone |-> <<zone[1], IF Len(zone) > 1 THEN zone[2] ELSE 0>>]
        ELSE Unread

\* to_rfc2822_date: the same date with its weekday; what is not read is left as it is.
Rfc2822Date(raw) ==
    LET d == RawDateTime(raw) IN
    IF d = Unread THEN <<raw>>
    ELSE <<DayOfWeek(d.day[1], d.day[2], d.day[3]), d.day, d.time, d.negative, d.zone>>

----------------------------------------------------------------------------
(* Properties *)

\* A command with literals the bridge can read or refuse has exactly one answer,
\* that of the whole command or a refusal: the rest of a refused command is never
\* taken for another (read_command, handle_connection). Eight literals are refused,
\* and a client that goes on after a refused {N+} gets a second answer.
EachCommandIsAnsweredOnce(literals, lastLine) ==
    LET last == Len(literals)
        whole == \A i \in DOMAIN literals : literals[i].size = "fits"
    IN  /\ \A i \in 1 .. last - 1 : literals[i].size = "fits"
        /\ last > 0 => literals[last].size # "unseen" \/ literals[last].sync
        /\ last < MaxLiterals \/ (last = MaxLiterals /\ lastLine = "blank")
        /\ ~whole => literals[last].sync \/ lastLine = "blank"
        => Answers(literals, lastLine) = IF whole /\ last < MaxLiterals THEN <<"run">> ELSE Refusal

\* The arguments a client sends as literals are those LOGIN and SELECT read, exactly
\* when none has a quote or a backslash: imap_quote escapes what tokenize_args
\* does not read (read_command, tokenize_args).
LiteralsArrive(literals) ==
    Tokens(Assembled(literals)) = literals
        <=> \A i \in DOMAIN literals : ToSet(literals[i]) \cap {Quote, Backslash} = {}

\* The rows a set of numbers designates (RFC 3501): a range has its bounds in any
\* order, "*" is the highest number of the mailbox, rows that are not there are skipped.
Designated(box, parts, isUid) ==
    LET number(i) == IF isUid THEN box[i] ELSE i
        bound(n) == IF n = Star THEN number(Len(box)) ELSE n
    IN  {i \in DOMAIN box : \E p \in ToSet(parts) :
            \/ bound(p.from) <= number(i) /\ number(i) <= bound(p.to)
            \/ bound(p.to) <= number(i) /\ number(i) <= bound(p.from)}

\* FETCH and UID FETCH answer each row designated once, in order, without those the
\* bridge cannot open: no hole in the UIDs, no held message shifts an answer to
\* another row (cmd_fetch, parse_number_set). Out of the claim: a range that begins
\* with "*", which is read as 1, and a set of MAX_SET_EXPANSION numbers or more.
FetchAnswersTheDesignated(box, parts, isUid, readable) ==
    /\ \A p \in ToSet(parts) : p.range => p.from > 0 /\ p.to # Garbled
    /\ NumberSet(parts, Highest(box, isUid)).pushed < MaxExpansion
    => Fetched(box, parts, isUid, readable) = InOrder(Designated(box, parts, isUid) \cap readable)

\* The text of an item, and of a list of items.
ItemText(item) ==
    IF Head(item) # "fields" THEN item
    ELSE <<"BODY.PEEK[", "HEADER.FIELDS", " ">>
            \o FoldLeft(LAMBDA s, f : s \o (IF Last(s) = "(" THEN f ELSE <<" ">> \o f), <<"(">>, Tail(item))
            \o <<")", "]">>

ListText(items) ==
    FoldLeft(LAMBDA s, item : s \o (IF s = <<>> THEN <<>> ELSE <<" ">>) \o ItemText(item), <<>>, items)

\* A FETCH answers every supported item asked, in order, under its name, and no
\* other: a list of header fields is one item, whatever surrounds it; and a UID
\* FETCH has the UID (parse_fetch_items, cmd_fetch).
FetchItemsAreAnswered(items, isUid) ==
    LET known == SelectSeq(items, LAMBDA item : Head(item) = "fields" \/ item \in Supported)
        answered == Attributes(FetchItems(<<"(">> \o ListText(items) \o <<")">>), isUid)
        shift == Len(answered) - Len(known)
    IN  /\ isUid => <<"UID">> \in ToSet(answered)
        /\ shift = IF isUid /\ <<"UID">> \notin ToSet(items) THEN 1 ELSE 0
        /\ \A i \in DOMAIN known :
            answered[i + shift] = IF Head(known[i]) = "BODY.PEEK[" THEN <<"BODY[", "]">> ELSE known[i]
        /\ Len(items) = 1 => FetchItems(ListText(items)) = known

\* OffsetDateTime as diamy-maild writes it.
Written(day, time, sign, zone) ==
    LET Joined(numbers, separator) ==
            <<ToString(numbers[1]), separator, ToString(numbers[2]), separator, ToString(numbers[3])>>
    IN  Joined(day, "-") \o <<" ">> \o Joined(time, ":") \o <<".", ToString(53), " ", sign>> \o Joined(zone, ":")

\* The client is shown the date diamy-maild sent, with the day of the week of the
\* calendar, counted from Monday the first of January 2024; a date without its zone
\* is shown as it came (to_rfc2822_date, day_of_week).
DatesAreKept(year) ==
    LET leap(y) == y % 4 = 0 /\ (y % 100 = 0 => y % 400 = 0)
        length(month) == CASE month = 2 -> IF leap(year) THEN 29 ELSE 28
                           [] month \in {4, 6, 9, 11} -> 30
                           [] OTHER -> 31
        before == 365 * (year - 2024) + Cardinality({y \in 2024 .. year - 1 : leap(y)})
        start(month) == FoldLeft(LAMBDA days, m : days + length(m), before, [m \in 1 .. month - 1 |-> m])
    IN  \A month \in 1 .. 12 :
        /\ \A n \in 1 .. length(month) : DayOfWeek(year, month, n) = (start(month) + n) % 7
        /\ \A sign \in {"+", "-"} :
            LET day == <<year, month, length(month)>>
                time == <<month, 0, 59>>
                raw == Written(day, time, sign, <<month, 30, 0>>)
            IN  /\ Rfc2822Date(raw) = <<DayOfWeek(year, month, day[3]), day, time, sign = "-", <<month, 30>>>>
                /\ Rfc2822Date(SubSeq(raw, 1, 13)) = <<SubSeq(raw, 1, 13)>>
=============================================================================
