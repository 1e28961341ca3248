-------------------------------- MODULE Text --------------------------------
(***************************************************************************)
(* The operations on strings the sources take from the standard library,   *)
(* on sequences of characters.                                             *)
(***************************************************************************)
EXTENDS Integers, Sequences, FiniteSets, SequencesExt, FiniteSetsExt

\* The characters that separate and quote.
Space == " "
Quote == "\""
Backslash == "\\"

\* Position of the first c, 0 when there is none (str::find).
Find(text, c) == SelectInSeq(text, LAMBDA x : x = c)

\* str::rfind.
FindLast(text, c) == SelectLastInSeq(text, LAMBDA x : x = c)

\* The numbers of a finite set, the smallest first.
InOrder(S) ==
    [n \in 1 .. Cardinality(S) |-> CHOOSE x \in S : Cardinality({y \in S : y < x}) = n - 1]

\* str::split: one piece more than there are separators.
Split(text, c) ==
    LET end == Len(text) + 1
        cuts == InOrder({i \in 0 .. end : i \in {0, end} \/ text[i] = c})
    IN  [n \in 1 .. Len(cuts) - 1 |-> SubSeq(text, cuts[n] + 1, cuts[n + 1] - 1)]

\* str::split_whitespace.
Words(text, blank) ==
    SelectSeq(Split([i \in DOMAIN text |-> IF text[i] \in blank THEN " " ELSE text[i]], " "),
              LAMBDA piece : piece # <<>>)

TrimStart(text, chars) ==
    SubSeq(text, Min({i \in DOMAIN text : text[i] \notin chars} \cup {Len(text) + 1}), Len(text))

TrimEnd(text, chars) ==
    SubSeq(text, 1, Max({i \in DOMAIN text : text[i] \notin chars} \cup {0}))

Trim(text, chars) == TrimStart(TrimEnd(text, chars), chars)
=============================================================================
