---------------------------- MODULE MCText_proofs ----------------------------
(***************************************************************************)
(* The inputs MCText enumerates, for every alphabet and every length.      *)
(***************************************************************************)
EXTENDS MCText, MailText_proofs

InputIsOfItsKind == kind \in DOMAIN Alphabet /\ input \in Seq(Alphabet[kind])

LEMMA InputsAreOfTheirKind == Spec => []InputIsOfItsKind
<1>1. Init => InputIsOfItsKind
  BY DEF Init, InputIsOfItsKind
<1>2. InputIsOfItsKind /\ [Next]_<<kind, input>> => InputIsOfItsKind'
  <2> SUFFICES ASSUME InputIsOfItsKind, [Next]_<<kind, input>>
               PROVE  InputIsOfItsKind'
    OBVIOUS
  <2>1. CASE Next
    BY <2>1 DEF Next, InputIsOfItsKind
  <2>2. CASE UNCHANGED <<kind, input>>
    BY <2>2 DEF InputIsOfItsKind
  <2> QED BY <2>1, <2>2
<1> QED BY <1>1, <1>2, PTL DEF Spec

\* The lines of a text and the dot that ends them have no line feed.
LEMMA LinesAreLines ==
    ASSUME NEW S, NEW text \in Seq(S)
    PROVE  \E T : /\ Lines(text) \o <<Dot>> \in Seq(Seq(T))
                  /\ \A i \in 1 .. Len(Lines(text) \o <<Dot>>) :
                        \A j \in 1 .. Len((Lines(text) \o <<Dot>>)[i]) :
                            (Lines(text) \o <<Dot>>)[i][j] # "LF"
<1> DEFINE T == S \cup {".", "CR", "LF"}
           ls == Lines(text)
           all == With(ls, Dot)
<1>1. text \in Seq(T) /\ "LF" \in T
  OBVIOUS
<1>2. Dot \in Seq(T) /\ Len(Dot) = 2 /\ Dot[1] = "." /\ Dot[2] = "CR"
  BY DEF Dot
<1> HIDE DEF T
<1>3. ls \in Seq(Seq(T)) /\ \A i \in 1 .. Len(ls) : Free(ls[i], "LF")
  BY <1>1, PiecesAreFree DEF Lines
<1> HIDE DEF ls, all
<1>4. Free(Dot, "LF")
  <2>1. \A i \in 1 .. 2 : i = 1 \/ i = 2
    OBVIOUS
  <2> QED BY <1>2, <2>1 DEF Free
<1>5. /\ all \in Seq(Seq(T)) /\ Len(all) = Len(ls) + 1 /\ all[Len(ls) + 1] = Dot
      /\ \A i \in 1 .. Len(ls) : all[i] = ls[i]
  <2> DEFINE A == Seq(T)
  <2>1. ls \in Seq(A) /\ Dot \in A
    BY <1>2, <1>3
  <2> HIDE DEF A
  <2>2. /\ all \in Seq(A) /\ Len(all) = Len(ls) + 1 /\ all[Len(ls) + 1] = Dot
        /\ \A i \in 1 .. Len(ls) : all[i] = ls[i]
    BY <2>1, AppendFacts DEF all, With
  <2> QED BY <2>2 DEF A
<1>6. Len(ls) \in Nat
  BY <1>3
<1>7. \A i \in 1 .. Len(all) : Free(all[i], "LF")
  <2>1. \A i \in 1 .. Len(all) : i \in 1 .. Len(ls) \/ i = Len(ls) + 1
    BY <1>5, <1>6
  <2> QED BY <1>3, <1>4, <1>5, <2>1
<1>8. ls \o <<Dot>> = all
  BY <1>2, <1>3 DEF all, With
<1>9. \A i \in 1 .. Len(all) : \A j \in 1 .. Len(all[i]) : all[i][j] # "LF"
  BY <1>7 DEF Free
<1>10. Lines(text) \o <<Dot>> = all
  BY <1>8 DEF ls
<1> QED BY <1>5, <1>9, <1>10

\* Every text diamy-submitd relays is read whole, and every text the bridge accepts
\* reaches the mailbox, in any alphabet (dot_stuff_for_wire, read_data_bounded,
\* read_smtp_data_bounded).
THEOREM EveryTextIsRead == Spec => []TextsAreRead
<1>1. InputIsOfItsKind => TextsAreRead
  <2> SUFFICES ASSUME InputIsOfItsKind
               PROVE  RelayedTextIsRead(input) /\ SubmittedTextIsRead(Lines(input) \o << <<".", "CR">> >>)
    BY DEF TextsAreRead
  <2>1. PICK S : input \in Seq(S)
    BY DEF InputIsOfItsKind
  <2>2. RelayedTextIsRead(input)
    BY <2>1, RelayedTextsAreRead
  <2> DEFINE all == Lines(input) \o <<Dot>>
  <2>3. PICK T : /\ all \in Seq(Seq(T))
                 /\ \A i \in 1 .. Len(all) : \A j \in 1 .. Len(all[i]) : all[i][j] # "LF"
    BY <2>1, LinesAreLines
  <2> HIDE DEF all
  <2>4. SubmittedTextIsRead(all)
    BY <2>3, SubmittedTextsAreRead
  <2> QED BY <2>2, <2>4 DEF all, Dot
<1> QED BY <1>1, InputsAreOfTheirKind, PTL

----------------------------------------------------------------------------
(* Answers: the lines of one command *)

Steps(n, V) == [1 .. n -> [V -> V]]

Follows(g, base, step, n) == g[0] = base /\ \A i \in 1 .. n : g[i] = step[i][g[i - 1]]

\* What is computed step by step, from values of a set to values of it.
LEMMA Recursion ==
    ASSUME NEW n \in Nat, NEW V, NEW base \in V, NEW step \in Steps(n, V)
    PROVE  \E g \in [0 .. n -> V] : Follows(g, base, step, n)
<1> DEFINE Good(g, m) == /\ g \in [0 .. m -> V] /\ g[0] = base
                         /\ \A i \in 1 .. m : i <= n => g[i] = step[i][g[i - 1]]
           N == {m \in Nat : m <= n => \E g : Good(g, m)}
<1>1. 0 \in N
  <2>1. Good([i \in 0 .. 0 |-> base], 0)
    OBVIOUS
  <2> HIDE DEF Good
  <2> QED BY <2>1
<1>2. ASSUME NEW m \in Nat, m \in N PROVE m + 1 \in N
  <2> SUFFICES ASSUME m + 1 <= n PROVE \E g : Good(g, m + 1)
    OBVIOUS
  <2>1. PICK f : Good(f, m)
    BY <1>2
  <2> DEFINE g == [i \in 0 .. m + 1 |-> IF i = m + 1 THEN step[m + 1][f[m]] ELSE f[i]]
  <2>2. m + 1 \in 1 .. n /\ f[m] \in V
    BY <2>1
  <2>3. step[m + 1][f[m]] \in V
    BY <2>2 DEF Steps
  <2>4. g \in [0 .. m + 1 -> V]
    BY <2>1, <2>3
  <2>5. \A i \in 0 .. m : g[i] = f[i]
    OBVIOUS
  <2>6. g[m + 1] = step[m + 1][f[m]]
    OBVIOUS
  <2> HIDE DEF g
  <2>7. g[0] = base
    BY <2>1, <2>5
  <2>8. ASSUME NEW i \in 1 .. m + 1 PROVE g[i] = step[i][g[i - 1]]
    <3>1. CASE i \in 1 .. m
      <4>1. i - 1 \in 0 .. m /\ i \in 0 .. m /\ i <= n
        BY <2>2, <3>1
      <4> QED BY <2>1, <2>5, <3>1, <4>1
    <3>2. CASE i = m + 1
      BY <2>5, <2>6, <3>2
    <3> QED BY <3>1, <3>2
  <2> QED BY <2>4, <2>7, <2>8
<1>3. n \in N
  <2> HIDE DEF N
  <2> QED BY <1>1, <1>2, NatInductionOnSet
<1>4. PICK g : Good(g, n)
  BY <1>3
<1>5. \A i \in 1 .. n : i <= n
  OBVIOUS
<1> QED BY <1>4, <1>5 DEF Follows

States == [accepted : Nat, begun : BOOLEAN, answers : Seq({"BAD"}), waiting : BOOLEAN]

\* The i literals so far were accepted.
AllAccepted(i) == [accepted |-> i, begun |-> TRUE, answers |-> <<>>, waiting |-> FALSE]

LEMMA AfterLiteralType ==
    ASSUME NEW s \in States, NEW literal \in Literals
    PROVE  AfterLiteral(s, literal) \in States
<1>1. Refusal \in Seq({"BAD"})
  BY DEF Refusal
<1>2. s.answers \o Refusal \in Seq({"BAD"}) /\ s.accepted + 1 \in Nat
  BY <1>1 DEF States
<1>3. literal.sync \in BOOLEAN
  BY DEF Literals
<1> QED BY <1>2, <1>3 DEF AfterLiteral, States

IsAnswering(f, literals) ==
    f = [i \in 0 .. Len(literals) |->
            IF i = 0 THEN AllAccepted(0) ELSE AfterLiteral(f[i - 1], literals[i])]

Answering(literals) == CHOOSE f : IsAnswering(f, literals)

LEMMA AnsweringFacts ==
    ASSUME NEW literals \in Seq(Literals), NEW lastLine
    PROVE  LET f == Answering(literals)
               end == f[Len(literals)]
           IN  /\ Answers(literals, lastLine)
                    = end.answers \o IF end.waiting THEN <<>> ELSE Dispatched(~end.begun /\ lastLine = "blank")
               /\ f[0] = AllAccepted(0)
               /\ \A i \in 1 .. Len(literals) : f[i] = AfterLiteral(f[i - 1], literals[i])
<1> DEFINE m == Len(literals)
           step == [i \in 1 .. m |-> [s \in States |-> AfterLiteral(s, literals[i])]]
<1>1. m \in Nat /\ \A i \in 1 .. m : literals[i] \in Literals
  OBVIOUS
<1>2. AllAccepted(0) \in States
  BY DEF AllAccepted, States
<1>3. step \in Steps(m, States)
  BY <1>1, AfterLiteralType DEF Steps
<1>4. PICK g \in [0 .. m -> States] : Follows(g, AllAccepted(0), step, m)
  <2> HIDE DEF step, m
  <2> QED BY <1>1, <1>2, <1>3, Recursion
<1>5. \A i \in 1 .. m : g[i] = AfterLiteral(g[i - 1], literals[i])
  <2>1. \A i \in 1 .. m : i - 1 \in 0 .. m
    BY <1>1
  <2>2. \A i \in 1 .. m : g[i - 1] \in States
    BY <1>4, <2>1
  <2> QED BY <1>4, <2>2 DEF Follows
<1>6. IsAnswering(g, literals)
  <2>1. \A i \in 0 .. m : g[i] = IF i = 0 THEN AllAccepted(0) ELSE AfterLiteral(g[i - 1], literals[i])
    BY <1>1, <1>4, <1>5 DEF Follows
  <2>2. g = [i \in 0 .. m |-> g[i]]
    BY <1>4
  <2> QED BY <2>1, <2>2 DEF IsAnswering
<1> DEFINE f == Answering(literals)
<1>7. IsAnswering(f, literals)
  BY <1>6 DEF Answering
<1>8. f = [i \in 0 .. m |-> IF i = 0 THEN AllAccepted(0) ELSE AfterLiteral(f[i - 1], literals[i])]
  BY <1>7 DEF IsAnswering
<1>9. Answers(literals, lastLine)
        = f[m].answers \o IF f[m].waiting THEN <<>> ELSE Dispatched(~f[m].begun /\ lastLine = "blank")
  BY DEF Answers, Answering, IsAnswering, AllAccepted
<1> HIDE DEF f, m
<1>10. \A i \in 0 .. m : f[i] = IF i = 0 THEN AllAccepted(0) ELSE AfterLiteral(f[i - 1], literals[i])
  BY <1>8
<1>11. f[0] = AllAccepted(0) /\ \A i \in 1 .. m : f[i] = AfterLiteral(f[i - 1], literals[i])
  BY <1>1, <1>10
<1> QED BY <1>9, <1>11 DEF f, m

\* Every command is answered once, whatever its literals (read_command).
LEMMA CommandsAreAnsweredOnce ==
    ASSUME NEW literals \in Seq(Literals), NEW lastLine \in {"blank", "words"}
    PROVE  EachCommandIsAnsweredOnce(literals, lastLine)
<1> DEFINE m == Len(literals)
           f == Answering(literals)
           whole == \A i \in 1 .. m : literals[i].size = "fits"
           answers == Answers(literals, lastLine)
<1> SUFFICES ASSUME \A i \in 1 .. m - 1 : literals[i].size = "fits",
                    m > 0 => literals[m].size # "unseen" \/ literals[m].sync,
                    m < MaxLiterals \/ (m = MaxLiterals /\ lastLine = "blank"),
                    ~whole => literals[m].sync \/ lastLine = "blank"
             PROVE  answers = IF whole /\ m < MaxLiterals THEN <<"run">> ELSE Refusal
  <2>1. DOMAIN literals = 1 .. Len(literals)
    OBVIOUS
  <2> QED BY <2>1 DEF EachCommandIsAnsweredOnce
<1>1. /\ m \in Nat /\ MaxLiterals \in Nat \ {0} /\ \A i \in 1 .. m : literals[i] \in Literals
  BY LimitsAssumption
<1>2. /\ answers = f[m].answers
                     \o IF f[m].waiting THEN <<>> ELSE Dispatched(~f[m].begun /\ lastLine = "blank")
      /\ f[0] = AllAccepted(0)
      /\ \A i \in 1 .. m : f[i] = AfterLiteral(f[i - 1], literals[i])
  BY AnsweringFacts
<1>3. m = 0 \/ m - 1 \in Nat
  BY <1>1
<1> HIDE DEF f, m, answers
<1>4. ASSUME NEW i \in Nat, i <= m, i < MaxLiterals, \A j \in 1 .. i : literals[j].size = "fits"
      PROVE  f[i] = AllAccepted(i)
  <2> DEFINE Q == {k \in Nat : k <= i => f[k] = AllAccepted(k)}
  <2>1. 0 \in Q
    BY <1>2
  <2>2. ASSUME NEW k \in Nat, k \in Q PROVE k + 1 \in Q
    <3> SUFFICES ASSUME k + 1 <= i PROVE f[k + 1] = AllAccepted(k + 1)
      OBVIOUS
    <3>1. k + 1 \in 1 .. m /\ k + 1 \in 1 .. i /\ k + 1 < MaxLiterals /\ (k + 1) - 1 = k
      BY <1>1, <1>4
    <3>2. f[k + 1] = AfterLiteral(AllAccepted(k), literals[k + 1])
      BY <1>2, <2>2, <3>1
    <3>3. literals[k + 1].size = "fits"
      BY <1>4, <3>1
    <3> QED BY <3>1, <3>2, <3>3 DEF AfterLiteral, AllAccepted
  <2>3. i \in Q
    <3> HIDE DEF Q
    <3> QED BY <2>1, <2>2, NatInductionOnSet
  <2> QED BY <2>3
<1>5. Refusal \in Seq({"BAD"}) /\ Refusal \o <<>> = Refusal /\ <<>> \o Refusal = Refusal
  BY DEF Refusal
<1>6. CASE whole /\ m < MaxLiterals
  <2>1. f[m] = AllAccepted(m)
    BY <1>1, <1>4, <1>6
  <2>2. answers = <<>> \o <<"run">>
    BY <1>2, <2>1 DEF AllAccepted, Dispatched
  <2> QED BY <1>6, <2>2
<1>7. ASSUME ~(whole /\ m < MaxLiterals) PROVE m > 0 /\ f[m - 1] = AllAccepted(m - 1)
  <2>1. m > 0
    <3>1. m = 0 => whole
      OBVIOUS
    <3> QED BY <1>1, <1>7, <3>1
  <2>2. m - 1 \in Nat /\ m - 1 <= m /\ m - 1 < MaxLiterals
    BY <1>1, <2>1
  <2> QED BY <1>4, <2>1, <2>2
<1>8. ASSUME ~(whole /\ m < MaxLiterals) PROVE f[m] = AfterLiteral(AllAccepted(m - 1), literals[m])
  <2>1. m \in 1 .. m
    BY <1>1, <1>7, <1>8
  <2> QED BY <1>2, <1>7, <1>8, <2>1
<1>9. CASE whole /\ ~(m < MaxLiterals)
  <2>1. m \in 1 .. m /\ m = MaxLiterals /\ lastLine = "blank" /\ (m - 1) + 1 = m
    BY <1>1, <1>7, <1>9
  <2>2. literals[m].size = "fits"
    BY <1>9, <2>1
  <2>3. f[m].answers = <<>> \o Refusal /\ ~f[m].waiting /\ f[m].begun = FALSE
    BY <1>1, <1>8, <1>9, <2>1, <2>2 DEF AfterLiteral, AllAccepted
  <2>4. answers = (<<>> \o Refusal) \o <<>>
    BY <1>2, <2>1, <2>3 DEF Dispatched
  <2> QED BY <1>5, <1>9, <2>4
<1>10. CASE ~whole
  <2>1. m \in 1 .. m
    BY <1>1, <1>7, <1>10
  <2>2. literals[m].size # "fits"
    <3>1. \A i \in 1 .. m : i \in 1 .. m - 1 \/ i = m
      BY <1>1
    <3> QED BY <1>10, <3>1
  <2>3. f[m] = [accepted |-> 0, begun |-> ~Drained(literals[m]), answers |-> <<>> \o Refusal,
                waiting |-> literals[m].sync]
    BY <1>8, <1>10, <2>2 DEF AfterLiteral, AllAccepted
  <2>4. literals[m] \in Literals
    BY <1>1, <2>1
  <2>7. /\ f[m].answers = <<>> \o Refusal /\ f[m].begun = ~Drained(literals[m])
        /\ f[m].waiting = literals[m].sync
    BY <2>3
  <2>5. CASE literals[m].sync
    <3>1. answers = (<<>> \o Refusal) \o <<>>
      BY <1>2, <2>5, <2>7
    <3> QED BY <1>5, <1>10, <3>1
  <2>6. CASE ~literals[m].sync
    <3>1. literals[m].size # "unseen" /\ lastLine = "blank"
      BY <1>7, <1>10, <2>6
    <3>2. Drained(literals[m])
      BY <2>2, <2>4, <2>6, <3>1 DEF Drained, Literals
    <3>3. answers = (<<>> \o Refusal) \o <<>>
      BY <1>2, <2>6, <2>7, <3>1, <3>2 DEF Dispatched
    <3> QED BY <1>5, <1>10, <3>3
  <2> QED BY <2>5, <2>6
<1> QED BY <1>6, <1>9, <1>10 DEF answers

----------------------------------------------------------------------------
(* NumberSet, Fetched: the rows a set of numbers designates *)

\* The UIDs of the rows of a mailbox, in its order (ORDER BY uid).
IsMailbox(box) ==
    box \in Seq(Nat \ {0}) /\ \A i, j \in 1 .. Len(box) : i < j => box[i] < box[j]

\* Fewer than n numbers are all the numbers there were.
LEMMA SmallestAreAll ==
    ASSUME NEW m \in Nat, NEW S, S \subseteq 0 .. m, NEW n \in Nat,
           Cardinality(Smallest(S, n)) < n
    PROVE  Smallest(S, n) = S
<1> DEFINE few == Smallest(S, n)
           R == S \ few
           below(x) == {y \in S : y < x}
<1>1. few = {x \in S : Cardinality(below(x)) < n}
  BY DEF Smallest
<1>2. few \subseteq S
  BY <1>1
<1>3. IsFiniteSet(S) /\ IsFiniteSet(few)
  <2>1. IsFiniteSet(0 .. m)
    BY FS_Interval
  <2>2. IsFiniteSet(S)
    BY <2>1, FS_Subset
  <2> HIDE DEF few
  <2> QED BY <1>2, <2>2, FS_Subset
<1> SUFFICES ASSUME R # {} PROVE FALSE
  BY <1>2
<1> HIDE DEF few
<1> DEFINE x == Min(R)
<1>4. x \in R /\ \A y \in R : x <= y
  BY MinFacts
<1> HIDE DEF x
<1>5. \A y \in S : y \in Int
  OBVIOUS
<1>6. below(x) \subseteq few
  <2> SUFFICES ASSUME NEW y \in S, y < x PROVE y \in few
    OBVIOUS
  <2>1. x \in Int /\ y \in Int /\ ~(x <= y)
    BY <1>4, <1>5
  <2>2. y \notin R
    BY <1>4, <2>1
  <2> QED BY <2>2
<1>7. Cardinality(below(x)) <= Cardinality(few) /\ Cardinality(below(x)) \in Nat
      /\ Cardinality(few) \in Nat
  <2> HIDE DEF below
  <2>1. IsFiniteSet(below(x)) /\ Cardinality(below(x)) <= Cardinality(few)
    BY <1>3, <1>6, FS_Subset
  <2> QED BY <1>3, <2>1, FS_CardinalityType
<1>8. Cardinality(below(x)) < n
  <2> HIDE DEF below
  <2> QED BY <1>7 DEF few
<1> QED BY <1>1, <1>4, <1>8

Numbering(max) == [all : SUBSET (1 .. max), pushed : Nat]

LEMMA NumbersOfType == ASSUME NEW part, NEW max PROVE NumbersOf(part, max) \subseteq 1 .. max
  BY DEF NumbersOf

\* A part adds its numbers, unless the bound is reached.
LEMMA AddPartFacts ==
    ASSUME NEW max \in Nat, NEW part \in Parts, NEW s \in Numbering(max)
    PROVE  LET t == AddPart(s, part, max)
           IN  /\ t \in Numbering(max) /\ s.pushed <= t.pushed
               /\ t.pushed < MaxExpansion => t.all = s.all \cup NumbersOf(part, max)
<1> DEFINE N == NumbersOf(part, max)
           few == Smallest(N, MaxExpansion - s.pushed)
           new == IF part.range THEN few ELSE N
           t == AddPart(s, part, max)
<1>1. N \subseteq 1 .. max /\ few \subseteq N
  BY NumbersOfType DEF Smallest
<1>2. s.pushed \in Nat /\ s.all \subseteq 1 .. max
  BY DEF Numbering
<1>3. t = [all |-> s.all \cup new, pushed |-> s.pushed + Cardinality(new)]
  BY DEF AddPart
<1> HIDE DEF t, few, N
<1>4. new \subseteq 1 .. max
  BY <1>1
<1>5. Cardinality(new) \in Nat
  <2>1. IsFiniteSet(1 .. max)
    BY FS_Interval
  <2> HIDE DEF new
  <2>2. IsFiniteSet(new)
    BY <1>4, <2>1, FS_Subset
  <2> QED BY <2>2, FS_CardinalityType
<1>6. t.pushed = s.pushed + Cardinality(new) /\ t.all = s.all \cup new
  BY <1>3
<1>7. ASSUME t.pushed < MaxExpansion PROVE new = N
  <2> SUFFICES ASSUME part.range PROVE few = N
    OBVIOUS
  <2>1. new = few
    OBVIOUS
  <2> DEFINE n == MaxExpansion - s.pushed
  <2>2. n \in Nat /\ Cardinality(few) < n
    <3>1. MaxExpansion \in Nat
      BY LimitsAssumption
    <3> HIDE DEF new
    <3> QED BY <1>2, <1>5, <1>6, <1>7, <2>1, <3>1
  <2>3. N \subseteq 0 .. max
    BY <1>1
  <2> HIDE DEF n, new
  <2>4. few = Smallest(N, n)
    BY DEF few, n
  <2> QED BY <2>2, <2>3, <2>4, SmallestAreAll
<1> HIDE DEF new
<1>8. t \in Numbering(max)
  <2>1. s.all \cup new \in SUBSET (1 .. max)
    BY <1>2, <1>4
  <2>2. s.pushed + Cardinality(new) \in Nat
    BY <1>2, <1>5
  <2> QED BY <1>3, <2>1, <2>2 DEF Numbering
<1>9. s.pushed <= t.pushed
  BY <1>2, <1>5, <1>6
<1> QED BY <1>6, <1>7, <1>8, <1>9 DEF t, N

NoNumbers == [all |-> {}, pushed |-> 0]

IsNumbering(f, parts, max) ==
    f = [i \in 0 .. Len(parts) |-> IF i = 0 THEN NoNumbers ELSE AddPart(f[i - 1], parts[i], max)]

LEMMA NumberSetReads ==
    ASSUME NEW parts \in Seq(Parts), NEW max \in Nat
    PROVE  \E f \in [0 .. Len(parts) -> Numbering(max)] :
                /\ NumberSet(parts, max) = f[Len(parts)]
                /\ f[0] = NoNumbers
                /\ \A i \in 1 .. Len(parts) : f[i] = AddPart(f[i - 1], parts[i], max)
<1> DEFINE m == Len(parts)
           V == Numbering(max)
           step == [i \in 1 .. m |-> [s \in V |-> AddPart(s, parts[i], max)]]
<1>1. m \in Nat /\ \A i \in 1 .. m : parts[i] \in Parts
  OBVIOUS
<1>2. NoNumbers \in V
  BY DEF NoNumbers, Numbering
<1> HIDE DEF V
<1>3. step \in Steps(m, V)
  <2>1. \A i \in 1 .. m, s \in V : AddPart(s, parts[i], max) \in V
    BY <1>1, AddPartFacts DEF V
  <2> QED BY <2>1 DEF Steps
<1>4. PICK g \in [0 .. m -> V] : Follows(g, NoNumbers, step, m)
  <2> HIDE DEF step, m
  <2> QED BY <1>1, <1>2, <1>3, Recursion
<1>5. \A i \in 1 .. m : g[i] = AddPart(g[i - 1], parts[i], max)
  <2>1. \A i \in 1 .. m : i - 1 \in 0 .. m
    BY <1>1
  <2>2. \A i \in 1 .. m : g[i - 1] \in V
    BY <1>4, <2>1
  <2> QED BY <1>4, <2>2 DEF Follows
<1>6. IsNumbering(g, parts, max)
  <2>1. \A i \in 0 .. m : g[i] = IF i = 0 THEN NoNumbers ELSE AddPart(g[i - 1], parts[i], max)
    BY <1>1, <1>4, <1>5 DEF Follows
  <2>2. g = [i \in 0 .. m |-> g[i]]
    BY <1>4
  <2> QED BY <2>1, <2>2 DEF IsNumbering
<1> DEFINE f == CHOOSE h : IsNumbering(h, parts, max)
<1>7. IsNumbering(f, parts, max)
  BY <1>6
<1>8. NumberSet(parts, max) = f[m]
  BY DEF NumberSet, IsNumbering, NoNumbers
<1> HIDE DEF f, m
<1>9. f = [i \in 0 .. m |-> IF i = 0 THEN NoNumbers ELSE AddPart(f[i - 1], parts[i], max)]
  BY <1>7 DEF IsNumbering, m
<1>10. \A i \in 0 .. m : f[i] = IF i = 0 THEN NoNumbers ELSE AddPart(f[i - 1], parts[i], max)
  BY <1>9
<1>11. f[0] = NoNumbers /\ \A i \in 1 .. m : f[i] = AddPart(f[i - 1], parts[i], max)
  BY <1>1, <1>10
<1>12. ASSUME NEW k \in Nat, k <= m PROVE f[k] \in V
  <2> DEFINE Q == {i \in Nat : i <= m => f[i] \in V}
  <2>1. 0 \in Q
    BY <1>2, <1>11
  <2>2. ASSUME NEW i \in Nat, i \in Q PROVE i + 1 \in Q
    <3> SUFFICES ASSUME i + 1 <= m PROVE f[i + 1] \in V
      OBVIOUS
    <3>1. i + 1 \in 1 .. m /\ (i + 1) - 1 = i /\ i <= m
      BY <1>1
    <3>2. f[i] \in V /\ parts[i + 1] \in Parts
      BY <1>1, <2>2, <3>1
    <3>3. f[i + 1] = AddPart(f[i], parts[i + 1], max)
      BY <1>11, <3>1
    <3> QED BY <3>2, <3>3, AddPartFacts DEF V
  <2>3. Nat \subseteq Q
    <3> HIDE DEF Q
    <3> QED BY <2>1, <2>2, NatInductionOnSet
  <2> QED BY <1>12, <2>3
<1>13. f \in [0 .. m -> V]
  <2>1. \A k \in 0 .. m : k \in Nat /\ k <= m
    BY <1>1
  <2>2. \A k \in 0 .. m : f[k] \in V
    BY <1>12, <2>1
  <2> QED BY <1>9, <2>2
<1> QED BY <1>8, <1>11, <1>13 DEF m, V

\* Below the bound, a set has the numbers of each of its parts.
LEMMA NumberSetFacts ==
    ASSUME NEW parts \in Seq(Parts), NEW max \in Nat, NumberSet(parts, max).pushed < MaxExpansion
    PROVE  \A x : x \in NumberSet(parts, max).all
                    <=> \E i \in 1 .. Len(parts) : x \in NumbersOf(parts[i], max)
<1> DEFINE m == Len(parts)
<1>1. PICK f \in [0 .. m -> Numbering(max)] :
            /\ NumberSet(parts, max) = f[m] /\ f[0] = NoNumbers
            /\ \A i \in 1 .. m : f[i] = AddPart(f[i - 1], parts[i], max)
  BY NumberSetReads
<1>2. m \in Nat /\ \A i \in 1 .. m : parts[i] \in Parts
  OBVIOUS
<1>3. MaxExpansion \in Nat
  BY LimitsAssumption
<1> HIDE DEF m
<1> DEFINE Has(k) == \A x : x \in f[k].all <=> \E i \in 1 .. k : x \in NumbersOf(parts[i], max)
           Q == {k \in Nat : k <= m => (f[k].pushed < MaxExpansion => Has(k))}
<1>4. 0 \in Q
  BY <1>1 DEF NoNumbers
<1>5. ASSUME NEW k \in Nat, k \in Q PROVE k + 1 \in Q
  <2> SUFFICES ASSUME k + 1 <= m, f[k + 1].pushed < MaxExpansion PROVE Has(k + 1)
    OBVIOUS
  <2>1. k + 1 \in 1 .. m /\ (k + 1) - 1 = k /\ k <= m /\ k \in 0 .. m /\ k + 1 \in 0 .. m
    BY <1>2
  <2>2. f[k] \in Numbering(max) /\ parts[k + 1] \in Parts /\ f[k + 1] \in Numbering(max)
    BY <1>1, <1>2, <2>1
  <2>3. f[k + 1] = AddPart(f[k], parts[k + 1], max)
    BY <1>1, <2>1
  <2>4. f[k].pushed <= f[k + 1].pushed /\ f[k + 1].all = f[k].all \cup NumbersOf(parts[k + 1], max)
    BY <2>2, <2>3, AddPartFacts
  <2>5. f[k].pushed < MaxExpansion
    BY <1>3, <2>2, <2>4 DEF Numbering
  <2>6. Has(k)
    BY <1>5, <2>1, <2>5
  <2>7. \A i \in 1 .. k + 1 : i \in 1 .. k \/ i = k + 1
    OBVIOUS
  <2>8. \A i \in 1 .. k : i \in 1 .. k + 1
    OBVIOUS
  <2> QED BY <2>1, <2>4, <2>6, <2>7, <2>8
<1>6. Nat \subseteq Q
  <2> HIDE DEF Q
  <2> QED BY <1>4, <1>5, NatInductionOnSet
<1>7. Has(m)
  <2>1. m \in Q /\ m <= m
    <3> HIDE DEF Q
    <3> QED BY <1>2, <1>6
  <2>2. f[m].pushed < MaxExpansion
    BY <1>1
  <2> HIDE DEF Has
  <2> QED BY <2>1, <2>2
<1> QED BY <1>1, <1>7 DEF m

\* A row by its UID, or by its place.
NumberOf(box, isUid, i) == IF isUid THEN box[i] ELSE i

\* "*" is the number of the last row.
LEMMA HighestFacts ==
    ASSUME NEW box, IsMailbox(box), NEW isUid \in BOOLEAN
    PROVE  /\ Highest(box, isUid) \in Nat
           /\ \A i \in 1 .. Len(box) :
                /\ NumberOf(box, isUid, i) \in 1 .. Highest(box, isUid)
                /\ NumberOf(box, isUid, Len(box)) = Highest(box, isUid)
<1> DEFINE m == Len(box)
           A == {box[i] : i \in 1 .. m} \cup {0}
           top == IF m = 0 THEN 0 ELSE box[m]
<1>1. /\ m \in Nat /\ DOMAIN box = 1 .. m /\ \A i \in 1 .. m : box[i] \in Nat \ {0}
      /\ \A i, j \in 1 .. m : i < j => box[i] < box[j]
  BY DEF IsMailbox
<1>2. Highest(box, isUid) = IF isUid THEN Max(A) ELSE m
  BY <1>1 DEF Highest
<1> HIDE DEF m
<1>3. m # 0 => m \in 1 .. m
  BY <1>1
<1>4. top \in Nat /\ top \in A
  BY <1>1, <1>3
<1>5. \A i \in 1 .. m : box[i] <= top
  <2> SUFFICES ASSUME NEW i \in 1 .. m PROVE box[i] <= box[m]
    BY <1>1
  <2>1. i < m \/ i = m
    BY <1>1
  <2>2. box[i] \in Nat /\ box[m] \in Nat /\ m \in 1 .. m
    BY <1>1
  <2> QED BY <1>1, <2>1, <2>2
<1>6. A \subseteq 0 .. top
  BY <1>1, <1>4, <1>5
<1>7. Max(A) = top
  <2>1. \A y \in A : y <= top /\ y \in Nat
    BY <1>1, <1>4, <1>5
  <2> HIDE DEF A, top
  <2>2. Max(A) \in A /\ \A y \in A : Max(A) >= y
    BY <1>4, <1>6, MaxFacts
  <2>3. Max(A) <= top /\ Max(A) >= top /\ Max(A) \in Nat
    BY <1>4, <2>1, <2>2
  <2> QED BY <1>4, <2>3
<1> HIDE DEF A
<1>8. CASE isUid
  <2>1. \A i \in 1 .. m : top = box[m] /\ box[i] \in 1 .. top
    BY <1>1, <1>4, <1>5
  <2> QED BY <1>2, <1>4, <1>7, <1>8, <2>1 DEF NumberOf, m
<1>9. CASE ~isUid
  BY <1>1, <1>2, <1>9 DEF NumberOf, m
<1> QED BY <1>8, <1>9

\* The bounds of a range may come in any order.
LEMMA InBetween ==
    ASSUME NEW a \in Nat, NEW b \in Nat, NEW x \in Nat
    PROVE  x \in Min({a, b}) .. Max({a, b}) <=> (a <= x /\ x <= b) \/ (b <= x /\ x <= a)
<1> DEFINE E == {a, b}
           m == a + b
<1>1. m \in Nat /\ E \subseteq 0 .. m /\ E # {}
  OBVIOUS
<1> HIDE DEF E, m
<1>2. Max(E) \in E /\ \A y \in E : Max(E) >= y
  BY <1>1, MaxFacts
<1>3. Min(E) \in E /\ \A y \in E : Min(E) <= y
  BY <1>1, MinFacts
<1> DEFINE low == Min(E)
           high == Max(E)
<1> HIDE DEF low, high
<1>4. /\ low \in {a, b} /\ high \in {a, b}
      /\ low <= a /\ low <= b /\ high >= a /\ high >= b
  BY <1>2, <1>3 DEF E, low, high
<1>5. x \in low .. high <=> (a <= x /\ x <= b) \/ (b <= x /\ x <= a)
  BY <1>4
<1> QED BY <1>5 DEF E, low, high

\* A part has the numbers it designates.
LEMMA PartFacts ==
    ASSUME NEW p \in Parts, NEW max \in Nat, NEW n \in 1 .. max,
           p.range => p.from > 0 /\ p.to # Garbled
    PROVE  LET bound(e) == IF e = Star THEN max ELSE e
           IN  n \in NumbersOf(p, max) <=> \/ bound(p.from) <= n /\ n <= bound(p.to)
                                           \/ bound(p.to) <= n /\ n <= bound(p.from)
<1> DEFINE bound(e) == IF e = Star THEN max ELSE e
<1>1. n \in Nat /\ n >= 1 /\ n <= max
  OBVIOUS
<1>2. p.from \in Ends /\ p.to \in Ends /\ p.range \in BOOLEAN
      /\ (~p.range => p.from = p.to)
  BY DEF Parts
<1>3. CASE p.range
  <2>1. p.from \in Nat /\ p.from > 0 /\ p.to \in Nat \cup {Star}
    BY <1>2, <1>3 DEF Ends, Star, Garbled
  <2>2. LowEnd(p) = bound(p.from) /\ LowEnd(p) \in Nat
    BY <2>1 DEF LowEnd, Star
  <2>3. HighEnd(p, max) = bound(p.to) /\ HighEnd(p, max) \in Nat
    BY <2>1 DEF HighEnd, Star
  <2>4. n \in Between(p, max) <=> \/ LowEnd(p) <= n /\ n <= HighEnd(p, max)
                                  \/ HighEnd(p, max) <= n /\ n <= LowEnd(p)
    BY <1>1, <2>2, <2>3, InBetween DEF Between
  <2>5. NumbersOf(p, max) = Between(p, max) \cap 1 .. max
    BY <1>3 DEF NumbersOf
  <2> HIDE DEF bound
  <2>6. n \in NumbersOf(p, max) <=> n \in Between(p, max)
    BY <2>5
  <2>7. n \in NumbersOf(p, max) <=> \/ bound(p.from) <= n /\ n <= bound(p.to)
                                    \/ bound(p.to) <= n /\ n <= bound(p.from)
    BY <2>2, <2>3, <2>4, <2>6
  <2> QED BY <2>7 DEF bound
<1>4. CASE ~p.range
  <2>1. p.from = p.to /\ p.from \in Nat \cup {-1, -2}
    BY <1>2, <1>4 DEF Ends, Star, Garbled
  <2>2. CASE p.from = Star
    <3>1. NumbersOf(p, max) = {max} \cap 1 .. max
      BY <1>4, <2>2 DEF NumbersOf
    <3> QED BY <1>1, <2>1, <2>2, <3>1
  <2>3. CASE p.from # Star
    <3>1. NumbersOf(p, max) = {p.from} \cap 1 .. max
      BY <1>4, <2>3 DEF NumbersOf
    <3>2. p.from \in Int
      BY <2>1
    <3> QED BY <1>1, <2>1, <2>3, <3>1, <3>2
  <2> QED BY <2>2, <2>3
<1> QED BY <1>2, <1>3, <1>4

\* A FETCH answers the rows its set designates, in any mailbox (cmd_fetch,
\* parse_number_set).
THEOREM FetchesAnswerTheDesignated ==
    ASSUME NEW box, IsMailbox(box), NEW parts \in Seq(Parts), NEW isUid \in BOOLEAN,
           NEW readable
    PROVE  FetchAnswersTheDesignated(box, parts, isUid, readable)
<1> DEFINE max == Highest(box, isUid)
           m == Len(box)
           number(i) == NumberOf(box, isUid, i)
           bound(n) == IF n = Star THEN number(m) ELSE n
           inside(p, n) == \/ bound(p.from) <= n /\ n <= bound(p.to)
                           \/ bound(p.to) <= n /\ n <= bound(p.from)
           numbers == NumberSet(parts, max).all
<1>1. DOMAIN box = 1 .. m /\ ToSet(parts) = {parts[i] : i \in 1 .. Len(parts)}
  BY DEF IsMailbox, ToSet
<1>2. Designated(box, parts, isUid) = {i \in 1 .. m : \E p \in ToSet(parts) : inside(p, number(i))}
  BY <1>1 DEF Designated, NumberOf
<1>3. Fetched(box, parts, isUid, readable) = InOrder({i \in 1 .. m : number(i) \in numbers} \cap readable)
  BY <1>1 DEF Fetched, NumberOf
<1> SUFFICES ASSUME \A p \in ToSet(parts) : p.range => p.from > 0 /\ p.to # Garbled,
                    NumberSet(parts, max).pushed < MaxExpansion
             PROVE  {i \in 1 .. m : number(i) \in numbers} = Designated(box, parts, isUid)
  BY <1>3 DEF FetchAnswersTheDesignated
<1>4. max \in Nat /\ \A i \in 1 .. m : number(i) \in 1 .. max /\ number(m) = max
  BY HighestFacts
<1>5. \A x : x \in numbers <=> \E i \in 1 .. Len(parts) : x \in NumbersOf(parts[i], max)
  BY <1>4, NumberSetFacts
<1>6. \A i \in 1 .. Len(parts) : parts[i] \in Parts /\ parts[i] \in ToSet(parts)
  BY <1>1
<1>7. \A x : x \in numbers <=> \E p \in ToSet(parts) : x \in NumbersOf(p, max)
  BY <1>1, <1>5
<1>8. ASSUME NEW i \in 1 .. m, NEW p \in ToSet(parts)
      PROVE  number(i) \in NumbersOf(p, max) <=> inside(p, number(i))
  <2>1. p \in Parts /\ (p.range => p.from > 0 /\ p.to # Garbled)
    BY <1>1, <1>6
  <2>2. \A e : bound(e) = IF e = Star THEN max ELSE e
    BY <1>4
  <2> HIDE DEF max, number
  <2> QED BY <1>4, <2>1, <2>2, PartFacts
<1>9. ASSUME NEW i \in 1 .. m
      PROVE  number(i) \in numbers <=> \E p \in ToSet(parts) : inside(p, number(i))
  <2> HIDE DEF number, numbers, inside, max
  <2> QED BY <1>7, <1>8
<1> HIDE DEF number, numbers, inside, m
<1> QED BY <1>2, <1>9

----------------------------------------------------------------------------
(* Tokens, Assembled: the arguments a client sends as literals *)

LEMMA QuoteIs == Quote # Space /\ Backslash # Space /\ Quote # Backslash
  BY DEF Space, Quote, Backslash

ScanStart == [done |-> <<>>, in |-> "gap"]

IsScanning(f, text) ==
    f = [i \in 0 .. Len(text) |-> IF i = 0 THEN ScanStart ELSE NextChar(f[i - 1], text[i])]

Scanning(text) == CHOOSE f : IsScanning(f, text)

\* Where tokenize_args is after a text.
Lexed(text) == Scanning(text)[Len(text)]

Scans(S) == [done : Seq(Seq(S)), in : {"gap", "word", "quotes"}]

\* A token that is being read is the last one.
Scanned(S) == {s \in Scans(S) : s.in # "gap" => Len(s.done) > 0}

LEMMA NextCharType ==
    ASSUME NEW S, NEW s \in Scanned(S), NEW c \in S
    PROVE  NextChar(s, c) \in Scanned(S)
<1> DEFINE d == s.done
           n == Len(d)
           T == Seq(S)
           open == Append(d, <<>>)
           word == Append(d, <<c>>)
           more == [d EXCEPT ![n] = Append(d[n], c)]
<1>1. /\ d \in Seq(T) /\ n \in Nat /\ s.in \in {"gap", "word", "quotes"}
      /\ s.in # "gap" => n > 0
  BY DEF Scanned, Scans
<1>2. <<>> \in T /\ <<c>> \in T
  OBVIOUS
<1>3. \A i \in 1 .. n : d[i] \in T
  BY <1>1
<1>4. n > 0 => Append(d[n], c) \in T
  <2>1. n > 0 => d[n] \in T
    BY <1>1, <1>3
  <2> QED BY <2>1
<1> HIDE DEF T
<1>5. open \in Seq(T) /\ Len(open) = n + 1 /\ word \in Seq(T) /\ Len(word) = n + 1
  <2> HIDE DEF d
  <2> QED BY <1>1, <1>2
<1>6. n > 0 => more \in Seq(T) /\ Len(more) = n
  <2> DEFINE e == Append(d[n], c)
  <2> HIDE DEF d, e
  <2> QED BY <1>1, <1>4 DEF e
<1>7. NextChar(s, c) \in {[done |-> open, in |-> "quotes"], [done |-> word, in |-> "word"],
                          [done |-> d, in |-> "gap"]}
      \/ (n > 0 /\ NextChar(s, c) = [done |-> more, in |-> s.in])
  <2>1. CASE s.in = "gap"
    BY <2>1 DEF NextChar
  <2>2. CASE (s.in = "word" /\ c = Space) \/ (s.in = "quotes" /\ c = Quote)
    <3>1. NextChar(s, c) = [done |-> d, in |-> "gap"]
      <4> HIDE DEF open, word, more
      <4>1. CASE s.in = "word" /\ c = Space
        BY <4>1 DEF NextChar
      <4>2. CASE s.in = "quotes" /\ c = Quote
        BY <4>2 DEF NextChar
      <4> QED BY <2>2, <4>1, <4>2
    <3> QED BY <3>1
  <2>3. CASE s.in # "gap" /\ ~(s.in = "word" /\ c = Space) /\ ~(s.in = "quotes" /\ c = Quote)
    <3>1. NextChar(s, c) = [done |-> more, in |-> s.in]
      BY <2>3 DEF NextChar
    <3> QED BY <1>1, <2>3, <3>1
  <2> QED BY <2>1, <2>2, <2>3
<1> HIDE DEF open, word, more, d, n
<1>8. \A e, w : e \in Seq(T) /\ Len(e) > 0 /\ w \in {"gap", "word", "quotes"}
                    => [done |-> e, in |-> w] \in Scanned(S)
  BY DEF Scanned, Scans, T
<1>9. [done |-> d, in |-> "gap"] \in Scanned(S)
  BY <1>1 DEF Scanned, Scans, T
<1> QED BY <1>1, <1>5, <1>6, <1>7, <1>8, <1>9

LEMMA ScanningFacts ==
    ASSUME NEW S, NEW text \in Seq(S)
    PROVE  /\ Tokens(text) = Lexed(text).done
           /\ Scanning(text)[0] = ScanStart
           /\ \A i \in 1 .. Len(text) : Scanning(text)[i] = NextChar(Scanning(text)[i - 1], text[i])
           /\ \A i \in 0 .. Len(text) : Scanning(text)[i] \in Scanned(S)
<1> DEFINE m == Len(text)
           V == Scanned(S)
           step == [i \in 1 .. m |-> [s \in V |-> NextChar(s, text[i])]]
           f == Scanning(text)
<1>1. m \in Nat /\ \A i \in 1 .. m : text[i] \in S
  OBVIOUS
<1>2. ScanStart \in V
  BY DEF ScanStart, Scanned, Scans
<1> HIDE DEF V
<1>3. step \in Steps(m, V)
  <2>1. \A i \in 1 .. m, s \in V : NextChar(s, text[i]) \in V
    BY <1>1, NextCharType DEF V
  <2> QED BY <2>1 DEF Steps
<1>4. PICK g \in [0 .. m -> V] : Follows(g, ScanStart, step, m)
  <2> HIDE DEF step, m
  <2> QED BY <1>1, <1>2, <1>3, Recursion
<1>5. \A i \in 1 .. m : g[i] = NextChar(g[i - 1], text[i])
  <2>1. \A i \in 1 .. m : i - 1 \in 0 .. m
    BY <1>1
  <2>2. \A i \in 1 .. m : g[i - 1] \in V
    BY <1>4, <2>1
  <2> QED BY <1>4, <2>2 DEF Follows
<1>6. IsScanning(g, text)
  <2>1. \A i \in 0 .. m : g[i] = IF i = 0 THEN ScanStart ELSE NextChar(g[i - 1], text[i])
    BY <1>1, <1>4, <1>5 DEF Follows
  <2>2. g = [i \in 0 .. m |-> g[i]]
    BY <1>4
  <2> QED BY <2>1, <2>2 DEF IsScanning
<1>7. IsScanning(f, text)
  BY <1>6 DEF Scanning
<1>8. Tokens(text) = Lexed(text).done
  BY DEF Tokens, Lexed, Scanning, IsScanning, ScanStart
<1> HIDE DEF f, m
<1>9. f = [i \in 0 .. m |-> IF i = 0 THEN ScanStart ELSE NextChar(f[i - 1], text[i])]
  BY <1>7 DEF IsScanning, m
<1>10. \A i \in 0 .. m : f[i] = IF i = 0 THEN ScanStart ELSE NextChar(f[i - 1], text[i])
  BY <1>9
<1>11. f[0] = ScanStart /\ \A i \in 1 .. m : f[i] = NextChar(f[i - 1], text[i])
  BY <1>1, <1>10
<1> DEFINE Q == {i \in Nat : i <= m => f[i] \in V}
<1>12. 0 \in Q
  BY <1>2, <1>11
<1>13. ASSUME NEW i \in Nat, i \in Q PROVE i + 1 \in Q
  <2> SUFFICES ASSUME i + 1 <= m PROVE f[i + 1] \in V
    OBVIOUS
  <2>1. i + 1 \in 1 .. m /\ (i + 1) - 1 = i /\ i <= m
    BY <1>1
  <2>2. f[i] \in V /\ text[i + 1] \in S /\ f[i + 1] = NextChar(f[i], text[i + 1])
    BY <1>1, <1>11, <1>13, <2>1
  <2> QED BY <2>2, NextCharType DEF V
<1>14. Nat \subseteq Q
  <2> HIDE DEF Q
  <2> QED BY <1>12, <1>13, NatInductionOnSet
<1>15. \A i \in 0 .. m : f[i] \in V
  <2>1. \A i \in 0 .. m : i \in Nat /\ i <= m
    BY <1>1
  <2> QED BY <1>14, <2>1
<1> QED BY <1>8, <1>11, <1>15 DEF f, m, V

LEMMA ScanFacts ==
    ASSUME NEW S, NEW text \in Seq(S)
    PROVE  Tokens(text) = Lexed(text).done /\ Lexed(text) \in Scanned(S)
<1>1. Len(text) \in 0 .. Len(text)
  OBVIOUS
<1> QED BY <1>1, ScanningFacts DEF Lexed

LEMMA ScanNothing == Lexed(<<>>) = ScanStart
<1>1. <<>> \in Seq({}) /\ Len(<<>>) = 0
  OBVIOUS
<1> QED BY <1>1, ScanningFacts DEF Lexed

LEMMA ScanMore ==
    ASSUME NEW S, NEW text \in Seq(S), NEW c \in S
    PROVE  Lexed(With(text, c)) = NextChar(Lexed(text), c)
<1> DEFINE more == With(text, c)
           m == Len(text)
           f == Scanning(text)
           g == Scanning(more)
<1>1. m \in Nat /\ more \in Seq(S) /\ Len(more) = m + 1 /\ more[m + 1] = c
      /\ \A j \in 1 .. m : more[j] = text[j]
  BY AppendFacts DEF With
<1>2. Lexed(text) = f[m] /\ f[0] = ScanStart /\ \A i \in 1 .. m : f[i] = NextChar(f[i - 1], text[i])
  BY ScanningFacts DEF Lexed
<1> HIDE DEF more
<1>3. /\ Lexed(more) = g[m + 1] /\ g[0] = ScanStart
      /\ \A i \in 1 .. m + 1 : g[i] = NextChar(g[i - 1], more[i])
  <2>1. /\ Lexed(more) = g[Len(more)] /\ g[0] = ScanStart
        /\ \A i \in 1 .. Len(more) : g[i] = NextChar(g[i - 1], more[i])
    BY <1>1, ScanningFacts DEF Lexed
  <2> HIDE DEF g
  <2> QED BY <1>1, <2>1
<1> HIDE DEF f, g, m
<1> DEFINE Q == {n \in Nat : n <= m => f[n] = g[n]}
<1>4. 0 \in Q
  BY <1>2, <1>3
<1>5. ASSUME NEW n \in Nat, n \in Q PROVE n + 1 \in Q
  <2>1. ASSUME n + 1 <= m PROVE f[n + 1] = g[n + 1]
    <3>1. n + 1 \in 1 .. m /\ n + 1 \in 1 .. m + 1 /\ (n + 1) - 1 = n /\ n <= m
      BY <1>1, <2>1
    <3>2. f[n] = g[n]
      BY <1>5, <3>1
    <3> QED BY <1>1, <1>2, <1>3, <3>1, <3>2
  <2> QED BY <2>1
<1>6. m \in Q
  <2> HIDE DEF Q
  <2> QED BY <1>1, <1>4, <1>5, NatInductionOnSet
<1>7. f[m] = g[m] /\ m + 1 \in 1 .. m + 1 /\ (m + 1) - 1 = m
  BY <1>1, <1>6
<1>8. g[m + 1] = NextChar(g[m], c)
  BY <1>1, <1>3, <1>7
<1> QED BY <1>2, <1>3, <1>7, <1>8 DEF more

LEMMA TypedSeq ==
    ASSUME NEW R, NEW n \in Nat, NEW t, t = [i \in 1 .. n |-> t[i]], \A i \in 1 .. n : t[i] \in R
    PROVE  t \in Seq(R)
  OBVIOUS

LEMMA SeqOfMore == ASSUME NEW S, NEW R, R \subseteq S PROVE Seq(R) \subseteq Seq(S)
  OBVIOUS

Changed(s, i, x) == [s EXCEPT ![i] = x]

\* The last item is replaced.
LEMMA LastReplaced ==
    ASSUME NEW T, NEW d \in Seq(T), NEW u \in T, NEW v \in T
    PROVE  Changed(With(d, u), Len(d) + 1, v) = With(d, v)
<1> DEFINE n == Len(d)
           e == Append(d, u)
           f == [e EXCEPT ![n + 1] = v]
           g == Append(d, v)
<1>1. n \in Nat /\ e \in Seq(T) /\ Len(e) = n + 1 /\ \A j \in 1 .. n : e[j] = d[j]
  BY AppendFacts
<1>2. g \in Seq(T) /\ Len(g) = n + 1 /\ g[n + 1] = v /\ \A j \in 1 .. n : g[j] = d[j]
  BY AppendFacts
<1> HIDE DEF e, g, n
<1>3. e = [j \in 1 .. n + 1 |-> e[j]] /\ g = [j \in 1 .. n + 1 |-> g[j]] /\ n + 1 \in 1 .. n + 1
  BY <1>1, <1>2
<1>4. f = [j \in 1 .. n + 1 |-> IF j = n + 1 THEN v ELSE e[j]]
  BY <1>3
<1>5. \A j \in 1 .. n + 1 : (IF j = n + 1 THEN v ELSE e[j]) = g[j]
  <2>1. \A j \in 1 .. n + 1 : j \in 1 .. n \/ j = n + 1
    BY <1>1
  <2> QED BY <1>1, <1>2, <2>1
<1>6. f = [j \in 1 .. n + 1 |-> g[j]]
  BY <1>4, <1>5
<1> QED BY <1>3, <1>6 DEF e, g, n, With, Changed

\* A name that keeps the provers from taking a list of tokens apart.
Lists(S) == Seq(Seq(S))

LEMMA QuotedChar ==
    ASSUME NEW S, NEW d \in Lists(S), NEW u \in Seq(S), NEW c \in S, c # Quote
    PROVE  NextChar([done |-> With(d, u), in |-> "quotes"], c)
                = [done |-> With(d, With(u, c)), in |-> "quotes"]
<1> DEFINE T == Seq(S)
           n == Len(d)
           e == With(d, u)
           v == With(u, c)
<1>1. NextChar([done |-> e, in |-> "quotes"], c)
        = [done |-> Changed(e, Len(e), With(e[Len(e)], c)), in |-> "quotes"]
  <2> HIDE DEF e
  <2> QED BY DEF NextChar, Changed, With
<1>2. u \in T /\ v \in T
  BY AppendFacts DEF With
<1>3. d \in Seq(T)
  BY DEF Lists
<1> HIDE DEF T, v
<1>4. Len(e) = n + 1 /\ e[n + 1] = u
  BY <1>2, <1>3, AppendFacts DEF With
<1>5. Changed(e, n + 1, v) = With(d, v)
  BY <1>2, <1>3, LastReplaced
<1> HIDE DEF n, e
<1> QED BY <1>1, <1>4, <1>5 DEF v, e

\* A text without quotes stays in the token it is read into.
LEMMA QuotedRun ==
    ASSUME NEW S, NEW p \in Seq(S), NEW d \in Lists(S), NEW u \in Seq(S), NEW t \in Seq(S),
           Free(t, Quote), Lexed(p) = [done |-> With(d, u), in |-> "quotes"]
    PROVE  Lexed(Plus(p, t)) = [done |-> With(d, Plus(u, t)), in |-> "quotes"]
<1> DEFINE R == S \ {Quote}
<1>0. R \subseteq S /\ \A c \in S : c # Quote <=> c \in R
  OBVIOUS
<1> HIDE DEF R
<1> DEFINE P == {x \in Seq(R) : Lexed(Plus(p, x)) = [done |-> With(d, Plus(u, x)), in |-> "quotes"]}
<1>1. Seq(R) \subseteq Seq(S)
  BY <1>0, SeqOfMore
<1>2. <<>> \in P
  <2>1. Plus(p, <<>>) = p /\ Plus(u, <<>>) = u
    BY PlusWithType
  <2>2. <<>> \in Seq(R)
    OBVIOUS
  <2> QED BY <2>1, <2>2
<1>3. ASSUME NEW x \in Seq(R), NEW c \in R, x \in P PROVE Append(x, c) \in P
  <2>1. x \in Seq(S) /\ c \in S /\ c # Quote
    BY <1>0, <1>1
  <2>2. Append(x, c) \in Seq(R) /\ Append(x, c) = With(x, c)
    BY DEF With
  <2>3. With(Plus(p, x), c) = Plus(p, With(x, c)) /\ With(Plus(u, x), c) = Plus(u, With(x, c))
    BY <2>1, WithPlus
  <2>4. Plus(p, x) \in Seq(S) /\ Plus(u, x) \in Seq(S)
    BY <2>1, PlusWithType
  <2> DEFINE y == Plus(u, x)
  <2> HIDE DEF y
  <2>5. Lexed(Plus(p, With(x, c))) = NextChar([done |-> With(d, y), in |-> "quotes"], c)
    BY <1>3, <2>1, <2>3, <2>4, ScanMore DEF y
  <2>6. NextChar([done |-> With(d, y), in |-> "quotes"], c)
            = [done |-> With(d, With(y, c)), in |-> "quotes"]
    BY <2>1, <2>4, QuotedChar DEF y
  <2>7. Lexed(Plus(p, With(x, c))) = [done |-> With(d, Plus(u, With(x, c))), in |-> "quotes"]
    BY <2>3, <2>5, <2>6 DEF y
  <2> QED BY <2>2, <2>7
<1>4. t \in Seq(R)
  <2>1. t = [i \in 1 .. Len(t) |-> t[i]] /\ Len(t) \in Nat
    OBVIOUS
  <2>2. \A i \in 1 .. Len(t) : t[i] \in R
    BY <1>0 DEF Free
  <2> QED BY <2>1, <2>2, TypedSeq
<1>5. Seq(R) \subseteq P
  <2> HIDE DEF P
  <2> QED BY <1>2, <1>3, AppendInduction
<1> QED BY <1>4, <1>5

\* The token at i is W, and is over.
Stays(s, i, W) ==
    i <= Len(s.done) /\ s.done[i] = W /\ (s.in = "gap" \/ i < Len(s.done))

LEMMA KeptByChar ==
    ASSUME NEW S, NEW s \in Scanned(S), NEW c \in S, NEW i \in Nat \ {0}, NEW W, Stays(s, i, W)
    PROVE  Stays(NextChar(s, c), i, W)
<1> DEFINE d == s.done
           n == Len(d)
           T == Seq(S)
           t == NextChar(s, c)
<1>1. d \in Seq(T) /\ n \in Nat /\ i \in 1 .. n /\ d[i] = W
  BY DEF Stays, Scanned, Scans
<1>11. s.in = "gap" \/ i < n
  BY DEF Stays
<1>2. <<>> \in T /\ <<c>> \in T
  OBVIOUS
<1> HIDE DEF T, d, n
<1> SUFFICES Stays(t, i, W)
  OBVIOUS
<1> HIDE DEF t
<1>3. ASSUME NEW e \in T, t.done = With(d, e) PROVE Stays(t, i, W)
  <2>1. With(d, e) \in Seq(T) /\ Len(With(d, e)) = n + 1 /\ \A j \in 1 .. n : With(d, e)[j] = d[j]
    BY <1>1, AppendFacts DEF n, With
  <2>2. i <= Len(t.done) /\ t.done[i] = W /\ i < Len(t.done)
    BY <1>1, <1>3, <2>1
  <2> QED BY <2>2 DEF Stays
<1>4. CASE s.in = "gap" /\ c = Quote
  <2>1. t.done = With(d, <<>>)
    BY <1>4, QuoteIs DEF NextChar, d, t, With
  <2> QED BY <1>2, <1>3, <2>1
<1>5. CASE s.in = "gap" /\ c # Quote /\ c # Space
  <2>1. t.done = With(d, <<c>>)
    BY <1>5 DEF NextChar, d, t, With
  <2> QED BY <1>2, <1>3, <2>1
<1>6. ASSUME t = [done |-> d, in |-> "gap"] PROVE Stays(t, i, W)
  <2>1. t.done = d /\ t.in = "gap"
    BY <1>6
  <2> QED BY <1>1, <2>1 DEF Stays, n
<1>7. CASE s.in = "gap" /\ c = Space
  BY <1>6, <1>7 DEF NextChar, d, t
<1>8. CASE s.in = "word" /\ c = Space
  BY <1>6, <1>8 DEF NextChar, d, t
<1>9. CASE s.in = "quotes" /\ c = Quote
  BY <1>6, <1>9 DEF NextChar, d, t
<1>10. CASE s.in # "gap" /\ ~(s.in = "word" /\ c = Space) /\ ~(s.in = "quotes" /\ c = Quote)
  <2> DEFINE e == Changed(d, n, Append(d[n], c))
  <2>1. t.done = e
    BY <1>10 DEF NextChar, d, n, t, Changed
  <2>2. i < n
    BY <1>10, <1>11
  <2>4. i # n
    BY <1>1, <2>2
  <2>3. Len(e) = n /\ e[i] = d[i]
    BY <1>1, <2>4 DEF n, Changed
  <2> HIDE DEF e
  <2>5. i <= Len(t.done) /\ t.done[i] = W /\ i < Len(t.done)
    BY <1>1, <2>1, <2>2, <2>3
  <2> QED BY <2>5 DEF Stays
<1> QED BY <1>4, <1>5, <1>7, <1>8, <1>9, <1>10

\* A token that is over stays what it is, whatever follows.
LEMMA KeptByText ==
    ASSUME NEW S, NEW p \in Seq(S), NEW t \in Seq(S), NEW i \in Nat \ {0}, NEW W,
           Stays(Lexed(p), i, W)
    PROVE  Stays(Lexed(Plus(p, t)), i, W)
<1> DEFINE P == {x \in Seq(S) : Stays(Lexed(Plus(p, x)), i, W)}
<1>1. <<>> \in P
  <2>1. Plus(p, <<>>) = p /\ <<>> \in Seq(S)
    BY PlusWithType
  <2> QED BY <2>1
<1>2. ASSUME NEW x \in Seq(S), NEW c \in S, x \in P PROVE Append(x, c) \in P
  <2>1. Append(x, c) \in Seq(S) /\ Append(x, c) = With(x, c)
    BY DEF With
  <2>2. With(Plus(p, x), c) = Plus(p, With(x, c))
    BY WithPlus
  <2>3. Plus(p, x) \in Seq(S)
    BY PlusWithType
  <2>4. Lexed(Plus(p, With(x, c))) = NextChar(Lexed(Plus(p, x)), c) /\ Lexed(Plus(p, x)) \in Scanned(S)
    BY <2>2, <2>3, ScanMore, ScanFacts
  <2>5. Stays(Lexed(Plus(p, With(x, c))), i, W)
    BY <1>2, <2>4, KeptByChar
  <2> QED BY <2>1, <2>5
<1>3. Seq(S) \subseteq P
  <2> HIDE DEF P
  <2> QED BY <1>1, <1>2, AppendInduction
<1> QED BY <1>3

EscapedMore(s, c) == s \o EscapedChar(c)

IsEscaping(f, text) ==
    f = [i \in 0 .. Len(text) |-> IF i = 0 THEN <<>> ELSE EscapedMore(f[i - 1], text[i])]

\* The text that is escaped so far: a character is doubled, or left alone.
LEMMA EscapingFacts ==
    ASSUME NEW S, NEW text \in Seq(S), Quote \in S, Backslash \in S
    PROVE  \E f \in [0 .. Len(text) -> Seq(S)] :
                /\ Escaped(text) = f[Len(text)] /\ f[0] = <<>>
                /\ \A i \in 1 .. Len(text) :
                    /\ text[i] \in {Quote, Backslash} => f[i] = With(With(f[i - 1], Backslash), text[i])
                    /\ text[i] \notin {Quote, Backslash} => f[i] = With(f[i - 1], text[i])
<1> DEFINE m == Len(text)
           V == Seq(S)
           step == [i \in 1 .. m |-> [s \in V |-> EscapedMore(s, text[i])]]
<1>1. m \in Nat /\ \A i \in 1 .. m : text[i] \in S
  OBVIOUS
<1>2. \A s \in V, c \in S : EscapedMore(s, c) \in V
  <2>1. \A c \in S : EscapedChar(c) \in V
    BY DEF EscapedChar
  <2> QED BY <2>1 DEF EscapedMore
<1>3. <<>> \in V
  OBVIOUS
<1>20. ASSUME NEW s \in V, NEW c \in S
       PROVE  /\ c \in {Quote, Backslash} => EscapedMore(s, c) = With(With(s, Backslash), c)
              /\ c \notin {Quote, Backslash} => EscapedMore(s, c) = With(s, c)
  <2>1. s \o <<c>> = With(s, c)
    BY DEF With
  <2>2. s \o <<Backslash, c>> = With(With(s, Backslash), c)
    BY DEF With
  <2> QED BY <2>1, <2>2 DEF EscapedChar, EscapedMore
<1> HIDE DEF V
<1>4. step \in Steps(m, V)
  BY <1>1, <1>2 DEF Steps
<1>5. PICK g \in [0 .. m -> V] : Follows(g, <<>>, step, m)
  <2> HIDE DEF step, m
  <2> QED BY <1>1, <1>3, <1>4, Recursion
<1>6. \A i \in 1 .. m : g[i] = EscapedMore(g[i - 1], text[i])
  <2>1. \A i \in 1 .. m : i - 1 \in 0 .. m
    BY <1>1
  <2>2. \A i \in 1 .. m : g[i - 1] \in V
    BY <1>5, <2>1
  <2> QED BY <1>5, <2>2 DEF Follows
<1>7. IsEscaping(g, text)
  <2>1. \A i \in 0 .. m : g[i] = IF i = 0 THEN <<>> ELSE EscapedMore(g[i - 1], text[i])
    BY <1>1, <1>5, <1>6 DEF Follows
  <2>2. g = [i \in 0 .. m |-> g[i]]
    BY <1>5
  <2> QED BY <2>1, <2>2 DEF IsEscaping
<1> DEFINE f == CHOOSE h : IsEscaping(h, text)
<1>8. IsEscaping(f, text)
  BY <1>7
<1>9. Escaped(text) = f[m]
  BY DEF Escaped, IsEscaping, EscapedMore
<1> HIDE DEF f, m
<1>10. f = [i \in 0 .. m |-> IF i = 0 THEN <<>> ELSE EscapedMore(f[i - 1], text[i])]
  BY <1>8 DEF IsEscaping, m
<1>11. \A i \in 0 .. m : f[i] = IF i = 0 THEN <<>> ELSE EscapedMore(f[i - 1], text[i])
  BY <1>10
<1>12. f[0] = <<>> /\ \A i \in 1 .. m : f[i] = EscapedMore(f[i - 1], text[i])
  BY <1>1, <1>11
<1> DEFINE Q == {i \in Nat : i <= m => f[i] \in V}
<1>13. 0 \in Q
  BY <1>3, <1>12
<1>14. ASSUME NEW i \in Nat, i \in Q PROVE i + 1 \in Q
  <2> SUFFICES ASSUME i + 1 <= m PROVE f[i + 1] \in V
    OBVIOUS
  <2>1. i + 1 \in 1 .. m /\ (i + 1) - 1 = i /\ i <= m
    BY <1>1
  <2>2. f[i] \in V /\ text[i + 1] \in S /\ f[i + 1] = EscapedMore(f[i], text[i + 1])
    BY <1>1, <1>12, <1>14, <2>1
  <2> QED BY <1>2, <2>2
<1>15. Nat \subseteq Q
  <2> HIDE DEF Q
  <2> QED BY <1>13, <1>14, NatInductionOnSet
<1>16. \A i \in 0 .. m : f[i] \in V
  <2>1. \A i \in 0 .. m : i \in Nat /\ i <= m
    BY <1>1
  <2> QED BY <1>15, <2>1
<1>17. f \in [0 .. m -> V]
  BY <1>10, <1>16
<1>18. ASSUME NEW i \in 1 .. m
       PROVE  /\ text[i] \in {Quote, Backslash} => f[i] = With(With(f[i - 1], Backslash), text[i])
              /\ text[i] \notin {Quote, Backslash} => f[i] = With(f[i - 1], text[i])
  <2>1. i - 1 \in 0 .. m
    BY <1>1
  <2>2. f[i - 1] \in V /\ text[i] \in S /\ f[i] = EscapedMore(f[i - 1], text[i])
    BY <1>1, <1>12, <1>16, <2>1
  <2> QED BY <1>20, <2>2
<1> QED BY <1>9, <1>12, <1>17, <1>18 DEF m, V

LEMMA ListFacts ==
    ASSUME NEW S, NEW literals \in Lists(S)
    PROVE  Len(literals) \in Nat /\ \A i \in 1 .. Len(literals) : literals[i] \in Seq(S)
<1> DEFINE T == Seq(S)
<1>1. literals \in Seq(T)
  BY DEF Lists
<1> HIDE DEF T
<1>2. Len(literals) \in Nat /\ \A i \in 1 .. Len(literals) : literals[i] \in T
  BY <1>1
<1> QED BY <1>2 DEF T

LEMMA OneMore == ASSUME NEW S, NEW a \in Seq(S), NEW x \in S PROVE a \o <<x>> = With(a, x)
  BY DEF With

\* A literal is added between quotes.
LEMMA QuotedIsAdded ==
    ASSUME NEW S, NEW s \in Seq(S), NEW e \in Seq(S), Quote \in S, Space \in S
    PROVE  /\ s \o <<Space>> \o (<<Quote>> \o e \o <<Quote>>)
                = With(Plus(With(With(s, Space), Quote), e), Quote)
           /\ With(Plus(With(With(s, Space), Quote), e), Quote) \in Seq(S)
<1> DEFINE a == With(s, Space)
           q == <<Quote>>
           b == Plus(q, e)
<1>1. a \in Seq(S) /\ s \o <<Space>> = a
  BY OneMore, PlusWithType
<1>2. q \in Seq(S) /\ <<>> \in Seq(S) /\ q = With(<<>>, Quote)
  BY DEF With
<1>3. b \in Seq(S)
  <2> HIDE DEF q
  <2> QED BY <1>2, PlusWithType
<1>4. b \o <<Quote>> = With(b, Quote) /\ With(b, Quote) \in Seq(S)
  <2> HIDE DEF b
  <2> QED BY <1>3, OneMore, PlusWithType
<1>5. s \o <<Space>> \o (<<Quote>> \o e \o <<Quote>>) = Plus(a, With(b, Quote))
  <2>1. s \o <<Space>> \o (<<Quote>> \o e \o <<Quote>>) = Plus(s \o <<Space>>, b \o <<Quote>>)
    BY DEF Plus
  <2> HIDE DEF a, b
  <2> QED BY <1>1, <1>4, <2>1
<1> HIDE DEF a, b, q
<1>6. Plus(a, With(b, Quote)) = With(Plus(a, b), Quote)
  BY <1>1, <1>3, WithPlus
<1>7. Plus(a, b) = Plus(Plus(a, q), e)
  BY <1>1, <1>2, PlusPlus DEF b
<1>8. Plus(a, q) = With(a, Quote) /\ With(a, Quote) \in Seq(S)
  <2> DEFINE none == <<>>
  <2>3. none \in Seq(S) /\ Plus(a, none) = a
    BY <1>1, PlusWithType
  <2> HIDE DEF none
  <2>1. Plus(a, With(none, Quote)) = With(Plus(a, none), Quote)
    BY <1>1, <2>3, WithPlus
  <2>2. With(a, Quote) \in Seq(S)
    BY <1>1, PlusWithType
  <2> QED BY <1>2, <2>1, <2>2, <2>3 DEF none
<1>9. Plus(With(a, Quote), e) \in Seq(S)
  BY <1>8, PlusWithType
<1>10. With(Plus(With(a, Quote), e), Quote) \in Seq(S)
  BY <1>9, PlusWithType
<1>11. s \o <<Space>> \o (<<Quote>> \o e \o <<Quote>>) = With(Plus(With(a, Quote), e), Quote)
  BY <1>5, <1>6, <1>7, <1>8
<1> QED BY <1>10, <1>11 DEF a

AssembledMore(s, literal) == s \o <<Space>> \o Quoted(literal)

IsAssembling(f, literals) ==
    f = [i \in 0 .. Len(literals) |->
            IF i = 0 THEN <<>> ELSE AssembledMore(f[i - 1], literals[i])]

\* The line so far, as characters and escaped texts that are added to it.
LEMMA AssemblingFacts ==
    ASSUME NEW S, NEW literals \in Lists(S), Quote \in S, Backslash \in S, Space \in S
    PROVE  \E f \in [0 .. Len(literals) -> Seq(S)] :
                /\ Assembled(literals) = f[Len(literals)] /\ f[0] = <<>>
                /\ \A i \in 1 .. Len(literals) :
                    /\ Escaped(literals[i]) \in Seq(S)
                    /\ f[i] = With(Plus(With(With(f[i - 1], Space), Quote), Escaped(literals[i])), Quote)
<1> DEFINE m == Len(literals)
           V == Seq(S)
           step == [i \in 1 .. m |-> [s \in V |-> AssembledMore(s, literals[i])]]
<1>1. m \in Nat /\ \A i \in 1 .. m : literals[i] \in Seq(S)
  BY ListFacts
<1>2. \A i \in 1 .. m : Escaped(literals[i]) \in V
  <2> SUFFICES ASSUME NEW i \in 1 .. m PROVE Escaped(literals[i]) \in V
    OBVIOUS
  <2> DEFINE text == literals[i]
  <2>1. text \in Seq(S) /\ Len(text) \in 0 .. Len(text)
    BY <1>1
  <2> HIDE DEF text
  <2>2. PICK f \in [0 .. Len(text) -> Seq(S)] : Escaped(text) = f[Len(text)]
    BY <2>1, EscapingFacts
  <2>3. Escaped(text) \in Seq(S)
    BY <2>1, <2>2
  <2> QED BY <2>3 DEF text
<1>3. <<>> \in V
  OBVIOUS
<1>4. ASSUME NEW s \in V, NEW i \in 1 .. m
      PROVE  /\ AssembledMore(s, literals[i]) \in V
             /\ AssembledMore(s, literals[i])
                    = With(Plus(With(With(s, Space), Quote), Escaped(literals[i])), Quote)
  <2> DEFINE e == Escaped(literals[i])
  <2>1. e \in V
    BY <1>2
  <2> HIDE DEF e
  <2>3. s \in Seq(S) /\ e \in Seq(S)
    BY <2>1 DEF V
  <2>2. AssembledMore(s, literals[i]) = s \o <<Space>> \o (<<Quote>> \o e \o <<Quote>>)
    BY DEF AssembledMore, Quoted, e
  <2>4. /\ s \o <<Space>> \o (<<Quote>> \o e \o <<Quote>>)
                = With(Plus(With(With(s, Space), Quote), e), Quote)
        /\ With(Plus(With(With(s, Space), Quote), e), Quote) \in Seq(S)
    BY <2>3, QuotedIsAdded
  <2>5. AssembledMore(s, literals[i]) = With(Plus(With(With(s, Space), Quote), e), Quote)
    BY <2>2, <2>4
  <2>6. AssembledMore(s, literals[i]) \in Seq(S)
    BY <2>4, <2>5
  <2> QED BY <2>5, <2>6 DEF V, e
<1> HIDE DEF V
<1>5. step \in Steps(m, V)
  BY <1>1, <1>4 DEF Steps
<1>6. PICK g \in [0 .. m -> V] : Follows(g, <<>>, step, m)
  <2> HIDE DEF step, m
  <2> QED BY <1>1, <1>3, <1>5, Recursion
<1>7. \A i \in 1 .. m : g[i] = AssembledMore(g[i - 1], literals[i])
  <2>1. \A i \in 1 .. m : i - 1 \in 0 .. m
    BY <1>1
  <2>2. \A i \in 1 .. m : g[i - 1] \in V
    BY <1>6, <2>1
  <2> QED BY <1>6, <2>2 DEF Follows
<1>8. IsAssembling(g, literals)
  <2>1. \A i \in 0 .. m : g[i] = IF i = 0 THEN <<>> ELSE AssembledMore(g[i - 1], literals[i])
    BY <1>1, <1>6, <1>7 DEF Follows
  <2>2. g = [i \in 0 .. m |-> g[i]]
    BY <1>6
  <2> QED BY <2>1, <2>2 DEF IsAssembling
<1> DEFINE f == CHOOSE h : IsAssembling(h, literals)
<1>9. IsAssembling(f, literals)
  BY <1>8
<1>10. Assembled(literals) = f[m]
  BY DEF Assembled, IsAssembling, AssembledMore
<1> HIDE DEF f, m
<1>11. f = [i \in 0 .. m |-> IF i = 0 THEN <<>> ELSE AssembledMore(f[i - 1], literals[i])]
  BY <1>9 DEF IsAssembling, m
<1>12. \A i \in 0 .. m : f[i] = IF i = 0 THEN <<>> ELSE AssembledMore(f[i - 1], literals[i])
  BY <1>11
<1>13. f[0] = <<>> /\ \A i \in 1 .. m : f[i] = AssembledMore(f[i - 1], literals[i])
  BY <1>1, <1>12
<1> DEFINE Q == {i \in Nat : i <= m => f[i] \in V}
<1>14. 0 \in Q
  BY <1>3, <1>13
<1>15. ASSUME NEW i \in Nat, i \in Q PROVE i + 1 \in Q
  <2> SUFFICES ASSUME i + 1 <= m PROVE f[i + 1] \in V
    OBVIOUS
  <2>1. i + 1 \in 1 .. m /\ (i + 1) - 1 = i /\ i <= m
    BY <1>1
  <2>2. f[i] \in V /\ f[i + 1] = AssembledMore(f[i], literals[i + 1])
    BY <1>13, <1>15, <2>1
  <2> QED BY <1>4, <2>1, <2>2
<1>16. Nat \subseteq Q
  <2> HIDE DEF Q
  <2> QED BY <1>14, <1>15, NatInductionOnSet
<1>17. \A i \in 0 .. m : f[i] \in V
  <2>1. \A i \in 0 .. m : i \in Nat /\ i <= m
    BY <1>1
  <2> QED BY <1>16, <2>1
<1>18. f \in [0 .. m -> V]
  BY <1>11, <1>17
<1>19. ASSUME NEW i \in 1 .. m
       PROVE  f[i] = With(Plus(With(With(f[i - 1], Space), Quote), Escaped(literals[i])), Quote)
  <2>1. i - 1 \in 0 .. m
    BY <1>1
  <2> QED BY <1>4, <1>13, <1>17, <2>1
<1> QED BY <1>2, <1>10, <1>13, <1>18, <1>19 DEF m, V

\* imap_quote changes the text.
Special(text) == \E i \in 1 .. Len(text) : text[i] \in {Quote, Backslash}

LEMMA EscapedFacts ==
    ASSUME NEW S, NEW text \in Seq(S), Quote \in S, Backslash \in S
    PROVE  /\ Escaped(text) \in Seq(S)
           /\ ~Special(text) => Escaped(text) = text
           /\ Special(text) => Len(Escaped(text)) > Len(text)
           /\ Free(text, Quote) => Free(Escaped(text), Quote)
<1> DEFINE m == Len(text)
<1>1. PICK f \in [0 .. m -> Seq(S)] :
        /\ Escaped(text) = f[m] /\ f[0] = <<>>
        /\ \A i \in 1 .. m :
            /\ text[i] \in {Quote, Backslash} => f[i] = With(With(f[i - 1], Backslash), text[i])
            /\ text[i] \notin {Quote, Backslash} => f[i] = With(f[i - 1], text[i])
  BY EscapingFacts
<1>2. m \in Nat /\ \A i \in 1 .. m : text[i] \in S
  OBVIOUS
<1> HIDE DEF m
<1> DEFINE Intact(k) == \A i \in 1 .. k : text[i] \notin {Quote, Backslash}
           NoQuote(k) == \A i \in 1 .. k : text[i] # Quote
           Good(k) == /\ Len(f[k]) >= k
                      /\ Intact(k) => Len(f[k]) = k /\ \A j \in 1 .. k : f[k][j] = text[j]
                      /\ ~Intact(k) => Len(f[k]) > k
                      /\ NoQuote(k) => Free(f[k], Quote)
           Q == {k \in Nat : k <= m => Good(k)}
<1>3. 0 \in Q
  <2>1. Len(f[0]) = 0
    BY <1>1
  <2>2. Good(0)
    BY <2>1 DEF Free
  <2> QED BY <2>2
<1>4. ASSUME NEW k \in Nat, k \in Q PROVE k + 1 \in Q
  <2> SUFFICES ASSUME k + 1 <= m PROVE Good(k + 1)
    OBVIOUS
  <2>1. k + 1 \in 1 .. m /\ (k + 1) - 1 = k /\ k <= m /\ k \in 0 .. m /\ k + 1 \in 0 .. m
    BY <1>2
  <2>2. Good(k)
    BY <1>4, <2>1
  <2> DEFINE e == f[k]
             c == text[k + 1]
             n == Len(e)
  <2>3. e \in Seq(S) /\ c \in S /\ n \in Nat
    <3>1. f[k] \in Seq(S)
      BY <1>1, <2>1
    <3> QED BY <1>2, <2>1, <3>1
  <2>4. /\ c \in {Quote, Backslash} => f[k + 1] = With(With(e, Backslash), c)
        /\ c \notin {Quote, Backslash} => f[k + 1] = With(e, c)
    BY <1>1, <2>1
  <2>5. /\ n >= k
        /\ Intact(k) => n = k /\ \A j \in 1 .. k : e[j] = text[j]
        /\ ~Intact(k) => n > k
        /\ NoQuote(k) => \A j \in 1 .. n : e[j] # Quote
    BY <2>2 DEF Free
  <2> HIDE DEF e, n
  <2>6. \A s \in Seq(S), x \in S : /\ With(s, x) \in Seq(S) /\ Len(With(s, x)) = Len(s) + 1
                                   /\ \A j \in 1 .. Len(s) : With(s, x)[j] = s[j]
                                   /\ With(s, x)[Len(s) + 1] = x
    BY AppendFacts DEF With
  <2>7. c = text[k + 1]
    OBVIOUS
  <2> HIDE DEF c
  <2>8. /\ \A j \in 1 .. k + 1 : j \in 1 .. k \/ j = k + 1
        /\ \A j \in 1 .. k : j \in 1 .. k + 1
        /\ k + 1 \in 1 .. k + 1
    OBVIOUS
  <2>9. /\ Intact(k + 1) <=> Intact(k) /\ c \notin {Quote, Backslash}
        /\ NoQuote(k + 1) <=> NoQuote(k) /\ c # Quote
    BY <2>7, <2>8
  <2>10. CASE c \notin {Quote, Backslash}
    <3> DEFINE h == With(e, c)
    <3>1. h \in Seq(S) /\ Len(h) = n + 1 /\ (\A j \in 1 .. n : h[j] = e[j]) /\ h[n + 1] = c
      BY <2>3, <2>6 DEF n
    <3>2. f[k + 1] = h
      BY <2>4, <2>10
    <3> HIDE DEF h
    <3>3. \A j \in 1 .. n + 1 : j \in 1 .. n \/ j = n + 1
      BY <2>3
    <3>4. Intact(k) => \A j \in 1 .. k + 1 : h[j] = text[j]
      BY <2>5, <2>7, <2>8, <3>1
    <3>5. NoQuote(k) => \A j \in 1 .. n + 1 : h[j] # Quote
      BY <2>5, <2>10, <3>1, <3>3
    <3>6. Len(h) >= k + 1 /\ (~Intact(k) => Len(h) > k + 1) /\ (Intact(k) => Len(h) = k + 1)
      <4> HIDE DEF Intact
      <4> QED BY <2>3, <2>5, <3>1
    <3> HIDE DEF Intact, NoQuote
    <3> QED BY <2>9, <2>10, <3>1, <3>2, <3>4, <3>5, <3>6 DEF Free
  <2>11. CASE c \in {Quote, Backslash}
    <3> DEFINE g == With(e, Backslash)
               h == With(g, c)
    <3>1. g \in Seq(S) /\ Len(g) = n + 1 /\ (\A j \in 1 .. n : g[j] = e[j]) /\ g[n + 1] = Backslash
      BY <2>3, <2>6 DEF n
    <3> HIDE DEF g
    <3>2. h \in Seq(S) /\ Len(h) = n + 2 /\ (\A j \in 1 .. n + 1 : h[j] = g[j]) /\ h[n + 2] = c
      <4>1. h \in Seq(S) /\ Len(h) = Len(g) + 1 /\ (\A j \in 1 .. Len(g) : h[j] = g[j]) /\ h[Len(g) + 1] = c
        BY <2>3, <2>6, <3>1
      <4>2. (n + 1) + 1 = n + 2
        BY <2>3
      <4> HIDE DEF h
      <4> QED BY <3>1, <4>1, <4>2
    <3>3. f[k + 1] = h
      BY <2>4, <2>11 DEF g
    <3> HIDE DEF h
    <3>4. /\ \A j \in 1 .. n + 2 : j \in 1 .. n + 1 \/ j = n + 2
          /\ \A j \in 1 .. n + 1 : j \in 1 .. n \/ j = n + 1
      BY <2>3
    <3>5. NoQuote(k) /\ c # Quote => \A j \in 1 .. n + 2 : h[j] # Quote
      BY <2>5, <3>1, <3>2, <3>4, QuoteIs
    <3>6. Len(h) >= k + 1 /\ Len(h) > k + 1
      <4> HIDE DEF Intact
      <4> QED BY <2>3, <2>5, <3>2
    <3> HIDE DEF Intact, NoQuote
    <3> QED BY <2>9, <2>11, <3>2, <3>3, <3>5, <3>6 DEF Free
  <2> QED BY <2>10, <2>11
<1>5. Good(m)
  <2>1. Nat \subseteq Q
    <3> HIDE DEF Q
    <3> QED BY <1>3, <1>4, NatInductionOnSet
  <2> HIDE DEF Good
  <2> QED BY <1>2, <2>1
<1> DEFINE e == Escaped(text)
<1>6. e \in Seq(S) /\ e = f[m]
  <2>1. m \in 0 .. m
    BY <1>2
  <2> QED BY <1>1, <2>1
<1> HIDE DEF e
<1>7. ~Special(text) => e = text
  <2> SUFFICES ASSUME ~Special(text) PROVE e = text
    OBVIOUS
  <2>1. Intact(m)
    BY DEF Special, m
  <2>2. Len(e) = m /\ \A j \in 1 .. m : e[j] = text[j]
    <3> HIDE DEF Intact
    <3> QED BY <1>5, <1>6, <2>1
  <2> QED BY <1>6, <2>2, SameSeq DEF m
<1>8. Special(text) => Len(e) > m
  <2> SUFFICES ASSUME Special(text) PROVE Len(e) > m
    OBVIOUS
  <2>1. ~Intact(m)
    BY DEF Special, m
  <2> HIDE DEF Intact
  <2> QED BY <1>5, <1>6, <2>1
<1>9. Free(text, Quote) => Free(e, Quote)
  <2> SUFFICES ASSUME Free(text, Quote) PROVE Free(e, Quote)
    OBVIOUS
  <2>1. NoQuote(m)
    BY DEF Free, m
  <2> HIDE DEF NoQuote
  <2> QED BY <1>5, <1>6, <2>1
<1> QED BY <1>6, <1>7, <1>8, <1>9 DEF e, m

\* What a blank and a quote open.
Opened(p) == With(With(p, Space), Quote)

LEMMA OpenedFacts ==
    ASSUME NEW S, NEW p \in Seq(S), NEW d \in Lists(S), Quote \in S, Space \in S,
           Lexed(p) = [done |-> d, in |-> "gap"]
    PROVE  /\ Opened(p) \in Seq(S)
           /\ Lexed(Opened(p)) = [done |-> With(d, <<>>), in |-> "quotes"]
<1> DEFINE a == With(p, Space)
           gap == [done |-> d, in |-> "gap"]
<1>1. a \in Seq(S) /\ With(a, Quote) \in Seq(S)
  BY PlusWithType
<1>2. Lexed(a) = NextChar(gap, Space)
  BY ScanMore
<1>3. NextChar(gap, Space) = gap
  BY QuoteIs DEF NextChar
<1> HIDE DEF a
<1>4. Lexed(With(a, Quote)) = NextChar(gap, Quote)
  BY <1>1, <1>2, <1>3, ScanMore
<1>5. NextChar(gap, Quote) = [done |-> With(d, <<>>), in |-> "quotes"]
  BY QuoteIs DEF NextChar, With
<1> QED BY <1>1, <1>4, <1>5 DEF Opened, a

\* A quote ends what one opened.
LEMMA ClosedFacts ==
    ASSUME NEW d
    PROVE  NextChar([done |-> d, in |-> "quotes"], Quote) = [done |-> d, in |-> "gap"]
  BY QuoteIs DEF NextChar

LEMMA EmptyPlus == ASSUME NEW S, NEW t \in Seq(S) PROVE <<>> \in Seq(S) /\ Plus(<<>>, t) = t
  BY DEF Plus

LEMMA OpenedRun ==
    ASSUME NEW S, NEW p \in Seq(S), NEW d \in Lists(S), Quote \in S, Space \in S,
           Lexed(p) = [done |-> d, in |-> "gap"], NEW t \in Seq(S), Free(t, Quote)
    PROVE  /\ Plus(Opened(p), t) \in Seq(S)
           /\ Lexed(Plus(Opened(p), t)) = [done |-> With(d, t), in |-> "quotes"]
<1> DEFINE o == Opened(p)
           none == <<>>
<1>1. o \in Seq(S) /\ Lexed(o) = [done |-> With(d, none), in |-> "quotes"]
  BY OpenedFacts
<1>2. none \in Seq(S) /\ Plus(none, t) = t
  BY EmptyPlus
<1> HIDE DEF o, none
<1>3. Lexed(Plus(o, t)) = [done |-> With(d, Plus(none, t)), in |-> "quotes"]
  BY <1>1, <1>2, QuotedRun
<1>4. Plus(o, t) \in Seq(S)
  BY <1>1, PlusWithType
<1> QED BY <1>2, <1>3, <1>4 DEF o

\* A text without quotes between quotes is a token.
LEMMA QuotesRead ==
    ASSUME NEW S, NEW p \in Seq(S), NEW d \in Lists(S), Quote \in S, Space \in S,
           Lexed(p) = [done |-> d, in |-> "gap"], NEW t \in Seq(S), Free(t, Quote)
    PROVE  Lexed(With(Plus(Opened(p), t), Quote)) = [done |-> With(d, t), in |-> "gap"]
<1> DEFINE q == Plus(Opened(p), t)
<1>1. q \in Seq(S) /\ Lexed(q) = [done |-> With(d, t), in |-> "quotes"]
  BY OpenedRun
<1> HIDE DEF q
<1>2. Lexed(With(q, Quote)) = NextChar([done |-> With(d, t), in |-> "quotes"], Quote)
  BY <1>1, ScanMore
<1> QED BY <1>2, ClosedFacts DEF q

\* A text with a quote or a backslash arrives as another one.
LEMMA LiteralSpoilt ==
    ASSUME NEW S, NEW p \in Seq(S), NEW d \in Lists(S), Quote \in S, Space \in S, Backslash \in S,
           Lexed(p) = [done |-> d, in |-> "gap"], NEW text \in Seq(S), Special(text)
    PROVE  \E W : W # text /\ Stays(Lexed(With(Plus(Opened(p), Escaped(text)), Quote)), Len(d) + 1, W)
<1> DEFINE m == Len(text)
           n == Len(d) + 1
           o == Opened(p)
<1>1. \A W \in Seq(S) : Stays([done |-> With(d, W), in |-> "gap"], n, W)
  <2> SUFFICES ASSUME NEW W \in Seq(S) PROVE Stays([done |-> With(d, W), in |-> "gap"], n, W)
    OBVIOUS
  <2> DEFINE T == Seq(S)
             e == With(d, W)
  <2>1. d \in Seq(T) /\ W \in T
    BY DEF Lists
  <2> HIDE DEF T
  <2>2. Len(e) = n /\ e[n] = W /\ n \in Nat
    BY <2>1, AppendFacts DEF With
  <2> HIDE DEF e, n
  <2>3. Stays([done |-> e, in |-> "gap"], n, W)
    BY <2>2 DEF Stays
  <2> QED BY <2>3 DEF e
<1>2. CASE Free(text, Quote)
  <2> DEFINE W == Escaped(text)
  <2>1. W \in Seq(S) /\ Len(W) > m /\ Free(W, Quote)
    BY <1>2, EscapedFacts
  <2> HIDE DEF W
  <2>2. W # text
    <3>1. m \in Nat
      OBVIOUS
    <3> QED BY <2>1, <3>1
  <2>3. Lexed(With(Plus(Opened(p), W), Quote)) = [done |-> With(d, W), in |-> "gap"]
    BY <2>1, QuotesRead
  <2> QED BY <1>1, <2>1, <2>2, <2>3 DEF W
<1>3. CASE ~Free(text, Quote)
  <2>1. PICK f \in [0 .. m -> Seq(S)] :
        /\ Escaped(text) = f[m] /\ f[0] = <<>>
        /\ \A i \in 1 .. m :
            /\ text[i] \in {Quote, Backslash} => f[i] = With(With(f[i - 1], Backslash), text[i])
            /\ text[i] \notin {Quote, Backslash} => f[i] = With(f[i - 1], text[i])
    BY EscapingFacts
  <2>2. m \in Nat /\ \A i \in 1 .. m : text[i] \in S
    OBVIOUS
  <2> DEFINE A == {i \in 1 .. m : text[i] = Quote}
             k == Min(A)
  <2>3. A # {} /\ A \subseteq 0 .. m
    BY <1>3, <2>2 DEF Free
  <2>4. k \in A /\ \A i \in A : k <= i
    <3> HIDE DEF A
    <3> QED BY <2>2, <2>3, MinFacts
  <2>5. k \in 1 .. m /\ text[k] = Quote /\ \A i \in 1 .. k - 1 : text[i] # Quote
    <3> HIDE DEF k
    <3> QED BY <2>2, <2>4
  <2> HIDE DEF k, A
  <2> HIDE DEF m
  <2> DEFINE h == f[k - 1]
             W == With(h, Backslash)
             Q == {j \in Nat : j <= k - 1 => Free(f[j], Quote)}
  <2>6. 0 \in Q
    <3>1. Len(f[0]) = 0
      BY <2>1
    <3> QED BY <3>1 DEF Free
  <2>14. ASSUME NEW s \in Seq(S), NEW x \in S, Free(s, Quote), x # Quote
         PROVE  Free(With(s, x), Quote)
    <3> DEFINE y == With(s, x)
    <3>1. Len(y) = Len(s) + 1 /\ (\A j \in 1 .. Len(s) : y[j] = s[j]) /\ y[Len(s) + 1] = x
          /\ Len(s) \in Nat
      BY AppendFacts DEF With
    <3> HIDE DEF y
    <3>2. \A j \in 1 .. Len(s) + 1 : j \in 1 .. Len(s) \/ j = Len(s) + 1
      BY <3>1
    <3>3. \A j \in 1 .. Len(s) : s[j] # Quote
      BY <2>14 DEF Free
    <3> QED BY <2>14, <3>1, <3>2, <3>3 DEF Free, y
  <2>7. ASSUME NEW j \in Nat, j \in Q PROVE j + 1 \in Q
    <3> SUFFICES ASSUME j + 1 <= k - 1 PROVE Free(f[j + 1], Quote)
      OBVIOUS
    <3>1. j + 1 \in 1 .. m /\ (j + 1) - 1 = j /\ j <= k - 1 /\ j \in 0 .. m /\ j + 1 \in 1 .. k - 1
      BY <2>2, <2>5
    <3>2. f[j] \in Seq(S) /\ text[j + 1] \in S /\ text[j + 1] # Quote /\ Free(f[j], Quote)
      BY <2>1, <2>2, <2>5, <2>7, <3>1
    <3>3. text[j + 1] = Backslash => f[j + 1] = With(With(f[j], Backslash), text[j + 1])
      BY <2>1, <3>1
    <3>4. text[j + 1] # Backslash => f[j + 1] = With(f[j], text[j + 1])
      BY <2>1, <3>1, <3>2
    <3>5. With(f[j], Backslash) \in Seq(S)
      BY <3>2, PlusWithType
    <3>6. Free(With(f[j], Backslash), Quote)
      BY <2>14, <3>2, QuoteIs
    <3>7. Free(With(With(f[j], Backslash), text[j + 1]), Quote)
      BY <2>14, <3>2, <3>5, <3>6
    <3>8. Free(With(f[j], text[j + 1]), Quote)
      BY <2>14, <3>2
    <3> QED BY <3>3, <3>4, <3>7, <3>8
  <2>8. Free(h, Quote) /\ h \in Seq(S)
    <3>1. k - 1 \in Nat /\ k - 1 \in 0 .. m
      BY <2>2, <2>5
    <3>2. Nat \subseteq Q
      <4> HIDE DEF Q
      <4> QED BY <2>6, <2>7, NatInductionOnSet
    <3> QED BY <2>1, <3>1, <3>2
  <2>9. f[k] = With(W, Quote)
    BY <2>1, <2>5
  <2> HIDE DEF h
  <2>10. W \in Seq(S) /\ Free(W, Quote)
    BY <2>8, <2>14, QuoteIs, PlusWithType
  <2>11. W # text
    BY <2>5, <2>10 DEF Free, m
  <2>12. Plus(o, W) \in Seq(S) /\ Lexed(Plus(o, W)) = [done |-> With(d, W), in |-> "quotes"]
    BY <2>10, OpenedRun
  <2>15. o \in Seq(S)
    BY OpenedFacts
  <2> HIDE DEF W, o
  <2>13. Stays(Lexed(Plus(o, f[k])), n, W)
    <3>1. Plus(o, With(W, Quote)) = With(Plus(o, W), Quote)
      BY <2>10, <2>15, WithPlus
    <3>2. Lexed(With(Plus(o, W), Quote)) = NextChar([done |-> With(d, W), in |-> "quotes"], Quote)
      BY <2>12, ScanMore
    <3>3. Lexed(Plus(o, f[k])) = [done |-> With(d, W), in |-> "gap"]
      BY <2>9, <3>1, <3>2, ClosedFacts
    <3> QED BY <1>1, <2>10, <3>3
  <2>16. n \in Nat \ {0}
    <3> DEFINE T == Seq(S)
    <3>1. d \in Seq(T)
      BY DEF Lists
    <3> HIDE DEF T
    <3> QED BY <3>1
  <2> HIDE DEF n
  <2>17. ASSUME NEW s \in Seq(S), NEW x \in S, Stays(Lexed(s), n, W)
         PROVE  Stays(Lexed(With(s, x)), n, W)
    <3>1. Lexed(s) \in Scanned(S) /\ Lexed(With(s, x)) = NextChar(Lexed(s), x)
      BY ScanFacts, ScanMore
    <3> QED BY <2>16, <2>17, <3>1, KeptByChar
  <2> DEFINE R == {j \in Nat : j >= k /\ j <= m => Stays(Lexed(Plus(o, f[j])), n, W)}
  <2>18. 0 \in R
    BY <2>5
  <2>19. ASSUME NEW j \in Nat, j \in R PROVE j + 1 \in R
    <3> SUFFICES ASSUME j + 1 >= k, j + 1 <= m PROVE Stays(Lexed(Plus(o, f[j + 1])), n, W)
      OBVIOUS
    <3>1. CASE j + 1 = k
      BY <2>13, <3>1
    <3>2. CASE j + 1 # k
      <4>1. j + 1 \in 1 .. m /\ (j + 1) - 1 = j /\ j <= m /\ j \in 0 .. m /\ j >= k
        BY <2>2, <2>5, <3>2
      <4>2. f[j] \in Seq(S) /\ text[j + 1] \in S /\ Stays(Lexed(Plus(o, f[j])), n, W)
        BY <2>1, <2>2, <2>19, <4>1
      <4>3. text[j + 1] \in {Quote, Backslash} => f[j + 1] = With(With(f[j], Backslash), text[j + 1])
        BY <2>1, <4>1
      <4>4. text[j + 1] \notin {Quote, Backslash} => f[j + 1] = With(f[j], text[j + 1])
        BY <2>1, <4>1
      <4> DEFINE e == f[j]
                 c == text[j + 1]
      <4> HIDE DEF e, c
      <4>5. e \in Seq(S) /\ c \in S /\ With(e, Backslash) \in Seq(S)
        BY <4>2, PlusWithType DEF e, c
      <4>6. /\ Plus(o, With(e, c)) = With(Plus(o, e), c)
            /\ Plus(o, With(e, Backslash)) = With(Plus(o, e), Backslash)
        BY <2>15, <4>5, WithPlus
      <4>7. Plus(o, With(With(e, Backslash), c)) = With(With(Plus(o, e), Backslash), c)
        BY <2>15, <4>5, <4>6, WithPlus
      <4>8. Plus(o, e) \in Seq(S)
        BY <2>15, <4>5, PlusWithType
      <4>9. With(Plus(o, e), Backslash) \in Seq(S)
        BY <4>8, PlusWithType
      <4>10. Stays(Lexed(Plus(o, e)), n, W)
        BY <4>2 DEF e
      <4>11. Stays(Lexed(With(Plus(o, e), c)), n, W)
        BY <2>17, <4>5, <4>8, <4>10
      <4>12. Stays(Lexed(With(Plus(o, e), Backslash)), n, W)
        BY <2>17, <4>8, <4>10
      <4>13. Stays(Lexed(With(With(Plus(o, e), Backslash), c)), n, W)
        BY <2>17, <4>5, <4>9, <4>12
      <4> QED BY <4>3, <4>4, <4>6, <4>7, <4>11, <4>13 DEF e, c
    <3> QED BY <3>1, <3>2
  <2>20. Stays(Lexed(Plus(o, f[m])), n, W) /\ f[m] \in Seq(S)
    <3>1. Nat \subseteq R
      <4> HIDE DEF R
      <4> QED BY <2>18, <2>19, NatInductionOnSet
    <3>2. m >= k /\ m <= m /\ m \in 0 .. m
      BY <2>2, <2>5
    <3> QED BY <2>1, <2>2, <3>1, <3>2
  <2>21. Plus(o, f[m]) \in Seq(S)
    BY <2>15, <2>20, PlusWithType
  <2>22. Stays(Lexed(With(Plus(o, f[m]), Quote)), n, W)
    BY <2>17, <2>20, <2>21
  <2> QED BY <2>1, <2>11, <2>22 DEF n, o
<1> QED BY <1>2, <1>3

\* The literals read so far, as long as none is changed.
LEMMA LiteralsReadSoFar ==
    ASSUME NEW S, NEW literals \in Lists(S), Quote \in S, Space \in S, Backslash \in S,
           NEW f \in [0 .. Len(literals) -> Seq(S)], f[0] = <<>>,
           \A i \in 1 .. Len(literals) :
                f[i] = With(Plus(Opened(f[i - 1]), Escaped(literals[i])), Quote),
           NEW k \in 0 .. Len(literals), \A i \in 1 .. k : ~Special(literals[i])
    PROVE  Lexed(f[k]) = [done |-> SubSeq(literals, 1, k), in |-> "gap"]
<1> DEFINE m == Len(literals)
           T == Seq(S)
           first(i) == SubSeq(literals, 1, i)
           Good(i) == Lexed(f[i]) = [done |-> first(i), in |-> "gap"]
           Q == {i \in Nat : i <= k => Good(i)}
<1>1. m \in Nat /\ \A i \in 1 .. m : literals[i] \in Seq(S)
  BY ListFacts
<1>2. literals \in Seq(T)
  BY DEF Lists
<1> HIDE DEF T
<1>3. \A i \in 0 .. m : first(i) \in Seq(T)
  BY <1>1, <1>2, SubSeqFacts DEF m
<1>4. first(0) = <<>>
  BY <1>2
<1>5. ASSUME NEW i \in Nat, i + 1 <= m PROVE With(first(i), literals[i + 1]) = first(i + 1)
  <2> DEFINE a == first(i)
             b == first(i + 1)
             x == literals[i + 1]
  <2>0. i \in 0 .. m /\ i + 1 \in 0 .. m /\ i + 1 \in 1 .. m
    BY <1>1, <1>5
  <2>1. /\ a \in Seq(T) /\ Len(a) = i /\ \A j \in 1 .. i : a[j] = literals[j]
        /\ b \in Seq(T) /\ Len(b) = i + 1 /\ \A j \in 1 .. i + 1 : b[j] = literals[j]
    BY <1>1, <1>2, <1>5, <2>0
  <2>2. x \in T
    BY <1>1, <1>5, <2>0 DEF T
  <2> HIDE DEF a, b
  <2>5. literals[i + 1] = x
    OBVIOUS
  <2> HIDE DEF x
  <2> DEFINE c == With(a, x)
  <2>3. c \in Seq(T) /\ Len(c) = i + 1 /\ (\A j \in 1 .. i : c[j] = a[j]) /\ c[i + 1] = x
    <3>1. c \in Seq(T) /\ Len(c) = Len(a) + 1 /\ (\A j \in 1 .. Len(a) : c[j] = a[j]) /\ c[Len(a) + 1] = x
      BY <2>1, <2>2, AppendFacts DEF With
    <3> HIDE DEF c
    <3> QED BY <2>1, <3>1
  <2> HIDE DEF c
  <2>4. \A j \in 1 .. i + 1 : c[j] = b[j]
    <3>1. \A j \in 1 .. i + 1 : j \in 1 .. i \/ j = i + 1
      OBVIOUS
    <3> QED BY <2>1, <2>3, <2>5, <3>1
  <2>6. c = b
    BY <2>1, <2>3, <2>4, SameSeq
  <2> QED BY <2>6 DEF a, b, c, x
<1> HIDE DEF first
<1>6. 0 \in Q
  BY <1>4, ScanNothing DEF ScanStart
<1>7. ASSUME NEW i \in Nat, i \in Q PROVE i + 1 \in Q
  <2> SUFFICES ASSUME i + 1 <= k PROVE Good(i + 1)
    OBVIOUS
  <2>1. i + 1 \in 1 .. m /\ (i + 1) - 1 = i /\ i <= k /\ i \in 0 .. m /\ i + 1 \in 1 .. k /\ i + 1 <= m
    BY <1>1
  <2> DEFINE p == f[i]
             x == literals[i + 1]
             d == first(i)
  <2>2. p \in Seq(S) /\ x \in Seq(S) /\ ~Special(x)
    BY <1>1, <2>1
  <2>3. d \in Lists(S)
    BY <1>3, <2>1 DEF Lists, T
  <2>4. Lexed(p) = [done |-> d, in |-> "gap"]
    BY <1>7, <2>1
  <2>5. f[i + 1] = With(Plus(Opened(p), Escaped(x)), Quote)
    BY <2>1
  <2>6. first(i + 1) = With(d, x)
    BY <1>5, <2>1
  <2> HIDE DEF p, x, d
  <2>7. Escaped(x) = x /\ Free(x, Quote)
    BY <2>2, EscapedFacts DEF Special, Free
  <2>8. Lexed(With(Plus(Opened(p), x), Quote)) = [done |-> With(d, x), in |-> "gap"]
    BY <2>2, <2>3, <2>4, <2>7, QuotesRead
  <2> QED BY <2>5, <2>6, <2>7, <2>8
<1>8. Good(k)
  <2>1. Nat \subseteq Q
    <3> HIDE DEF Q
    <3> QED BY <1>6, <1>7, NatInductionOnSet
  <2>2. k \in Nat /\ k <= k
    BY <1>1
  <2> HIDE DEF Good
  <2> QED BY <2>1, <2>2
<1> QED BY <1>8 DEF first

\* The arguments a client sends as literals arrive unless one has a quote or a
\* backslash (read_command, imap_quote, tokenize_args).
LEMMA LiteralsArriveUnlessSpecial ==
    ASSUME NEW S0, NEW literals \in Lists(S0)
    PROVE  LiteralsArrive(literals)
<1> DEFINE S == S0 \cup {Quote, Space, Backslash}
           m == Len(literals)
           line == Assembled(literals)
<1>0. Quote \in S /\ Space \in S /\ Backslash \in S
  OBVIOUS
<1>1. literals \in Lists(S)
  <2>1. S0 \subseteq S
    OBVIOUS
  <2> HIDE DEF S
  <2>2. Seq(S0) \subseteq Seq(S)
    BY <2>1, SeqOfMore
  <2> DEFINE T0 == Seq(S0)
             T == Seq(S)
  <2>3. literals \in Seq(T0)
    BY DEF Lists
  <2> HIDE DEF T0, T
  <2>4. Seq(T0) \subseteq Seq(T)
    BY <2>2, SeqOfMore DEF T0, T
  <2> QED BY <2>3, <2>4 DEF Lists, T
<1> HIDE DEF S
<1>2. m \in Nat /\ \A i \in 1 .. m : literals[i] \in Seq(S)
  BY <1>1, ListFacts
<1>3. PICK f \in [0 .. m -> Seq(S)] :
            /\ line = f[m] /\ f[0] = <<>>
            /\ \A i \in 1 .. m :
                /\ Escaped(literals[i]) \in Seq(S)
                /\ f[i] = With(Plus(Opened(f[i - 1]), Escaped(literals[i])), Quote)
  BY <1>0, <1>1, AssemblingFacts DEF Opened
<1>4. f[m] \in Seq(S) /\ m \in 0 .. m
  BY <1>2, <1>3
<1>5. Tokens(line) = Lexed(f[m]).done
  BY <1>3, <1>4, ScanFacts
<1>6. DOMAIN literals = 1 .. m
  <2> DEFINE T == Seq(S)
  <2>1. literals \in Seq(T)
    BY <1>1 DEF Lists
  <2> HIDE DEF T
  <2> QED BY <2>1
<1>7. \A i \in 1 .. m : ToSet(literals[i]) \cap {Quote, Backslash} = {} <=> ~Special(literals[i])
  <2> SUFFICES ASSUME NEW i \in 1 .. m
               PROVE  ToSet(literals[i]) \cap {Quote, Backslash} = {} <=> ~Special(literals[i])
    OBVIOUS
  <2> DEFINE text == literals[i]
  <2>1. text \in Seq(S)
    BY <1>2
  <2> HIDE DEF text
  <2>2. ToSet(text) = {text[j] : j \in 1 .. Len(text)}
    BY <2>1 DEF ToSet
  <2>3. ToSet(text) \cap {Quote, Backslash} = {} <=> ~Special(text)
    BY <2>2 DEF Special
  <2> QED BY <2>3 DEF text
<1> HIDE DEF m, line
<1>8. ASSUME \A i \in 1 .. m : ~Special(literals[i]) PROVE Tokens(line) = literals
  <2>1. Lexed(f[m]) = [done |-> SubSeq(literals, 1, m), in |-> "gap"]
    BY <1>0, <1>1, <1>3, <1>4, <1>8, LiteralsReadSoFar DEF m
  <2>2. SubSeq(literals, 1, m) = literals
    BY <1>1, WholeSeq DEF Lists, m
  <2> QED BY <1>5, <2>1, <2>2
<1>9. ASSUME NEW u \in 1 .. m, Special(literals[u]) PROVE Tokens(line) # literals
  <2> DEFINE A == {i \in 1 .. m : Special(literals[i])}
             i == Min(A)
  <2>1. A # {} /\ A \subseteq 0 .. m
    <3>1. u \in A
      BY <1>9
    <3>2. A \subseteq 1 .. m /\ 1 .. m \subseteq 0 .. m
      BY <1>2
    <3> HIDE DEF A
    <3> QED BY <3>1, <3>2
  <2>2. i \in A /\ \A j \in A : i <= j
    <3> HIDE DEF A
    <3> QED BY <1>2, <2>1, MinFacts
  <2>3. i \in 1 .. m /\ Special(literals[i]) /\ \A j \in 1 .. i - 1 : ~Special(literals[j])
    <3> HIDE DEF i
    <3> QED BY <1>2, <2>2
  <2> HIDE DEF i, A
  <2>4. i - 1 \in 0 .. m /\ i \in 0 .. m /\ i - 1 \in Nat /\ (i - 1) + 1 = i /\ i \in Nat \ {0} /\ i - 1 <= m
    BY <1>2, <2>3
  <2> DEFINE p == f[i - 1]
             d == SubSeq(literals, 1, i - 1)
             x == literals[i]
             T == Seq(S)
  <2>5. Lexed(p) = [done |-> d, in |-> "gap"] /\ p \in Seq(S)
    BY ZenonT(40), <1>0, <1>1, <1>3, <2>3, <2>4, LiteralsReadSoFar DEF m
  <2>6. d \in Lists(S) /\ Len(d) = i - 1
    <3>1. literals \in Seq(T)
      BY <1>1 DEF Lists
    <3> HIDE DEF T
    <3>2. d \in Seq(T) /\ Len(d) = i - 1
      BY <1>2, <2>3, <2>4, <3>1 DEF m
    <3> QED BY <3>2 DEF Lists, T
  <2>7. x \in Seq(S) /\ Special(x)
    BY <1>2, <2>3
  <2>8. f[i] = With(Plus(Opened(p), Escaped(x)), Quote)
    BY <1>3, <2>3
  <2> HIDE DEF p, d, x
  <2>9. PICK W : W # x /\ Stays(Lexed(With(Plus(Opened(p), Escaped(x)), Quote)), Len(d) + 1, W)
    BY <1>0, <2>5, <2>6, <2>7, LiteralSpoilt
  <2>10. Stays(Lexed(f[i]), i, W)
    BY <2>4, <2>6, <2>8, <2>9
  <2> DEFINE R == {j \in Nat : j >= i /\ j <= m => Stays(Lexed(f[j]), i, W)}
  <2>11. 0 \in R
    BY <2>4
  <2>12. ASSUME NEW j \in Nat, j \in R PROVE j + 1 \in R
    <3> SUFFICES ASSUME j + 1 >= i, j + 1 <= m PROVE Stays(Lexed(f[j + 1]), i, W)
      OBVIOUS
    <3>1. CASE j + 1 = i
      BY <2>10, <3>1
    <3>2. CASE j + 1 # i
      <4>1. j + 1 \in 1 .. m /\ (j + 1) - 1 = j /\ j <= m /\ j \in 0 .. m /\ j >= i
        BY <1>2, <2>4, <3>2
      <4> DEFINE b == f[j]
                 e == Escaped(literals[j + 1])
      <4>2. b \in Seq(S) /\ e \in Seq(S) /\ Stays(Lexed(b), i, W)
        BY <1>3, <2>12, <4>1
      <4>3. f[j + 1] = With(Plus(With(With(b, Space), Quote), e), Quote)
        BY <1>3, <4>1 DEF Opened
      <4> HIDE DEF b, e
      <4>4. ASSUME NEW s \in Seq(S), NEW c \in S, Stays(Lexed(s), i, W)
            PROVE  With(s, c) \in Seq(S) /\ Stays(Lexed(With(s, c)), i, W)
        <5>1. Lexed(s) \in Scanned(S) /\ Lexed(With(s, c)) = NextChar(Lexed(s), c)
          BY ScanFacts, ScanMore
        <5>2. With(s, c) \in Seq(S)
          BY PlusWithType
        <5> QED BY <2>4, <4>4, <5>1, <5>2, KeptByChar
      <4>5. With(b, Space) \in Seq(S) /\ Stays(Lexed(With(b, Space)), i, W)
        BY <1>0, <4>2, <4>4
      <4> DEFINE o == With(With(b, Space), Quote)
      <4>6. o \in Seq(S) /\ Stays(Lexed(o), i, W)
        BY <1>0, <4>4, <4>5
      <4> HIDE DEF o
      <4>7. Plus(o, e) \in Seq(S) /\ Stays(Lexed(Plus(o, e)), i, W)
        BY <2>4, <4>2, <4>6, KeptByText, PlusWithType
      <4>8. Stays(Lexed(With(Plus(o, e), Quote)), i, W)
        BY <1>0, <4>4, <4>7
      <4> QED BY <4>3, <4>8 DEF o
    <3> QED BY <3>1, <3>2
  <2>13. Stays(Lexed(f[m]), i, W)
    <3>1. Nat \subseteq R
      <4> HIDE DEF R
      <4> QED BY <2>11, <2>12, NatInductionOnSet
    <3>2. m >= i /\ m <= m
      BY <1>2, <2>3
    <3> QED BY <1>2, <3>1, <3>2
  <2> QED BY <1>5, <2>9, <2>13 DEF Stays, x
<1>10. Tokens(line) = literals <=> \A i \in 1 .. m : ~Special(literals[i])
  BY <1>8, <1>9
<1> QED BY <1>6, <1>7, <1>10 DEF LiteralsArrive, line

----------------------------------------------------------------------------
(* StripFormat, Folded: what becomes of the characters of an address *)

\* The places of the characters that are seen.
Seen(text) == {i \in 1 .. Len(text) : text[i] # "ZW"}

LEMMA StripIs ==
    ASSUME NEW S, NEW text \in Seq(S)
    PROVE  StripFormat(text) = Picked(text, Seen(text)) /\ Seen(text) \in SUBSET (1 .. Len(text))
<1> DEFINE A == Seen(text)
           s == InOrder(A)
           q == [n \in DOMAIN s |-> text[s[n]]]
<1>1. A \in SUBSET (1 .. Len(text)) /\ DOMAIN text = 1 .. Len(text)
  BY DEF Seen
<1>2. StripFormat(text) = q
  BY <1>1 DEF StripFormat, Seen
<1> HIDE DEF A
<1>3. s \in Seq(Int) /\ Len(s) \in Nat
  BY <1>1, PickedType
<1>4. DOMAIN s = 1 .. Len(s)
  <2> HIDE DEF s
  <2> QED BY <1>3
<1>5. q = Picked(text, A)
  BY <1>4 DEF Picked
<1> QED BY <1>1, <1>2, <1>5 DEF A

LEMMA StripNothing == StripFormat(<<>>) = <<>>
<1>1. <<>> \in Seq({}) /\ Seen(<<>>) = {}
  BY DEF Seen
<1> QED BY <1>1, StripIs, PickedNothing

LEMMA StripMore ==
    ASSUME NEW S, NEW text \in Seq(S), NEW c \in S
    PROVE  StripFormat(With(text, c)) = IF c = "ZW" THEN StripFormat(text) ELSE With(StripFormat(text), c)
<1> DEFINE more == With(text, c)
           n == Len(text)
           A == Seen(text)
           B == Seen(more)
<1>1. n \in Nat /\ more \in Seq(S) /\ Len(more) = n + 1 /\ more[n + 1] = c
      /\ \A j \in 1 .. n : more[j] = text[j]
  BY AppendFacts DEF With
<1>2. StripFormat(more) = Picked(more, B) /\ StripFormat(text) = Picked(text, A)
      /\ A \subseteq 1 .. n
  <2>1. StripFormat(text) = Picked(text, A) /\ A \subseteq 1 .. n
    BY StripIs
  <2>2. StripFormat(more) = Picked(more, B)
    <3> HIDE DEF more
    <3> QED BY <1>1, StripIs
  <2> QED BY <2>1, <2>2
<1> HIDE DEF more
<1>3. Picked(more, A) = Picked(text, A)
  BY <1>1, <1>2, PickedOfPrefix
<1>4. 1 .. n + 1 = 1 .. n \cup {n + 1} /\ n + 1 \in 1 .. n + 1 /\ n + 1 \notin 1 .. n
  BY <1>1
<1>5. CASE c = "ZW"
  <2>1. B = A
    BY <1>1, <1>4, <1>5 DEF Seen
  <2> QED BY <1>2, <1>3, <1>5, <2>1 DEF more
<1>6. CASE c # "ZW"
  <2>1. B = A \cup {n + 1}
    BY <1>1, <1>4, <1>6 DEF Seen
  <2>2. A \subseteq 1 .. Len(more) /\ n + 1 \in 1 .. Len(more) /\ \A y \in A : y < n + 1
    BY <1>1, <1>2, <1>4
  <2> HIDE DEF A, n
  <2>3. Picked(more, A \cup {n + 1}) = Append(Picked(more, A), more[n + 1])
    BY <1>1, <2>2, PickedMore
  <2> QED BY <1>1, <1>2, <1>3, <1>6, <2>1, <2>3 DEF With, more
<1> QED BY <1>5, <1>6

\* An address is as long as it was, or shorter, and has no other characters.
LEMMA StripFacts ==
    ASSUME NEW S, NEW text \in Seq(S)
    PROVE  /\ StripFormat(text) \in Seq(S) /\ Len(StripFormat(text)) \in 0 .. Len(text)
           /\ \A i \in 1 .. Len(StripFormat(text)) :
                /\ StripFormat(text)[i] # "ZW"
                /\ \E j \in 1 .. Len(text) : StripFormat(text)[i] = text[j]
<1> DEFINE A == Seen(text)
           s == InOrder(A)
           p == Picked(text, A)
<1>1. p = StripFormat(text) /\ A \in SUBSET (1 .. Len(text))
  BY StripIs
<1>2. \A j \in A : text[j] # "ZW" /\ j \in 1 .. Len(text)
  BY DEF Seen
<1> HIDE DEF A
<1>3. /\ s \in Seq(Int) /\ Len(s) \in Nat /\ \A n \in 1 .. Len(s) : s[n] \in A
      /\ p \in Seq(S) /\ Len(p) = Len(s) /\ \A n \in 1 .. Len(s) : p[n] = text[s[n]]
  BY <1>1, PickedType
<1> HIDE DEF p, s
<1>4. \A n \in 1 .. Len(p) : p[n] # "ZW" /\ \E j \in 1 .. Len(text) : p[n] = text[j]
  BY <1>2, <1>3
<1>5. Len(p) <= Len(text)
  <2> DEFINE P == {t \in Seq(S) : Len(StripFormat(t)) \in 0 .. Len(t) /\ StripFormat(t) \in Seq(S)}
  <2>1. <<>> \in P
    <3>1. <<>> \in Seq(S) /\ Len(<<>>) \in 0 .. Len(<<>>)
      OBVIOUS
    <3> QED BY <3>1, StripNothing
  <2>2. ASSUME NEW t \in Seq(S), NEW x \in S, t \in P PROVE Append(t, x) \in P
    <3>1. Append(t, x) \in Seq(S) /\ Len(Append(t, x)) = Len(t) + 1 /\ Len(t) \in Nat
      BY AppendFacts
    <3>2. StripFormat(Append(t, x)) = IF x = "ZW" THEN StripFormat(t) ELSE With(StripFormat(t), x)
      BY StripMore DEF With
    <3>3. /\ StripFormat(t) \in Seq(S) /\ Len(StripFormat(t)) \in 0 .. Len(t)
          /\ With(StripFormat(t), x) \in Seq(S) /\ Len(With(StripFormat(t), x)) = Len(StripFormat(t)) + 1
      BY <2>2, PlusWithType
    <3> QED BY <3>1, <3>2, <3>3
  <2>3. text \in P
    <3> HIDE DEF P
    <3> QED BY <2>1, <2>2, AppendInduction
  <2> QED BY <1>1, <2>3
<1>6. Len(p) \in 0 .. Len(text)
  BY <1>3, <1>5
<1> QED BY <1>1, <1>3, <1>4, <1>6

LEMMA StripAll ==
    ASSUME NEW S, NEW text \in Seq(S), \A i \in 1 .. Len(text) : text[i] # "ZW"
    PROVE  StripFormat(text) = text
<1> DEFINE P == {t \in Seq(S) : (\A i \in 1 .. Len(t) : t[i] # "ZW") => StripFormat(t) = t}
<1>1. <<>> \in P
  BY StripNothing
<1>2. ASSUME NEW t \in Seq(S), NEW x \in S, t \in P PROVE Append(t, x) \in P
  <2> DEFINE u == Append(t, x)
  <2>1. /\ Len(t) \in Nat /\ u \in Seq(S) /\ Len(u) = Len(t) + 1 /\ u[Len(t) + 1] = x
        /\ \A j \in 1 .. Len(t) : u[j] = t[j]
    BY AppendFacts
  <2>2. StripFormat(u) = IF x = "ZW" THEN StripFormat(t) ELSE With(StripFormat(t), x)
    BY StripMore DEF With
  <2>3. u = With(t, x)
    BY DEF With
  <2> HIDE DEF u
  <2>4. ASSUME \A i \in 1 .. Len(u) : u[i] # "ZW" PROVE StripFormat(u) = u
    <3>1. \A i \in 1 .. Len(t) : i \in 1 .. Len(u)
      BY <2>1
    <3>2. \A i \in 1 .. Len(t) : t[i] # "ZW"
      BY <2>1, <2>4, <3>1
    <3>3. Len(t) + 1 \in 1 .. Len(u)
      BY <2>1
    <3>4. x # "ZW"
      BY <2>1, <2>4, <3>3
    <3>5. StripFormat(t) = t
      BY <1>2, <3>2
    <3> QED BY <2>2, <2>3, <3>4, <3>5
  <2> QED BY <2>1, <2>4 DEF u
<1>3. text \in P
  <2> HIDE DEF P
  <2> QED BY <1>1, <1>2, AppendInduction
<1> QED BY <1>3

LEMMA StripPlus ==
    ASSUME NEW S, NEW a \in Seq(S), NEW b \in Seq(S)
    PROVE  StripFormat(Plus(a, b)) = Plus(StripFormat(a), StripFormat(b))
<1> DEFINE P == {t \in Seq(S) : StripFormat(Plus(a, t)) = Plus(StripFormat(a), StripFormat(t))}
<1>1. <<>> \in P
  <2>1. Plus(a, <<>>) = a /\ Plus(StripFormat(a), <<>>) = StripFormat(a)
    BY StripFacts, PlusWithType
  <2> QED BY <2>1, StripNothing
<1>2. ASSUME NEW t \in Seq(S), NEW x \in S, t \in P PROVE Append(t, x) \in P
  <2>1. StripFormat(t) \in Seq(S) /\ StripFormat(a) \in Seq(S) /\ Plus(a, t) \in Seq(S)
    BY StripFacts, PlusWithType
  <2>2. Plus(a, With(t, x)) = With(Plus(a, t), x)
    BY WithPlus
  <2>3. /\ StripFormat(With(t, x)) = IF x = "ZW" THEN StripFormat(t) ELSE With(StripFormat(t), x)
        /\ StripFormat(With(Plus(a, t), x))
            = IF x = "ZW" THEN StripFormat(Plus(a, t)) ELSE With(StripFormat(Plus(a, t)), x)
    BY <2>1, StripMore
  <2>4. StripFormat(Plus(a, t)) = Plus(StripFormat(a), StripFormat(t))
    BY <1>2
  <2>5. With(Plus(StripFormat(a), StripFormat(t)), x) = Plus(StripFormat(a), With(StripFormat(t), x))
    BY <2>1, WithPlus
  <2>6. StripFormat(Plus(a, With(t, x))) = Plus(StripFormat(a), StripFormat(With(t, x)))
    BY <2>2, <2>3, <2>4, <2>5
  <2>7. With(t, x) \in Seq(S) /\ With(t, x) = Append(t, x)
    BY PlusWithType DEF With
  <2> QED BY <2>6, <2>7
<1>3. b \in P
  <2> HIDE DEF P
  <2> QED BY <1>1, <1>2, AppendInduction
<1> QED BY <1>3

\* The small letter of a letter.
Small(c) == IF c = "A" THEN "a" ELSE c

\* An alphabet that has the small letter of each of its letters.
Lettered(S) == \A c \in S : Small(c) \in S

LEMMA FoldedFacts ==
    ASSUME NEW S, Lettered(S), NEW text \in Seq(S)
    PROVE  /\ Folded(text) \in Seq(S) /\ Len(Folded(text)) = Len(text)
           /\ \A i \in 1 .. Len(text) : Folded(text)[i] = Small(text[i])
<1> DEFINE f == [i \in 1 .. Len(text) |-> Small(text[i])]
<1>1. Folded(text) = f
  BY DEF Folded, Small
<1>2. Len(text) \in Nat /\ \A i \in 1 .. Len(text) : Small(text[i]) \in S
  BY DEF Lettered
<1>3. f \in Seq(S) /\ Len(f) = Len(text) /\ \A i \in 1 .. Len(text) : f[i] = Small(text[i])
  BY <1>2
<1> QED BY <1>1, <1>3

LEMMA FoldedTwice ==
    ASSUME NEW S, Lettered(S), NEW text \in Seq(S)
    PROVE  Folded(Folded(text)) = Folded(text)
<1> DEFINE f == Folded(text)
           g == Folded(f)
<1>1. f \in Seq(S) /\ Len(f) = Len(text) /\ \A i \in 1 .. Len(text) : f[i] = Small(text[i])
  BY FoldedFacts
<1> HIDE DEF f
<1>2. g \in Seq(S) /\ Len(g) = Len(f) /\ \A i \in 1 .. Len(f) : g[i] = Small(f[i])
  BY <1>1, FoldedFacts
<1> HIDE DEF g
<1>3. \A c : Small(Small(c)) = Small(c)
  BY DEF Small
<1>4. \A i \in 1 .. Len(f) : g[i] = f[i]
  BY <1>1, <1>2, <1>3
<1>5. g = f
  BY <1>1, <1>2, <1>4, SameSeq
<1> QED BY <1>5 DEF f, g

LEMMA FoldedMore ==
    ASSUME NEW S, Lettered(S), NEW text \in Seq(S), NEW c \in S
    PROVE  Folded(With(text, c)) = With(Folded(text), Small(c))
<1> DEFINE u == With(text, c)
           f == Folded(text)
           g == Folded(u)
           h == With(f, Small(c))
           n == Len(text)
<1>1. n \in Nat /\ u \in Seq(S) /\ Len(u) = n + 1 /\ u[n + 1] = c /\ \A i \in 1 .. n : u[i] = text[i]
  BY AppendFacts DEF With
<1>2. f \in Seq(S) /\ Len(f) = n /\ \A i \in 1 .. n : f[i] = Small(text[i])
  BY FoldedFacts
<1>3. Small(c) \in S
  BY DEF Lettered
<1> HIDE DEF u, f
<1>4. g \in Seq(S) /\ Len(g) = n + 1 /\ \A i \in 1 .. n + 1 : g[i] = Small(u[i])
  BY <1>1, FoldedFacts
<1>5. h \in Seq(S) /\ Len(h) = n + 1 /\ h[n + 1] = Small(c) /\ \A i \in 1 .. n : h[i] = f[i]
  BY <1>2, <1>3, AppendFacts DEF With
<1> HIDE DEF g, h, n
<1>6. \A i \in 1 .. n + 1 : g[i] = h[i]
  <2>1. \A i \in 1 .. n + 1 : i \in 1 .. n \/ i = n + 1
    BY <1>1
  <2>2. n + 1 \in 1 .. n + 1
    BY <1>1
  <2> QED BY <1>1, <1>2, <1>4, <1>5, <2>1, <2>2
<1>7. g = h
  BY <1>4, <1>5, <1>6, SameSeq
<1> QED BY <1>7 DEF g, h, u, f

LEMMA FoldedStripped ==
    ASSUME NEW S, Lettered(S), NEW text \in Seq(S)
    PROVE  Folded(StripFormat(text)) = StripFormat(Folded(text))
<1> DEFINE P == {t \in Seq(S) : Folded(StripFormat(t)) = StripFormat(Folded(t))}
<1>1. <<>> \in P
  <2>1. <<>> \in Seq(S) /\ Folded(<<>>) = <<>>
    BY DEF Folded
  <2> QED BY <2>1, StripNothing
<1>2. ASSUME NEW t \in Seq(S), NEW x \in S, t \in P PROVE Append(t, x) \in P
  <2>1. /\ With(t, x) \in Seq(S) /\ With(t, x) = Append(t, x)
        /\ StripFormat(t) \in Seq(S) /\ Folded(t) \in Seq(S) /\ Small(x) \in S
    BY StripFacts, FoldedFacts, PlusWithType DEF With, Lettered
  <2>2. /\ StripFormat(With(t, x)) = IF x = "ZW" THEN StripFormat(t) ELSE With(StripFormat(t), x)
        /\ Folded(With(t, x)) = With(Folded(t), Small(x))
        /\ Folded(With(StripFormat(t), x)) = With(Folded(StripFormat(t)), Small(x))
    BY <2>1, StripMore, FoldedMore
  <2>3. StripFormat(With(Folded(t), Small(x)))
            = IF Small(x) = "ZW" THEN StripFormat(Folded(t)) ELSE With(StripFormat(Folded(t)), Small(x))
    BY <2>1, StripMore
  <2>4. Small(x) = "ZW" <=> x = "ZW"
    BY DEF Small
  <2>5. Folded(StripFormat(t)) = StripFormat(Folded(t))
    BY <1>2
  <2>6. Folded(StripFormat(With(t, x))) = StripFormat(Folded(With(t, x)))
    BY <2>2, <2>3, <2>4, <2>5
  <2> QED BY <2>1, <2>6
<1>3. text \in P
  <2> HIDE DEF P
  <2> QED BY <1>1, <1>2, AppendInduction
<1> QED BY <1>3

\* Folding works character by character.
LEMMA FoldedPart ==
    ASSUME NEW S, Lettered(S), NEW text \in Seq(S), NEW i \in Nat, NEW j \in Nat,
           1 <= i, i <= j + 1, j <= Len(text)
    PROVE  SubSeq(Folded(text), i, j) = Folded(SubSeq(text, i, j))
<1> DEFINE f == Folded(text)
           p == SubSeq(f, i, j)
           q == SubSeq(text, i, j)
           g == Folded(q)
           n == j - i + 1
<1>1. f \in Seq(S) /\ Len(f) = Len(text) /\ \A k \in 1 .. Len(text) : f[k] = Small(text[k])
  BY FoldedFacts
<1>2. q \in Seq(S) /\ Len(q) = n /\ \A k \in 1 .. n : q[k] = text[i + k - 1]
  BY SubSeqFacts
<1> HIDE DEF f, q
<1>3. p \in Seq(S) /\ Len(p) = n /\ \A k \in 1 .. n : p[k] = f[i + k - 1]
  BY <1>1, SubSeqFacts
<1>4. g \in Seq(S) /\ Len(g) = n /\ \A k \in 1 .. n : g[k] = Small(q[k])
  BY <1>2, FoldedFacts
<1>5. n \in Nat /\ \A k \in 1 .. n : i + k - 1 \in 1 .. Len(text)
  OBVIOUS
<1> HIDE DEF p, g, n
<1>6. \A k \in 1 .. n : p[k] = g[k]
  BY <1>1, <1>2, <1>3, <1>4, <1>5
<1>7. p = g
  BY <1>3, <1>4, <1>6, SameSeq
<1> QED BY <1>7 DEF f, p, q, g

----------------------------------------------------------------------------
(* Scan: the "@" that splits an address *)

Unmarked == [quoted |-> FALSE, skip |-> FALSE, at |-> 0]
Marks == [quoted : BOOLEAN, skip : BOOLEAN, at : Nat]

IsMarking(f, text) ==
    f = [i \in 0 .. Len(text) |-> IF i = 0 THEN Unmarked ELSE NextMark(f[i - 1], text[i], i)]

Marking(text) == CHOOSE f : IsMarking(f, text)

LEMMA NextMarkType == ASSUME NEW s \in Marks, NEW c, NEW i \in Nat PROVE NextMark(s, c, i) \in Marks
<1>1. s.quoted \in BOOLEAN /\ s.at \in Nat
  BY DEF Marks
<1>2. CASE s.skip
  BY <1>1, <1>2 DEF NextMark, Marks
<1>3. CASE ~s.skip
  <2> DEFINE quoted == IF c = Quote THEN ~s.quoted ELSE s.quoted
             skip == s.quoted /\ c = Backslash
             at == IF c = "@" /\ ~s.quoted THEN i ELSE s.at
  <2>1. quoted \in BOOLEAN /\ skip \in BOOLEAN /\ at \in Nat
    BY <1>1
  <2>2. NextMark(s, c, i) = [quoted |-> quoted, skip |-> skip, at |-> at]
    BY <1>3 DEF NextMark
  <2> HIDE DEF quoted, skip, at
  <2> QED BY <2>1, <2>2 DEF Marks
<1> QED BY <1>2, <1>3

LEMMA MarkingFacts ==
    ASSUME NEW S, NEW text \in Seq(S)
    PROVE  /\ Scan(text) = Marking(text)[Len(text)]
           /\ Marking(text)[0] = Unmarked
           /\ \A i \in 1 .. Len(text) : Marking(text)[i] = NextMark(Marking(text)[i - 1], text[i], i)
<1> DEFINE m == Len(text)
           V == Marks
           step == [i \in 1 .. m |-> [s \in V |-> NextMark(s, text[i], i)]]
           f == Marking(text)
<1>1. m \in Nat
  OBVIOUS
<1>2. Unmarked \in V
  BY DEF Unmarked, Marks
<1> HIDE DEF V
<1>3. step \in Steps(m, V)
  <2>1. \A i \in 1 .. m, s \in V : NextMark(s, text[i], i) \in V
    BY <1>1, NextMarkType DEF V
  <2> QED BY <2>1 DEF Steps
<1>4. PICK g \in [0 .. m -> V] : Follows(g, Unmarked, step, m)
  <2> HIDE DEF step, m
  <2> QED BY <1>1, <1>2, <1>3, Recursion
<1>5. \A i \in 1 .. m : g[i] = NextMark(g[i - 1], text[i], i)
  <2>1. \A i \in 1 .. m : i - 1 \in 0 .. m
    BY <1>1
  <2>2. \A i \in 1 .. m : g[i - 1] \in V
    BY <1>4, <2>1
  <2> QED BY <1>4, <2>2 DEF Follows
<1>6. IsMarking(g, text)
  <2>1. \A i \in 0 .. m : g[i] = IF i = 0 THEN Unmarked ELSE NextMark(g[i - 1], text[i], i)
    BY <1>1, <1>4, <1>5 DEF Follows
  <2>2. g = [i \in 0 .. m |-> g[i]]
    BY <1>4
  <2> QED BY <2>1, <2>2 DEF IsMarking
<1>7. IsMarking(f, text)
  BY <1>6 DEF Marking
<1>8. Scan(text) = f[m]
  BY DEF Scan, Marking, IsMarking, Unmarked
<1> HIDE DEF f, m
<1>9. f = [i \in 0 .. m |-> IF i = 0 THEN Unmarked ELSE NextMark(f[i - 1], text[i], i)]
  BY <1>7 DEF IsMarking, m
<1>10. \A i \in 0 .. m : f[i] = IF i = 0 THEN Unmarked ELSE NextMark(f[i - 1], text[i], i)
  BY <1>9
<1>11. f[0] = Unmarked /\ \A i \in 1 .. m : f[i] = NextMark(f[i - 1], text[i], i)
  BY <1>1, <1>10
<1> QED BY <1>8, <1>11 DEF f, m

LEMMA MarkNothing == Scan(<<>>) = Unmarked
<1>1. <<>> \in Seq({}) /\ Len(<<>>) = 0
  OBVIOUS
<1> QED BY <1>1, MarkingFacts

LEMMA MarkMore ==
    ASSUME NEW S, NEW text \in Seq(S), NEW c \in S
    PROVE  Scan(With(text, c)) = NextMark(Scan(text), c, Len(text) + 1)
<1> DEFINE more == With(text, c)
           m == Len(text)
           f == Marking(text)
           g == Marking(more)
<1>1. m \in Nat /\ more \in Seq(S) /\ Len(more) = m + 1 /\ more[m + 1] = c
      /\ \A j \in 1 .. m : more[j] = text[j]
  BY AppendFacts DEF With
<1>2. Scan(text) = f[m] /\ f[0] = Unmarked /\ \A i \in 1 .. m : f[i] = NextMark(f[i - 1], text[i], i)
  BY MarkingFacts
<1> HIDE DEF more
<1>3. /\ Scan(more) = g[m + 1] /\ g[0] = Unmarked
      /\ \A i \in 1 .. m + 1 : g[i] = NextMark(g[i - 1], more[i], i)
  <2>1. /\ Scan(more) = g[Len(more)] /\ g[0] = Unmarked
        /\ \A i \in 1 .. Len(more) : g[i] = NextMark(g[i - 1], more[i], i)
    BY <1>1, MarkingFacts
  <2> HIDE DEF g
  <2> QED BY <1>1, <2>1
<1> HIDE DEF f, g, m
<1> DEFINE Q == {n \in Nat : n <= m => f[n] = g[n]}
<1>4. 0 \in Q
  BY <1>2, <1>3
<1>5. ASSUME NEW n \in Nat, n \in Q PROVE n + 1 \in Q
  <2>1. ASSUME n + 1 <= m PROVE f[n + 1] = g[n + 1]
    <3>1. n + 1 \in 1 .. m /\ n + 1 \in 1 .. m + 1 /\ (n + 1) - 1 = n /\ n <= m
      BY <1>1, <2>1
    <3>2. f[n] = g[n]
      BY <1>5, <3>1
    <3> QED BY <1>1, <1>2, <1>3, <3>1, <3>2
  <2> QED BY <2>1
<1>6. m \in Q
  <2> HIDE DEF Q
  <2> QED BY <1>1, <1>4, <1>5, NatInductionOnSet
<1>7. f[m] = g[m] /\ m + 1 \in 1 .. m + 1 /\ (m + 1) - 1 = m
  BY <1>1, <1>6
<1>8. g[m + 1] = NextMark(g[m], c, m + 1)
  BY <1>1, <1>3, <1>7
<1> QED BY <1>2, <1>3, <1>7, <1>8 DEF more, m

\* The mark stands at an "@", and a character is hidden inside quotes only.
LEMMA MarksFacts ==
    ASSUME NEW S, NEW text \in Seq(S)
    PROVE  /\ Scan(text) \in Marks /\ Scan(text).at \in 0 .. Len(text)
           /\ Scan(text).at # 0 => text[Scan(text).at] = "@"
           /\ Scan(text).skip => Scan(text).quoted
<1> DEFINE Good(t) == /\ Scan(t) \in Marks /\ Scan(t).at \in 0 .. Len(t)
                      /\ Scan(t).at # 0 => t[Scan(t).at] = "@"
                      /\ Scan(t).skip => Scan(t).quoted
           P == {t \in Seq(S) : Good(t)}
<1>1. <<>> \in P
  <2>1. Len(<<>>) = 0 /\ <<>> \in Seq(S)
    OBVIOUS
  <2>2. Unmarked \in Marks /\ Unmarked.at = 0 /\ ~Unmarked.skip
    BY DEF Unmarked, Marks
  <2> QED BY <2>1, <2>2, MarkNothing
<1>2. ASSUME NEW t \in Seq(S), NEW x \in S, t \in P PROVE Append(t, x) \in P
  <2> DEFINE u == Append(t, x)
             n == Len(t)
             s == Scan(t)
             z == Scan(u)
  <2>1. /\ n \in Nat /\ u \in Seq(S) /\ Len(u) = n + 1 /\ u[n + 1] = x /\ u = With(t, x)
        /\ \A j \in 1 .. n : u[j] = t[j]
    BY AppendFacts DEF With
  <2>2. z = NextMark(s, x, n + 1)
    BY <2>1, MarkMore
  <2>3. s \in Marks /\ s.at \in 0 .. n /\ (s.at # 0 => t[s.at] = "@") /\ (s.skip => s.quoted)
    BY <1>2
  <2> HIDE DEF u, s, z, n
  <2>4. z \in Marks
    BY <2>1, <2>2, <2>3, NextMarkType
  <2>5. z.skip => z.quoted
    <3>1. Backslash # Quote
      BY QuoteIs
    <3>2. CASE s.skip
      BY <2>2, <3>2 DEF NextMark
    <3>3. CASE ~s.skip
      <4>1. z.quoted = (IF x = Quote THEN ~s.quoted ELSE s.quoted) /\ z.skip = (s.quoted /\ x = Backslash)
        BY <2>2, <3>3 DEF NextMark
      <4> QED BY <3>1, <4>1
    <3> QED BY <3>2, <3>3
  <2>6. z.at = s.at \/ (x = "@" /\ z.at = n + 1)
    BY <2>2 DEF NextMark
  <2>7. z.at \in 0 .. Len(u) /\ (z.at # 0 => u[z.at] = "@")
    BY <2>1, <2>3, <2>6
  <2>8. Good(u)
    BY <2>4, <2>5, <2>7 DEF z
  <2> HIDE DEF Good
  <2> QED BY <2>1, <2>8 DEF u
<1>3. text \in P
  <2> HIDE DEF P
  <2> QED BY <1>1, <1>2, AppendInduction
<1> QED BY <1>3

\* Two characters the reader of an address takes for the same mark, or for none.
Alike(c, d) == (c = Quote <=> d = Quote) /\ (c = Backslash <=> d = Backslash) /\ (c = "@" <=> d = "@")

LEMMA NextMarkAlike ==
    ASSUME NEW s \in Marks, NEW c, NEW d, Alike(c, d), NEW i
    PROVE  NextMark(s, c, i) = NextMark(s, d, i)
<1>1. CASE s.skip
  BY <1>1 DEF NextMark
<1>2. CASE ~s.skip
  BY <1>2 DEF NextMark, Alike
<1> QED BY <1>1, <1>2

\* The split of an address depends on its marks only.
LEMMA ScanAlike ==
    ASSUME NEW S, NEW u \in Seq(S), NEW v \in Seq(S), Len(u) = Len(v),
           \A i \in 1 .. Len(u) : Alike(u[i], v[i])
    PROVE  Scan(u) = Scan(v)
<1> DEFINE m == Len(u)
           f == Marking(u)
           g == Marking(v)
<1>1. m \in Nat /\ Len(v) = m
  OBVIOUS
<1>2. Scan(u) = f[m] /\ f[0] = Unmarked /\ \A i \in 1 .. m : f[i] = NextMark(f[i - 1], u[i], i)
  BY MarkingFacts
<1>3. Scan(v) = g[m] /\ g[0] = Unmarked /\ \A i \in 1 .. m : g[i] = NextMark(g[i - 1], v[i], i)
  <2>1. Scan(v) = g[Len(v)] /\ g[0] = Unmarked /\ \A i \in 1 .. Len(v) : g[i] = NextMark(g[i - 1], v[i], i)
    BY MarkingFacts
  <2> HIDE DEF g, m
  <2> QED BY <1>1, <2>1
<1>4. \A i \in 1 .. m : Alike(u[i], v[i])
  OBVIOUS
<1> HIDE DEF f, g, m
<1> DEFINE Q == {n \in Nat : n <= m => f[n] = g[n] /\ f[n] \in Marks}
<1>5. 0 \in Q
  <2>1. Unmarked \in Marks
    BY DEF Unmarked, Marks
  <2> QED BY <1>2, <1>3, <2>1
<1>6. ASSUME NEW n \in Nat, n \in Q PROVE n + 1 \in Q
  <2>1. ASSUME n + 1 <= m PROVE f[n + 1] = g[n + 1] /\ f[n + 1] \in Marks
    <3>1. n + 1 \in 1 .. m /\ (n + 1) - 1 = n /\ n <= m /\ n + 1 \in Nat
      BY <1>1, <2>1
    <3>2. f[n] = g[n] /\ f[n] \in Marks
      BY <1>6, <3>1
    <3>3. f[n + 1] = NextMark(f[n], u[n + 1], n + 1) /\ g[n + 1] = NextMark(f[n], v[n + 1], n + 1)
      BY <1>2, <1>3, <3>1, <3>2
    <3>4. Alike(u[n + 1], v[n + 1])
      BY <1>4, <3>1
    <3> QED BY <3>1, <3>2, <3>3, <3>4, NextMarkAlike, NextMarkType
  <2> QED BY <2>1
<1>7. m \in Q
  <2> HIDE DEF Q
  <2> QED BY <1>1, <1>5, <1>6, NatInductionOnSet
<1>8. f[m] = g[m]
  BY <1>1, <1>7
<1> QED BY <1>2, <1>3, <1>8

LEMMA PrefixOfMore ==
    ASSUME NEW S, NEW text \in Seq(S), NEW c \in S, NEW k \in 0 .. Len(text)
    PROVE  SubSeq(With(text, c), 1, k) = SubSeq(text, 1, k)
<1> DEFINE u == With(text, c)
           a == SubSeq(u, 1, k)
           b == SubSeq(text, 1, k)
<1>1. u \in Seq(S) /\ Len(u) = Len(text) + 1 /\ \A i \in 1 .. Len(text) : u[i] = text[i]
  BY AppendFacts DEF With
<1>2. Len(text) \in Nat /\ k \in Nat
  OBVIOUS
<1>3. b \in Seq(S) /\ Len(b) = k /\ \A i \in 1 .. k : b[i] = text[i]
  BY <1>2
<1> HIDE DEF u
<1>4. a \in Seq(S) /\ Len(a) = k /\ \A i \in 1 .. k : a[i] = u[i]
  BY <1>1, <1>2
<1> HIDE DEF a, b
<1>5. \A i \in 1 .. k : a[i] = b[i]
  <2>1. \A i \in 1 .. k : i \in 1 .. Len(text)
    BY <1>2
  <2> QED BY <1>1, <1>3, <1>4, <2>1
<1>6. a = b
  BY <1>3, <1>4, <1>5, SameSeq
<1> QED BY <1>6 DEF a, b, u

\* An "@" behind the one that splits is quoted, and an open quote is closed later.
LEMMA LateMarkIsQuoted ==
    ASSUME NEW S, NEW text \in Seq(S), NEW i \in 1 .. Len(text), text[i] = "@", i > Scan(text).at,
           \A j \in i .. Len(text) : text[j] # Quote
    PROVE  Scan(text).quoted
<1> DEFINE Good(t) == \A k \in 1 .. Len(t) :
                        t[k] = "@" /\ k > Scan(t).at /\ (\A j \in k .. Len(t) : t[j] # Quote) => Scan(t).quoted
           P == {t \in Seq(S) : Good(t)}
<1>1. <<>> \in P
  OBVIOUS
<1>2. ASSUME NEW t \in Seq(S), NEW x \in S, t \in P PROVE Append(t, x) \in P
  <2> DEFINE u == Append(t, x)
             n == Len(t)
             s == Scan(t)
             z == Scan(u)
  <2>1. /\ n \in Nat /\ u \in Seq(S) /\ Len(u) = n + 1 /\ u[n + 1] = x /\ u = With(t, x)
        /\ \A j \in 1 .. n : u[j] = t[j]
    BY AppendFacts DEF With
  <2>2. z = NextMark(s, x, n + 1)
    BY <2>1, MarkMore
  <2>3. s \in Marks /\ s.at \in 0 .. n /\ (s.skip => s.quoted)
    BY MarksFacts
  <2>4. \A k \in 1 .. n : t[k] = "@" /\ k > s.at /\ (\A j \in k .. n : t[j] # Quote) => s.quoted
    BY <1>2
  <2> HIDE DEF u, s, z, n
  <2>5. "@" # Quote
    BY DEF Quote
  <2>6. s.quoted \in BOOLEAN /\ z.at = (IF s.skip \/ x # "@" \/ s.quoted THEN s.at ELSE n + 1)
        /\ (x # Quote => z.quoted = s.quoted)
    BY <2>2, <2>3 DEF NextMark, Marks
  <2>7. ASSUME NEW k \in 1 .. n + 1, u[k] = "@", k > z.at, \A j \in k .. n + 1 : u[j] # Quote
        PROVE  z.quoted
    <3>1. n + 1 \in k .. n + 1 /\ k \in Int
      BY <2>1
    <3>2. x # Quote
      BY <2>1, <2>7, <3>1
    <3>3. CASE k = n + 1
      BY <2>1, <2>3, <2>5, <2>6, <2>7, <3>2, <3>3
    <3>4. CASE k # n + 1
      <4>1. k \in 1 .. n
        BY <2>1, <3>4
      <4>2. \A j \in k .. n : j \in k .. n + 1 /\ j \in 1 .. n
        BY <2>1, <4>1
      <4>3. t[k] = "@" /\ \A j \in k .. n : t[j] # Quote
        BY <2>1, <2>7, <4>1, <4>2
      <4>4. k > s.at
        BY <2>1, <2>3, <2>6, <2>7, <4>1
      <4> QED BY <2>4, <2>6, <3>2, <4>1, <4>3, <4>4
    <3> QED BY <3>3, <3>4
  <2>8. Good(u)
    BY <2>1, <2>7 DEF z
  <2> HIDE DEF Good
  <2> QED BY <2>1, <2>8 DEF u
<1>3. text \in P
  <2> HIDE DEF P
  <2> QED BY <1>1, <1>2, AppendInduction
<1> QED BY <1>3

\* The split of an address without its invisible characters.
Hides(text) == \E i \in 1 .. Len(text) : text[i] = "ZW" /\ Scan(SubSeq(text, 1, i - 1)).skip

SeenAt(text, at) == IF at = 0 THEN 0 ELSE Len(StripFormat(SubSeq(text, 1, at)))

LEMMA ScanStripped ==
    ASSUME NEW S, NEW text \in Seq(S), ~Hides(text)
    PROVE  /\ Scan(StripFormat(text)).quoted = Scan(text).quoted
           /\ Scan(StripFormat(text)).at = SeenAt(text, Scan(text).at)
<1> DEFINE Same(r, s, t) == r.quoted = s.quoted /\ r.skip = s.skip /\ r.at = SeenAt(t, s.at)
           Good(t) == ~Hides(t) => Same(Scan(StripFormat(t)), Scan(t), t)
           P == {t \in Seq(S) : Good(t)}
<1>1. <<>> \in P
  <2>1. Unmarked.at = 0
    BY DEF Unmarked
  <2> QED BY <2>1, StripNothing, MarkNothing DEF SeenAt
<1>2. ASSUME NEW t \in Seq(S), NEW x \in S, t \in P PROVE Append(t, x) \in P
  <2> DEFINE u == With(t, x)
             n == Len(t)
             s == Scan(t)
             z == Scan(u)
             v == StripFormat(t)
             w == StripFormat(u)
             r == Scan(v)
             y == Scan(w)
  <2>1. /\ n \in Nat /\ u \in Seq(S) /\ Len(u) = n + 1 /\ u[n + 1] = x /\ u = Append(t, x)
        /\ \A j \in 1 .. n : u[j] = t[j]
    BY AppendFacts DEF With
  <2>2. z = NextMark(s, x, n + 1)
    BY MarkMore
  <2>3. s \in Marks /\ s.at \in 0 .. n /\ (s.skip => s.quoted)
    BY MarksFacts
  <2>4. v \in Seq(S) /\ Len(v) \in Nat /\ w = IF x = "ZW" THEN v ELSE With(v, x)
    BY StripFacts, StripMore
  <2>5. r \in Marks /\ Scan(With(v, x)) = NextMark(r, x, Len(v) + 1) /\ Len(With(v, x)) = Len(v) + 1
    BY <2>4, MarksFacts, MarkMore, PlusWithType
  <2>6. \A k \in 0 .. n : SubSeq(u, 1, k) = SubSeq(t, 1, k)
    BY PrefixOfMore
  <2>7. SubSeq(t, 1, n) = t /\ SubSeq(u, 1, n + 1) = u
    BY <2>1, WholeSeq
  <2>8. Hides(u) <=> Hides(t) \/ (x = "ZW" /\ s.skip)
    <3>1. \A i \in 1 .. n : i - 1 \in 0 .. n /\ i \in 1 .. n + 1
      BY <2>1
    <3>2. \A i \in 1 .. n + 1 : i \in 1 .. n \/ i = n + 1
      BY <2>1
    <3>3. n + 1 \in 1 .. n + 1 /\ (n + 1) - 1 = n /\ n \in 0 .. n
      BY <2>1
    <3>4. Scan(SubSeq(u, 1, n)) = s
      BY <2>6, <2>7, <3>3
    <3> HIDE DEF u, n, s
    <3>5. Hides(u) <=> \E i \in 1 .. n + 1 : u[i] = "ZW" /\ Scan(SubSeq(u, 1, i - 1)).skip
      BY <2>1 DEF Hides
    <3>6. Hides(t) <=> \E i \in 1 .. n : t[i] = "ZW" /\ Scan(SubSeq(t, 1, i - 1)).skip
      BY DEF Hides, n
    <3>7. \A i \in 1 .. n : u[i] = t[i] /\ SubSeq(u, 1, i - 1) = SubSeq(t, 1, i - 1)
      BY <2>1, <2>6, <3>1
    <3> QED BY <2>1, <3>1, <3>2, <3>3, <3>4, <3>5, <3>6, <3>7
  <2>9. SeenAt(u, n + 1) = Len(w) /\ \A k \in 0 .. n : SeenAt(u, k) = SeenAt(t, k)
    <3>1. n + 1 # 0
      BY <2>1
    <3> HIDE DEF u, n
    <3> QED BY <2>6, <2>7, <3>1 DEF SeenAt, w
  <2>10. ~Hides(t) => Same(r, s, t)
    BY <1>2
  <2> HIDE DEF u, s, z, n, v, w
  <2> SUFFICES ASSUME ~Hides(u) PROVE Same(y, z, u)
    BY <2>1 DEF u, w, z
  <2>11. Same(r, s, t) /\ (x = "ZW" => ~s.skip)
    BY <2>8, <2>10
  <2>12. s.quoted \in BOOLEAN /\ s.skip \in BOOLEAN
    BY <2>3 DEF Marks
  <2> HIDE DEF r
  <2>13. CASE x = "ZW"
    <3>1. "ZW" # Quote /\ "ZW" # Backslash /\ "ZW" # "@"
      BY DEF Quote, Backslash
    <3>2. z.quoted = s.quoted /\ z.skip = FALSE /\ z.at = s.at
      BY <2>2, <2>11, <2>12, <2>13, <3>1 DEF NextMark
    <3>3. y = r
      BY <2>4, <2>13 DEF r
    <3>4. SeenAt(u, s.at) = SeenAt(t, s.at)
      BY <2>3, <2>9
    <3>5. s.skip = FALSE
      BY <2>11, <2>12, <2>13
    <3> HIDE DEF y
    <3> QED BY <2>11, <3>2, <3>3, <3>4, <3>5
  <2>14. CASE x # "ZW"
    <3>1. y = NextMark(r, x, Len(v) + 1) /\ Len(w) = Len(v) + 1
      BY <2>4, <2>5, <2>14
    <3>2. SeenAt(u, s.at) = SeenAt(t, s.at) /\ SeenAt(u, n + 1) = Len(v) + 1
      BY <2>3, <2>9, <3>1
    <3> HIDE DEF y
    <3>3. r.quoted = s.quoted /\ r.skip = s.skip /\ r.at = SeenAt(t, s.at)
      BY <2>11
    <3>4. CASE s.skip
      <4>1. y.quoted = r.quoted /\ y.skip = FALSE /\ y.at = r.at
        BY <3>1, <3>3, <3>4 DEF NextMark
      <4>2. z.quoted = s.quoted /\ z.skip = FALSE /\ z.at = s.at
        BY <2>2, <3>4 DEF NextMark
      <4> QED BY <3>2, <3>3, <4>1, <4>2
    <3>5. CASE ~s.skip
      <4> DEFINE quoted == IF x = Quote THEN ~s.quoted ELSE s.quoted
                 skip == s.quoted /\ x = Backslash
      <4>1. y.quoted = quoted /\ y.skip = skip /\ y.at = IF x = "@" /\ ~s.quoted THEN Len(v) + 1 ELSE r.at
        BY <3>1, <3>3, <3>5 DEF NextMark
      <4>2. z.quoted = quoted /\ z.skip = skip /\ z.at = IF x = "@" /\ ~s.quoted THEN n + 1 ELSE s.at
        BY <2>2, <3>5 DEF NextMark
      <4> HIDE DEF quoted, skip
      <4>3. y.at = SeenAt(u, z.at)
        BY <3>2, <3>3, <4>1, <4>2
      <4> QED BY <4>1, <4>2, <4>3
    <3> QED BY <3>4, <3>5
  <2> QED BY <2>13, <2>14
<1>3. text \in P
  <2> HIDE DEF P
  <2> QED BY <1>1, <1>2, AppendInduction
<1> QED BY <1>3

----------------------------------------------------------------------------
(* Find, FindLast, Trim *)

LEMMA FindFacts ==
    ASSUME NEW S, NEW text \in Seq(S), NEW c
    PROVE  /\ Find(text, c) \in 0 .. Len(text)
           /\ Find(text, c) = 0 => \A i \in 1 .. Len(text) : text[i] # c
           /\ Find(text, c) # 0 => text[Find(text, c)] = c
           /\ \A i \in 1 .. Len(text) : text[i] = c => Find(text, c) # 0 /\ Find(text, c) <= i
<1> DEFINE A == {i \in 1 .. Len(text) : text[i] = c}
           m == Len(text)
           f == Find(text, c)
<1>1. m \in Nat /\ A \subseteq 0 .. m /\ A \subseteq 1 .. m
  OBVIOUS
<1>2. f = IF A # {} THEN Min(A) ELSE 0
  BY DEF Find, SelectInSeq
<1>3. A # {} => Min(A) \in A /\ \A y \in A : Min(A) <= y
  <2> HIDE DEF A, m
  <2> QED BY <1>1, MinFacts
<1>4. \A i : i \in A <=> i \in 1 .. m /\ text[i] = c
  OBVIOUS
<1> HIDE DEF A, m, f
<1>5. CASE A = {}
  <2>1. f = 0 /\ \A i \in 1 .. m : text[i] # c
    BY <1>2, <1>4, <1>5
  <2> QED BY <1>1, <2>1 DEF f, m
<1>6. CASE A # {}
  <2>1. f \in A /\ \A y \in A : f <= y
    BY <1>2, <1>3, <1>6
  <2>2. f \in 1 .. m /\ f # 0 /\ text[f] = c
    BY <1>1, <1>4, <2>1
  <2>3. \A i \in 1 .. m : text[i] = c => f <= i
    BY <1>4, <2>1
  <2> QED BY <1>1, <2>2, <2>3 DEF f, m
<1> QED BY <1>5, <1>6

LEMMA FindLastFacts ==
    ASSUME NEW S, NEW text \in Seq(S), NEW c
    PROVE  /\ FindLast(text, c) \in 0 .. Len(text)
           /\ FindLast(text, c) # 0 => text[FindLast(text, c)] = c
           /\ \A i \in 1 .. Len(text) : text[i] = c => FindLast(text, c) >= i
<1> DEFINE A == {i \in 1 .. Len(text) : text[i] = c}
           m == Len(text)
           f == FindLast(text, c)
<1>1. m \in Nat /\ A \subseteq 0 .. m /\ A \subseteq 1 .. m
  OBVIOUS
<1>2. f = IF A # {} THEN Max(A) ELSE 0
  BY DEF FindLast, SelectLastInSeq
<1>3. A # {} => Max(A) \in A /\ \A y \in A : Max(A) >= y
  <2> HIDE DEF A, m
  <2> QED BY <1>1, MaxFacts
<1>4. \A i : i \in A <=> i \in 1 .. m /\ text[i] = c
  OBVIOUS
<1> HIDE DEF A, m, f
<1>5. CASE A = {}
  <2>1. f = 0 /\ \A i \in 1 .. m : text[i] # c
    BY <1>2, <1>4, <1>5
  <2> QED BY <1>1, <2>1 DEF f, m
<1>6. CASE A # {}
  <2>1. f \in A /\ \A y \in A : f >= y
    BY <1>2, <1>3, <1>6
  <2>2. f \in 1 .. m /\ f # 0 /\ text[f] = c
    BY <1>1, <1>4, <2>1
  <2>3. \A i \in 1 .. m : text[i] = c => f >= i
    BY <1>4, <2>1
  <2> QED BY <1>1, <2>2, <2>3 DEF f, m
<1> QED BY <1>5, <1>6

\* The text has no chars at its ends.
Tight(text, chars) == Len(text) > 0 => text[1] \notin chars /\ text[Len(text)] \notin chars

\* The places of what is not trimmed.
Kernel(text, chars) == {i \in 1 .. Len(text) : text[i] \notin chars}

LEMMA KernelEnds ==
    ASSUME NEW S, NEW text \in Seq(S), NEW chars
    PROVE  /\ TrimStart(text, chars) = SubSeq(text, Min(Kernel(text, chars) \cup {Len(text) + 1}), Len(text))
           /\ TrimEnd(text, chars) = SubSeq(text, 1, Max(Kernel(text, chars) \cup {0}))
           /\ Min(Kernel(text, chars) \cup {Len(text) + 1}) \in Kernel(text, chars) \cup {Len(text) + 1}
           /\ \A i \in Kernel(text, chars) : Min(Kernel(text, chars) \cup {Len(text) + 1}) <= i
           /\ Max(Kernel(text, chars) \cup {0}) \in Kernel(text, chars) \cup {0}
           /\ Min(Kernel(text, chars) \cup {Len(text) + 1}) \in 1 .. Len(text) + 1
           /\ Max(Kernel(text, chars) \cup {0}) \in 0 .. Len(text)
<1> DEFINE K == Kernel(text, chars)
           m == Len(text)
           A == K \cup {m + 1}
           B == K \cup {0}
<1>1. m \in Nat /\ DOMAIN text = 1 .. m /\ K \subseteq 1 .. m
  BY DEF Kernel
<1>2. K = {i \in DOMAIN text : text[i] \notin chars}
  BY <1>1 DEF Kernel
<1>3. TrimStart(text, chars) = SubSeq(text, Min(A), m) /\ TrimEnd(text, chars) = SubSeq(text, 1, Max(B))
  <2> HIDE DEF K
  <2> QED BY <1>2 DEF TrimStart, TrimEnd
<1> HIDE DEF K, m
<1>4. A \subseteq 0 .. m + 1 /\ A # {} /\ m + 1 \in Nat /\ B \subseteq 0 .. m /\ B # {}
      /\ A \subseteq 1 .. m + 1 /\ K \subseteq A
  BY <1>1
<1> HIDE DEF A, B
<1>5. Min(A) \in A /\ (\A y \in A : Min(A) <= y) /\ Max(B) \in B
  BY <1>1, <1>4, MinFacts, MaxFacts
<1> QED BY <1>3, <1>4, <1>5 DEF K, m, A, B

LEMMA TrimFacts ==
    ASSUME NEW S, NEW text \in Seq(S), NEW chars
    PROVE  /\ Trim(text, chars) \in Seq(S) /\ Len(Trim(text, chars)) \in 0 .. Len(text)
           /\ \A i \in 1 .. Len(Trim(text, chars)) : \E j \in 1 .. Len(text) : Trim(text, chars)[i] = text[j]
           /\ Tight(Trim(text, chars), chars)
<1> DEFINE e == TrimEnd(text, chars)
           t == Trim(text, chars)
<1>1. PICK n \in 0 .. Len(text) :
        /\ n > 0 => text[n] \notin chars
        /\ e \in Seq(S) /\ Len(e) = n /\ \A i \in 1 .. n : e[i] = text[i]
  BY TrimEndFacts DEF EndsAt
<1>2. Len(text) \in Nat /\ n \in Nat /\ n <= Len(text)
  BY <1>1
<1>3. t = TrimStart(e, chars)
  BY DEF Trim
<1> HIDE DEF e, t
<1> DEFINE K == Kernel(e, chars)
           a == Min(K \cup {n + 1})
<1>4. t = SubSeq(e, a, n) /\ a \in K \cup {n + 1} /\ a \in 1 .. n + 1 /\ \A i \in K : a <= i
  BY <1>1, <1>3, KernelEnds
<1>5. \A i : i \in K <=> i \in 1 .. n /\ e[i] \notin chars
  BY <1>1 DEF Kernel
<1> HIDE DEF K, a
<1>6. CASE n = 0
  <2>1. a = 1
    BY <1>4, <1>6
  <2>2. t = <<>>
    BY <1>1, <1>4, <1>6, <2>1
  <2>3. Len(t) = 0 /\ t \in Seq(S)
    BY <2>2
  <2> QED BY <1>2, <2>3 DEF t, Tight
<1>7. CASE n # 0
  <2>1. n \in K /\ a <= n
    BY <1>1, <1>2, <1>4, <1>5, <1>7
  <2>2. a \in 1 .. n /\ e[a] \notin chars
    BY <1>2, <1>4, <1>5, <2>1
  <2>3. t \in Seq(S) /\ Len(t) = n - a + 1 /\ \A k \in 1 .. n - a + 1 : t[k] = e[a + k - 1]
    BY <1>1, <1>2, <1>4, <2>2, SubSeqFacts
  <2>4. Len(t) \in 1 .. Len(text) /\ a + 1 - 1 = a /\ a + (n - a + 1) - 1 = n
    BY <1>2, <2>2, <2>3
  <2>5. t[1] = e[a] /\ t[Len(t)] = e[n]
    BY <1>2, <2>2, <2>3, <2>4
  <2>6. \A k \in 1 .. Len(t) : a + k - 1 \in 1 .. n /\ a + k - 1 \in 1 .. Len(text)
    BY <1>2, <2>2, <2>3
  <2>7. \A k \in 1 .. Len(t) : t[k] = text[a + k - 1]
    BY <1>1, <2>3, <2>6
  <2>8. Tight(t, chars)
    BY <1>5, <2>1, <2>2, <2>5 DEF Tight
  <2>9. \A k \in 1 .. Len(t) : \E j \in 1 .. Len(text) : t[k] = text[j]
    BY <2>6, <2>7
  <2>10. Len(t) \in 0 .. Len(text)
    BY <1>2, <2>4
  <2> QED BY <2>3, <2>8, <2>9, <2>10 DEF t
<1> QED BY <1>6, <1>7

LEMMA TrimTight ==
    ASSUME NEW S, NEW text \in Seq(S), NEW chars, Tight(text, chars)
    PROVE  Trim(text, chars) = text
<1> DEFINE n == Len(text)
           K == Kernel(text, chars)
           a == Min(K \cup {n + 1})
<1>1. n \in Nat
  OBVIOUS
<1>2. EndsAt(text, chars, n)
  BY <1>1 DEF EndsAt, Tight
<1>3. TrimEnd(text, chars) = text
  BY <1>2, TrimEndIs, WholeSeq
<1>4. Trim(text, chars) = SubSeq(text, a, n) /\ a \in 1 .. n + 1 /\ \A i \in K : a <= i
  BY <1>3, KernelEnds DEF Trim
<1>5. n # 0 => 1 \in K
  BY <1>1 DEF Tight, Kernel
<1> HIDE DEF K
<1>6. a = 1
  <2> HIDE DEF a
  <2> QED BY <1>1, <1>4, <1>5
<1> QED BY <1>4, <1>6, WholeSeq

LEMMA SmallFacts ==
    \A c : /\ Small(c) \in Blank <=> c \in Blank
           /\ Small(c) = "<" <=> c = "<"
           /\ Small(c) = ">" <=> c = ">"
           /\ Small(c) = "ZW" <=> c = "ZW"
           /\ Small(c) = "TAB" <=> c = "TAB"
           /\ Alike(Small(c), c)
<1>1. "a" # Quote /\ "A" # Quote /\ "a" # Backslash /\ "A" # Backslash /\ "a" # Space /\ "A" # Space
  BY DEF Quote, Backslash, Space
<1> QED BY <1>1 DEF Small, Alike, Blank

LEMMA FoldedTrim ==
    ASSUME NEW S, Lettered(S), NEW text \in Seq(S)
    PROVE  Trim(Folded(text), Blank) = Folded(Trim(text, Blank))
<1>1. ASSUME NEW t \in Seq(S)
      PROVE  Kernel(Folded(t), Blank) = Kernel(t, Blank) /\ Len(Folded(t)) = Len(t) /\ Folded(t) \in Seq(S)
  BY FoldedFacts, SmallFacts DEF Kernel
<1> DEFINE f == Folded(text)
           e == TrimEnd(text, Blank)
           n == Max(Kernel(text, Blank) \cup {0})
           a == Min(Kernel(e, Blank) \cup {Len(e) + 1})
<1>2. n \in 0 .. Len(text) /\ e = SubSeq(text, 1, n)
  BY KernelEnds
<1>3. TrimEnd(f, Blank) = SubSeq(f, 1, n)
  <2>1. f \in Seq(S) /\ Kernel(f, Blank) = Kernel(text, Blank)
    BY <1>1
  <2> HIDE DEF f
  <2> QED BY <2>1, KernelEnds
<1> HIDE DEF n
<1>4. TrimEnd(f, Blank) = Folded(e)
  <2>1. n \in Nat /\ 1 <= n + 1 /\ n <= Len(text) /\ 1 \in Nat /\ 1 <= 1
    BY <1>2
  <2> HIDE DEF e
  <2> QED BY <1>2, <1>3, <2>1, FoldedPart
<1>5. e \in Seq(S)
  BY TrimEndFacts
<1> HIDE DEF e, f
<1>6. TrimStart(e, Blank) = SubSeq(e, a, Len(e)) /\ a \in 1 .. Len(e) + 1
  BY <1>5, KernelEnds
<1>7. TrimStart(Folded(e), Blank) = SubSeq(Folded(e), a, Len(e))
  <2> DEFINE g == Folded(e)
  <2>1. g \in Seq(S) /\ Kernel(g, Blank) = Kernel(e, Blank) /\ Len(g) = Len(e)
    BY <1>1, <1>5
  <2> HIDE DEF g
  <2>2. TrimStart(g, Blank) = SubSeq(g, Min(Kernel(g, Blank) \cup {Len(g) + 1}), Len(g))
    BY <2>1, KernelEnds
  <2> QED BY <2>1, <2>2 DEF g
<1> HIDE DEF a
<1>8. SubSeq(Folded(e), a, Len(e)) = Folded(SubSeq(e, a, Len(e)))
  <2>1. a \in Nat /\ Len(e) \in Nat /\ 1 <= a /\ a <= Len(e) + 1 /\ Len(e) <= Len(e)
    BY <1>5, <1>6
  <2> QED BY <1>5, <2>1, FoldedPart
<1> QED BY <1>4, <1>6, <1>7, <1>8 DEF Trim, e, f

----------------------------------------------------------------------------
(* AddrSpec, and the two parts of an address *)

LEMMA AddrSpecFacts ==
    ASSUME NEW S, NEW raw \in Seq(S)
    PROVE  /\ AddrSpec(raw) \in Seq(S) /\ Len(AddrSpec(raw)) \in 0 .. Len(raw)
           /\ \A i \in 1 .. Len(AddrSpec(raw)) : \E j \in 1 .. Len(raw) : AddrSpec(raw)[i] = raw[j]
           /\ (\A i \in 1 .. Len(raw) : raw[i] # "<") => AddrSpec(raw) = raw
           /\ (\A i \in 1 .. Len(raw) : raw[i] # ">") =>
                \/ AddrSpec(raw) = <<>>
                \/ AddrSpec(raw) = raw /\ \A i \in 1 .. Len(raw) : raw[i] # "<"
<1> DEFINE from == Find(raw, "<")
           n == Len(raw)
           t == AddrSpec(raw)
<1>1. n \in Nat /\ from \in 0 .. n /\ (from # 0 => raw[from] = "<")
      /\ (from = 0 => \A i \in 1 .. n : raw[i] # "<")
  BY FindFacts
<1>2. t = IF from = 0 THEN raw
          ELSE IF raw[n] = ">" THEN SubSeq(raw, from + 1, n - 1) ELSE <<>>
  BY DEF AddrSpec, Last
<1> HIDE DEF from, t
<1>3. CASE from = 0
  <2>1. t = raw
    BY <1>2, <1>3
  <2> QED BY <1>1, <1>3, <2>1 DEF t
<1>4. CASE from # 0 /\ raw[n] # ">"
  <2>1. t = <<>> /\ raw[from] = "<" /\ from \in 1 .. n
    BY <1>1, <1>2, <1>4
  <2>2. t \in Seq(S) /\ Len(t) = 0
    BY <2>1
  <2> QED BY <1>1, <2>1, <2>2 DEF t
<1>5. CASE from # 0 /\ raw[n] = ">"
  <2>1. t = SubSeq(raw, from + 1, n - 1) /\ raw[from] = "<" /\ from \in 1 .. n
    BY <1>1, <1>2, <1>5
  <2>2. from < n /\ n - 1 \in Nat /\ from + 1 \in Nat /\ 1 <= from + 1 /\ from + 1 <= (n - 1) + 1
    BY <1>1, <1>5, <2>1
  <2>3. /\ t \in Seq(S) /\ Len(t) = n - 1 - (from + 1) + 1
        /\ \A k \in 1 .. n - 1 - (from + 1) + 1 : t[k] = raw[from + 1 + k - 1]
    BY <1>1, <2>1, <2>2, SubSeqFacts
  <2>4. Len(t) \in 0 .. n /\ \A k \in 1 .. Len(t) : from + 1 + k - 1 \in 1 .. n
    BY <1>1, <2>1, <2>2, <2>3
  <2>5. \A k \in 1 .. Len(t) : \E j \in 1 .. n : t[k] = raw[j]
    BY <2>3, <2>4
  <2>6. n \in 1 .. n
    BY <1>1, <2>1
  <2> QED BY <1>5, <2>1, <2>3, <2>4, <2>5, <2>6 DEF t, n
<1> QED BY <1>3, <1>4, <1>5

LEMMA FindAlike ==
    ASSUME NEW S, NEW u \in Seq(S), NEW v \in Seq(S), Len(u) = Len(v), NEW c,
           \A i \in 1 .. Len(u) : u[i] = c <=> v[i] = c
    PROVE  Find(u, c) = Find(v, c)
<1> DEFINE A == {i \in 1 .. Len(u) : u[i] = c}
           B == {i \in 1 .. Len(v) : v[i] = c}
<1>1. A = B
  OBVIOUS
<1>2. Find(u, c) = IF A # {} THEN Min(A) ELSE 0
  BY DEF Find, SelectInSeq
<1>3. Find(v, c) = IF B # {} THEN Min(B) ELSE 0
  BY DEF Find, SelectInSeq
<1> HIDE DEF A, B
<1> QED BY <1>1, <1>2, <1>3

LEMMA FoldedAddrSpec ==
    ASSUME NEW S, Lettered(S), NEW raw \in Seq(S)
    PROVE  AddrSpec(Folded(raw)) = Folded(AddrSpec(raw))
<1> DEFINE f == Folded(raw)
           n == Len(raw)
           from == Find(raw, "<")
<1>1. n \in Nat /\ f \in Seq(S) /\ Len(f) = n /\ \A i \in 1 .. n : f[i] = Small(raw[i])
  BY FoldedFacts
<1>2. from \in 0 .. n /\ (from # 0 => raw[from] = "<")
  BY FindFacts
<1> HIDE DEF f
<1>3. \A i \in 1 .. n : (f[i] = "<" <=> raw[i] = "<") /\ (f[i] = ">" <=> raw[i] = ">")
  BY <1>1, SmallFacts
<1>4. Find(f, "<") = from
  BY <1>1, <1>3, FindAlike
<1>5. AddrSpec(raw) = IF from = 0 THEN raw
          ELSE IF raw[n] = ">" THEN SubSeq(raw, from + 1, n - 1) ELSE <<>>
  BY DEF AddrSpec, Last
<1>6. AddrSpec(f) = IF from = 0 THEN f
          ELSE IF f[n] = ">" THEN SubSeq(f, from + 1, n - 1) ELSE <<>>
  BY <1>1, <1>4 DEF AddrSpec, Last
<1> HIDE DEF from
<1>7. CASE from = 0
  BY <1>5, <1>6, <1>7 DEF f
<1>8. CASE from # 0 /\ raw[n] # ">"
  <2>1. n \in 1 .. n
    BY <1>1, <1>2, <1>8
  <2>2. AddrSpec(raw) = <<>> /\ AddrSpec(f) = <<>>
    BY <1>3, <1>5, <1>6, <1>8, <2>1
  <2>3. Folded(<<>>) = <<>>
    BY DEF Folded
  <2> QED BY <2>2, <2>3 DEF f
<1>9. CASE from # 0 /\ raw[n] = ">"
  <2>1. n \in 1 .. n /\ from \in 1 .. n /\ raw[from] = "<"
    BY <1>1, <1>2, <1>9
  <2>2. AddrSpec(raw) = SubSeq(raw, from + 1, n - 1) /\ AddrSpec(f) = SubSeq(f, from + 1, n - 1)
    BY <1>3, <1>5, <1>6, <1>9, <2>1
  <2>3. from # n /\ n - 1 \in Nat /\ from + 1 \in Nat /\ 1 <= from + 1 /\ from + 1 <= (n - 1) + 1 /\ n - 1 <= n
    BY <1>1, <1>9, <2>1
  <2>4. SubSeq(f, from + 1, n - 1) = Folded(SubSeq(raw, from + 1, n - 1))
    BY <2>3, FoldedPart DEF f
  <2> QED BY <2>2, <2>4 DEF f
<1> QED BY <1>7, <1>8, <1>9

\* An address of the two parts.
AddressOf(local, domain) == Plus(With(local, "@"), domain)

Parted(S, t, at, local, domain) ==
    /\ t \in Seq(S) /\ Len(t) = at + Len(domain) /\ t[at] = "@"
    /\ at \in Nat /\ Len(local) \in Nat /\ Len(domain) \in Nat
    /\ \A i \in 1 .. Len(local) : t[i] = local[i]
    /\ \A i \in 1 .. Len(domain) : t[at + i] = domain[i]
    /\ SubSeq(t, 1, at - 1) = local /\ SubSeq(t, at + 1, Len(t)) = domain
    /\ SubSeq(t, 1, at) = With(local, "@")

LEMMA PartsOf ==
    ASSUME NEW S, "@" \in S, NEW local \in Seq(S), NEW domain \in Seq(S),
           NEW t, t = AddressOf(local, domain), NEW at, at = Len(local) + 1
    PROVE  Parted(S, t, at, local, domain)
<1> DEFINE a == With(local, "@")
           p == SubSeq(t, 1, at - 1)
           q == SubSeq(t, at + 1, Len(t))
           r == SubSeq(t, 1, at)
           m == Len(local)
           n == Len(domain)
<1>1. m \in Nat /\ n \in Nat /\ at = m + 1 /\ at \in Nat /\ m = at - 1
  OBVIOUS
<1>2. a \in Seq(S) /\ Len(a) = m + 1 /\ a[m + 1] = "@" /\ \A i \in 1 .. m : a[i] = local[i]
  BY AppendFacts DEF With
<1>3. t = Plus(a, domain)
  BY DEF AddressOf
<1> HIDE DEF a
<1>4. /\ t \in Seq(S) /\ Len(t) = Len(a) + n /\ (\A i \in 1 .. Len(a) : t[i] = a[i])
      /\ \A i \in 1 .. n : t[Len(a) + i] = domain[i]
  <2> DEFINE c == a \o domain
  <2>1. /\ c \in Seq(S) /\ Len(c) = Len(a) + Len(domain) /\ (\A i \in 1 .. Len(a) : c[i] = a[i])
        /\ \A i \in 1 .. Len(domain) : c[Len(a) + i] = domain[i]
    <3>1. a \in Seq(S)
      BY <1>2
    <3> QED BY <3>1, ConcatFacts
  <2>2. t = c
    BY <1>3 DEF Plus
  <2> HIDE DEF c
  <2> QED BY <2>1, <2>2
<1> HIDE DEF m, n
<1>5. Len(t) = at + n /\ t[at] = "@" /\ at \in 1 .. Len(a)
  <2>1. Len(a) = at /\ a[at] = "@" /\ at \in 1 .. at
    BY <1>1, <1>2
  <2> QED BY <1>4, <2>1
<1>6. \A i \in 1 .. m : i \in 1 .. Len(a)
  BY <1>1, <1>2
<1>7. (\A i \in 1 .. m : t[i] = local[i]) /\ \A i \in 1 .. n : t[at + i] = domain[i]
  BY <1>1, <1>2, <1>4, <1>6
<1>8. p = local
  <2>1. p \in Seq(S) /\ Len(p) = m /\ \A i \in 1 .. m : p[i] = t[1 + i - 1]
    <3>1. 1 \in Nat /\ at - 1 \in Nat /\ 1 <= 1 /\ 1 <= (at - 1) + 1 /\ at - 1 <= Len(t) /\ (at - 1) - 1 + 1 = m
      BY <1>1, <1>5
    <3> QED BY <1>4, <3>1, SubSeqFacts
  <2> HIDE DEF p
  <2>2. \A i \in 1 .. m : 1 + i - 1 = i
    BY <1>1
  <2> QED BY <1>7, <2>1, <2>2, SameSeq DEF m
<1>9. q = domain
  <2>1. q \in Seq(S) /\ Len(q) = n /\ \A i \in 1 .. n : q[i] = t[at + 1 + i - 1]
    <3>1. at + 1 \in Nat /\ Len(t) \in Nat /\ 1 <= at + 1 /\ at + 1 <= Len(t) + 1 /\ Len(t) <= Len(t)
          /\ Len(t) - (at + 1) + 1 = n
      BY <1>1, <1>5
    <3>2. t \in Seq(S)
      BY <1>4
    <3> QED BY <3>1, <3>2, SubSeqFacts
  <2> HIDE DEF q
  <2>2. \A i \in 1 .. n : at + 1 + i - 1 = at + i
    BY <1>1
  <2> QED BY <1>7, <2>1, <2>2, SameSeq DEF n
<1>10. r = a
  <2>1. r \in Seq(S) /\ Len(r) = at /\ \A i \in 1 .. at : r[i] = t[1 + i - 1]
    <3>1. 1 \in Nat /\ 1 <= 1 /\ 1 <= at + 1 /\ at <= Len(t) /\ at - 1 + 1 = at
      BY <1>1, <1>5
    <3> QED BY <1>1, <1>4, <3>1, SubSeqFacts
  <2> HIDE DEF r
  <2>2. \A i \in 1 .. at : 1 + i - 1 = i
    BY <1>1
  <2> QED BY <1>1, <1>2, <1>4, <2>1, <2>2, SameSeq
<1> QED BY <1>1, <1>4, <1>5, <1>7, <1>8, <1>9, <1>10 DEF a, m, n, p, q, r, Parted

LEMMA WholeOf ==
    ASSUME NEW S, "@" \in S, NEW t \in Seq(S), NEW at \in 1 .. Len(t), t[at] = "@"
    PROVE  /\ t = AddressOf(SubSeq(t, 1, at - 1), SubSeq(t, at + 1, Len(t)))
           /\ SubSeq(t, 1, at - 1) \in Seq(S) /\ Len(SubSeq(t, 1, at - 1)) = at - 1
           /\ SubSeq(t, at + 1, Len(t)) \in Seq(S) /\ Len(SubSeq(t, at + 1, Len(t))) = Len(t) - at
<1> DEFINE p == SubSeq(t, 1, at - 1)
           q == SubSeq(t, at + 1, Len(t))
           w == AddressOf(p, q)
           n == Len(t)
<1>1. n \in Nat /\ at \in Nat /\ 1 <= at /\ at <= n
  OBVIOUS
<1>2. p \in Seq(S) /\ Len(p) = at - 1 /\ \A i \in 1 .. at - 1 : p[i] = t[i]
  BY <1>1
<1>3. q \in Seq(S) /\ Len(q) = n - at /\ \A i \in 1 .. n - at : q[i] = t[at + i]
  <2>1. at + 1 \in Nat /\ 1 <= at + 1 /\ at + 1 <= n + 1 /\ n <= Len(t) /\ n - (at + 1) + 1 = n - at
    BY <1>1
  <2>2. q \in Seq(S) /\ Len(q) = n - at /\ \A i \in 1 .. n - at : q[i] = t[at + 1 + i - 1]
    <3>1. /\ SubSeq(t, at + 1, n) \in Seq(S) /\ Len(SubSeq(t, at + 1, n)) = n - (at + 1) + 1
          /\ \A i \in 1 .. n - (at + 1) + 1 : SubSeq(t, at + 1, n)[i] = t[at + 1 + i - 1]
      <4> HIDE DEF n
      <4> QED BY <1>1, <2>1, SubSeqFacts
    <3> QED BY <2>1, <3>1
  <2>3. \A i \in 1 .. n - at : at + 1 + i - 1 = at + i
    BY <1>1
  <2> HIDE DEF q
  <2> QED BY <2>2, <2>3
<1> HIDE DEF p, q
<1>4. at = Len(p) + 1
  BY <1>1, <1>2
<1>5. /\ w \in Seq(S) /\ Len(w) = at + Len(q) /\ w[at] = "@"
      /\ (\A i \in 1 .. Len(p) : w[i] = p[i]) /\ \A i \in 1 .. Len(q) : w[at + i] = q[i]
  <2>1. p \in Seq(S) /\ q \in Seq(S) /\ w = AddressOf(p, q)
    BY <1>2, <1>3
  <2> HIDE DEF w
  <2>2. Parted(S, w, at, p, q)
    <3>1. "@" \in S
      OBVIOUS
    <3> QED BY <1>4, <2>1, <3>1, PartsOf
  <2> QED BY <2>2 DEF Parted
<1> HIDE DEF w
<1>6. \A i \in 1 .. n : w[i] = t[i]
  <2> SUFFICES ASSUME NEW i \in 1 .. n PROVE w[i] = t[i]
    OBVIOUS
  <2>1. CASE i < at
    <3>1. i \in 1 .. at - 1
      BY <1>1, <2>1
    <3> QED BY <1>2, <1>5, <3>1
  <2>2. CASE i = at
    BY <1>5, <2>2
  <2>3. CASE i > at
    <3>1. i - at \in 1 .. n - at /\ at + (i - at) = i
      BY <1>1, <2>3
    <3> QED BY <1>3, <1>5, <3>1
  <2> QED BY <1>1, <2>1, <2>2, <2>3
<1>7. w = t
  <2>1. Len(w) = n
    BY <1>1, <1>3, <1>5
  <2> QED BY <1>5, <1>6, <2>1, SameSeq DEF n
<1> QED BY <1>2, <1>3, <1>7 DEF p, q, w, n

----------------------------------------------------------------------------
(* Canon *)

\* The two parts of an addr-spec the canonical form is made of.
Splits(S, spec, local, domain) ==
    /\ local \in Seq(S) /\ domain \in Seq(S) /\ spec = AddressOf(local, domain)
    /\ Scan(spec).at = Len(local) + 1 /\ ~Scan(spec).quoted
    /\ Len(local) \in 1 .. MaxLocal /\ Len(domain) \in Nat \ {0}
    /\ \A i \in 1 .. Len(domain) : domain[i] \notin Blank
    /\ <<>> \notin ToSet(Split(DomainToAscii(domain), "."))

Bounded(raw) == Len(raw) <= MaxAddress /\ \A i \in 1 .. Len(raw) : raw[i] # "TAB"

CanonOf(local, domain) ==
    [ok |-> TRUE, local |-> Cased(StripFormat(local), IsQuoted(local)), domain |-> DomainToAscii(domain)]

\* What Canon refuses.
Refused(raw, spec, local, domain) ==
    \/ Len(raw) > MaxAddress \/ "TAB" \in ToSet(raw)
    \/ spec = <<>> \/ Scan(spec).quoted \/ Scan(spec).at = 0
    \/ local = <<>> \/ Len(local) > MaxLocal
    \/ domain = <<>> \/ ToSet(domain) \cap Blank # {}
    \/ <<>> \in ToSet(Split(DomainToAscii(domain), "."))

LocalOf(spec) == SubSeq(spec, 1, Scan(spec).at - 1)
DomainOf(spec) == SubSeq(spec, Scan(spec).at + 1, Len(spec))

CanonOfSpec(raw, spec) ==
    IF Refused(raw, spec, LocalOf(spec), DomainOf(spec)) THEN NotAnAddress
    ELSE CanonOf(LocalOf(spec), DomainOf(spec))

LEMMA CanonCases == \A given : Canon(given) = CanonOfSpec(Trim(given, Blank), AddrSpec(Trim(given, Blank)))
  BY Zenon DEF Canon, Refused, CanonOf, CanonOfSpec, LocalOf, DomainOf

LEMMA ToSetIs == ASSUME NEW S, NEW s \in Seq(S) PROVE \A c : c \in ToSet(s) <=> \E i \in 1 .. Len(s) : s[i] = c
<1>1. DOMAIN s = 1 .. Len(s)
  OBVIOUS
<1> QED BY <1>1 DEF ToSet

LEMMA EmptySeq == ASSUME NEW S, NEW s \in Seq(S) PROVE (s = <<>> <=> Len(s) = 0) /\ Len(s) \in Nat
  OBVIOUS

LEMMA CanonSplits ==
    ASSUME NEW S, "@" \in S, NEW given \in Seq(S), Canon(given).ok,
           NEW raw, raw = Trim(given, Blank), NEW spec, spec = AddrSpec(raw),
           NEW local, local = LocalOf(spec), NEW domain, domain = DomainOf(spec)
    PROVE  /\ Canon(given) = CanonOf(local, domain)
           /\ raw \in Seq(S) /\ spec \in Seq(S)
           /\ Bounded(raw) /\ Splits(S, spec, local, domain)
<1>1. ~Refused(raw, spec, local, domain) /\ Canon(given) = CanonOf(local, domain)
  <2>1. NotAnAddress.ok = FALSE
    BY DEF NotAnAddress
  <2>2. Canon(given) = IF Refused(raw, spec, local, domain) THEN NotAnAddress ELSE CanonOf(local, domain)
    <3>1. Canon(given) = CanonOfSpec(raw, spec)
      BY CanonCases
    <3> QED BY <3>1 DEF CanonOfSpec
  <2> QED BY <2>1, <2>2
<1>2. raw \in Seq(S)
  BY TrimFacts
<1>3. spec \in Seq(S)
  BY <1>2, AddrSpecFacts
<1> DEFINE at == Scan(spec).at
<1>4. at \in 0 .. Len(spec) /\ (at # 0 => spec[at] = "@") /\ at # 0 /\ ~Scan(spec).quoted
  BY <1>1, <1>3, MarksFacts DEF Refused
<1>5. local = SubSeq(spec, 1, at - 1) /\ domain = SubSeq(spec, at + 1, Len(spec))
  BY DEF LocalOf, DomainOf
<1> HIDE DEF at
<1>6. at \in 1 .. Len(spec)
  BY <1>3, <1>4
<1>7. /\ spec = AddressOf(local, domain) /\ local \in Seq(S) /\ Len(local) = at - 1
      /\ domain \in Seq(S) /\ Len(domain) = Len(spec) - at
  <2>1. /\ spec = AddressOf(SubSeq(spec, 1, at - 1), SubSeq(spec, at + 1, Len(spec)))
        /\ SubSeq(spec, 1, at - 1) \in Seq(S) /\ Len(SubSeq(spec, 1, at - 1)) = at - 1
        /\ SubSeq(spec, at + 1, Len(spec)) \in Seq(S)
        /\ Len(SubSeq(spec, at + 1, Len(spec))) = Len(spec) - at
    <3>1. spec[at] = "@" /\ "@" \in S
      BY <1>4
    <3> QED BY <1>3, <1>6, <3>1, WholeOf
  <2> QED BY <1>5, <2>1, Zenon
<1>8. local # <<>> /\ domain # <<>> /\ ~(Len(local) > MaxLocal) /\ ToSet(domain) \cap Blank = {}
      /\ <<>> \notin ToSet(Split(DomainToAscii(domain), "."))
      /\ ~(Len(raw) > MaxAddress) /\ "TAB" \notin ToSet(raw)
  BY <1>1 DEF Refused
<1>9. Len(local) # 0 /\ Len(domain) # 0 /\ Len(local) \in Nat /\ Len(domain) \in Nat
  BY <1>7, <1>8, EmptySeq
<1>10. Bounded(raw)
  BY <1>2, <1>8, AddressAssumption, ToSetIs DEF Bounded
<1>11. \A i \in 1 .. Len(domain) : domain[i] \notin Blank
  BY <1>7, <1>8, ToSetIs
<1>12. Len(local) \in 1 .. MaxLocal /\ Len(domain) \in Nat \ {0} /\ at = Len(local) + 1
  <2> DEFINE l == Len(local)
             d == Len(domain)
  <2>1. l # 0 /\ l \in Nat /\ d # 0 /\ d \in Nat /\ ~(l > MaxLocal) /\ MaxLocal \in Nat
    BY <1>8, <1>9, AddressAssumption
  <2>2. at \in Nat /\ l = at - 1
    <3>1. Len(spec) \in Nat
      BY <1>3
    <3>2. at \in Nat
      BY <1>6, <3>1
    <3>3. l = at - 1
      BY <1>7, Zenon
    <3> QED BY <3>2, <3>3
  <2> HIDE DEF l, d
  <2>3. l \in 1 .. MaxLocal /\ d \in Nat \ {0} /\ at = l + 1
    BY <2>1, <2>2
  <2> QED BY <2>3 DEF l, d
<1>13. Splits(S, spec, local, domain)
  BY <1>4, <1>7, <1>8, <1>11, <1>12 DEF Splits, at
<1> QED BY <1>1, <1>2, <1>3, <1>10, <1>13

LEMMA SplitsCanon ==
    ASSUME NEW S, "@" \in S, NEW given \in Seq(S),
           NEW raw, raw = Trim(given, Blank), NEW spec, spec = AddrSpec(raw),
           NEW local, NEW domain, Bounded(raw), Splits(S, spec, local, domain)
    PROVE  /\ Canon(given) = CanonOf(local, domain)
           /\ LocalOf(spec) = local /\ DomainOf(spec) = domain
<1> DEFINE at == Scan(spec).at
<1>1. /\ local \in Seq(S) /\ domain \in Seq(S) /\ spec = AddressOf(local, domain)
      /\ at = Len(local) + 1 /\ ~Scan(spec).quoted
      /\ Len(local) \in 1 .. MaxLocal /\ Len(domain) \in Nat \ {0}
      /\ \A i \in 1 .. Len(domain) : domain[i] \notin Blank
      /\ <<>> \notin ToSet(Split(DomainToAscii(domain), "."))
  BY DEF Splits
<1> HIDE DEF at
<1>2. Parted(S, spec, at, local, domain)
  BY <1>1, PartsOf
<1>3. SubSeq(spec, 1, at - 1) = local /\ SubSeq(spec, at + 1, Len(spec)) = domain /\ Len(spec) = at + Len(domain)
  BY <1>2 DEF Parted
<1>4. raw \in Seq(S) /\ Len(raw) \in Nat
  BY TrimFacts
<1>5. ~Refused(raw, spec, local, domain)
  <2>1. "TAB" \notin ToSet(raw) /\ ~(Len(raw) > MaxAddress)
    BY <1>4, AddressAssumption, ToSetIs DEF Bounded
  <2>2. ToSet(domain) \cap Blank = {}
    BY <1>1, ToSetIs
  <2>3. local # <<>> /\ domain # <<>> /\ spec # <<>> /\ at # 0 /\ ~(Len(local) > MaxLocal)
    BY <1>1, <1>3, AddressAssumption
  <2> QED BY <1>1, <2>1, <2>2, <2>3 DEF Refused, at
<1>6. Canon(given) = CanonOf(local, domain)
  <2>1. local = SubSeq(spec, 1, Scan(spec).at - 1) /\ domain = SubSeq(spec, Scan(spec).at + 1, Len(spec))
    BY <1>3 DEF at
  <2>2. Canon(given) = IF Refused(raw, spec, local, domain) THEN NotAnAddress ELSE CanonOf(local, domain)
    <3>1. Canon(given) = CanonOfSpec(raw, spec)
      BY CanonCases
    <3>2. LocalOf(spec) = local /\ DomainOf(spec) = domain
      BY <2>1 DEF LocalOf, DomainOf
    <3> QED BY <3>1, <3>2 DEF CanonOfSpec
  <2> QED BY <1>5, <2>2
<1> QED BY <1>3, <1>6 DEF at, LocalOf, DomainOf

\* The text of a canonical form is that of its two parts.
LEMMA AsTextIs ==
    ASSUME NEW S, "@" \in S, NEW address, address.local \in Seq(S), address.domain \in Seq(S)
    PROVE  AsText(address) = AddressOf(address.local, address.domain)
<1> DEFINE l == address.local
           d == address.domain
           s == <<"@">>
<1>1. l \in Seq(S) /\ d \in Seq(S)
  OBVIOUS
<1> HIDE DEF l, d
<1>2. l \o s = With(l, "@")
  BY <1>1 DEF With
<1>3. AsText(address) = (l \o s) \o d
  BY DEF AsText, l, d
<1> QED BY <1>2, <1>3 DEF AddressOf, Plus, l, d

LEMMA DomainFacts ==
    ASSUME NEW S, Lettered(S), NEW domain \in Seq(S), NEW d, d = DomainToAscii(domain),
           <<>> \notin ToSet(Split(d, "."))
    PROVE  /\ d \in Seq(S) /\ Len(d) \in 1 .. Len(domain) /\ Len(d) = Len(StripFormat(domain))
           /\ \A i \in 1 .. Len(d) : /\ Alike(d[i], StripFormat(domain)[i]) /\ d[i] # "ZW"
                                     /\ \E j \in 1 .. Len(domain) : d[i] = Small(domain[j])
           /\ DomainToAscii(d) = d
<1> DEFINE v == StripFormat(domain)
           n == Len(v)
<1>1. /\ v \in Seq(S) /\ n \in 0 .. Len(domain)
      /\ \A i \in 1 .. n : v[i] # "ZW" /\ \E j \in 1 .. Len(domain) : v[i] = domain[j]
  BY StripFacts
<1>2. d = Folded(v)
  BY DEF DomainToAscii
<1> HIDE DEF v
<1>3. d \in Seq(S) /\ Len(d) = n /\ \A i \in 1 .. n : d[i] = Small(v[i])
  BY <1>1, <1>2, FoldedFacts
<1>4. \A i \in 1 .. n : Alike(d[i], v[i]) /\ d[i] # "ZW"
  BY <1>1, <1>3, SmallFacts
<1>5. \A i \in 1 .. n : \E j \in 1 .. Len(domain) : d[i] = Small(domain[j])
  BY <1>1, <1>3
<1>6. Len(domain) \in Nat
  OBVIOUS
<1> HIDE DEF n
<1>7. n # 0
  <2> SUFFICES ASSUME n = 0 PROVE FALSE
    OBVIOUS
  <2>1. d = <<>>
    BY <1>3, EmptySeq
  <2> DEFINE none == d
             pieces == Split(d, ".")
  <2>2. Free(d, ".")
    BY <1>3 DEF Free
  <2>3. pieces = <<d>>
    BY <1>3, <2>2, SplitFree
  <2>4. <<d>>[1] = d /\ 1 \in DOMAIN <<d>>
    OBVIOUS
  <2> HIDE DEF pieces
  <2>5. d \in ToSet(pieces)
    BY <2>3, <2>4 DEF ToSet
  <2> QED BY <2>1, <2>5 DEF pieces
<1>8. DomainToAscii(d) = d
  <2>1. StripFormat(d) = d
    BY <1>3, <1>4, StripAll
  <2>2. Folded(d) = d
    BY <1>1, <1>2, FoldedTwice
  <2> QED BY <2>1, <2>2 DEF DomainToAscii
<1>9. n \in 1 .. Len(domain)
  BY <1>1, <1>6, <1>7
<1> QED BY <1>3, <1>4, <1>5, <1>8, <1>9 DEF n, v

\* The outer quotes are seen.
LEMMA QuotedStripped ==
    ASSUME NEW S, NEW text \in Seq(S), IsQuoted(text)
    PROVE  IsQuoted(StripFormat(text))
<1> DEFINE n == Len(text)
           inner == SubSeq(text, 2, n - 1)
           open == With(<<>>, Quote)
           rest == With(inner, Quote)
           whole == Plus(open, rest)
<1>1. n \in Nat /\ n >= 2 /\ text[1] = Quote /\ text[n] = Quote /\ Quote \in S
  <2>1. n \in Nat /\ n >= 2 /\ Head(text) = Quote /\ Last(text) = Quote
    BY DEF IsQuoted
  <2>2. Head(text) = text[1] /\ Last(text) = text[n] /\ 1 \in 1 .. n
    BY <2>1 DEF Last
  <2> QED BY <2>1, <2>2
<1>2. inner \in Seq(S) /\ Len(inner) = n - 2 /\ \A i \in 1 .. n - 2 : inner[i] = text[i + 1]
  <2>1. 2 \in Nat /\ n - 1 \in Nat /\ 1 <= 2 /\ 2 <= (n - 1) + 1 /\ n - 1 <= Len(text) /\ (n - 1) - 2 + 1 = n - 2
    BY <1>1
  <2>2. /\ inner \in Seq(S) /\ Len(inner) = (n - 1) - 2 + 1
        /\ \A i \in 1 .. (n - 1) - 2 + 1 : inner[i] = text[2 + i - 1]
    BY <2>1, SubSeqFacts
  <2>3. \A i \in 1 .. n - 2 : 2 + i - 1 = i + 1
    BY <1>1
  <2> HIDE DEF inner
  <2> QED BY <2>1, <2>2, <2>3
<1>3. <<>> \in Seq(S) /\ Len(<<>>) = 0
  OBVIOUS
<1>4. open \in Seq(S) /\ Len(open) = 1 /\ open[1] = Quote
  BY <1>1, <1>3, AppendFacts DEF With
<1> HIDE DEF inner, open
<1>5. rest \in Seq(S) /\ Len(rest) = n - 1 /\ rest[n - 1] = Quote /\ \A i \in 1 .. n - 2 : rest[i] = inner[i]
  <2>1. n - 2 + 1 = n - 1
    BY <1>1
  <2> QED BY <1>1, <1>2, <2>1, AppendFacts DEF With
<1> HIDE DEF rest
<1>6. ASSUME NEW p \in Seq(S), Len(p) \in Nat
      PROVE  LET u == Plus(open, With(p, Quote)) IN
             /\ u \in Seq(S) /\ Len(u) = Len(p) + 2 /\ u[1] = Quote /\ u[Len(p) + 2] = Quote
             /\ \A i \in 1 .. Len(p) : u[i + 1] = p[i]
  <2> DEFINE b == With(p, Quote)
             u == open \o b
  <2>1. b \in Seq(S) /\ Len(b) = Len(p) + 1 /\ b[Len(p) + 1] = Quote /\ \A i \in 1 .. Len(p) : b[i] = p[i]
    BY <1>1, <1>6, AppendFacts DEF With
  <2> HIDE DEF b
  <2>2. /\ u \in Seq(S) /\ Len(u) = Len(open) + Len(b) /\ (\A i \in 1 .. Len(open) : u[i] = open[i])
        /\ \A i \in 1 .. Len(b) : u[Len(open) + i] = b[i]
    <3>1. open \in Seq(S) /\ b \in Seq(S)
      BY <1>4, <2>1
    <3> QED BY <3>1, ConcatFacts
  <2> HIDE DEF u
  <2>3. Len(u) = Len(p) + 2 /\ u[1] = Quote
    BY <1>4, <1>6, <2>1, <2>2
  <2>4. u[Len(p) + 2] = Quote
    <3>1. Len(p) + 1 \in 1 .. Len(b) /\ 1 + (Len(p) + 1) = Len(p) + 2
      BY <1>6, <2>1
    <3> QED BY <1>4, <2>1, <2>2, <3>1
  <2>5. \A i \in 1 .. Len(p) : u[i + 1] = p[i]
    <3>1. \A i \in 1 .. Len(p) : i \in 1 .. Len(b) /\ 1 + i = i + 1
      BY <1>6, <2>1
    <3> QED BY <1>4, <2>1, <2>2, <3>1
  <2> QED BY <2>2, <2>3, <2>4, <2>5 DEF u, b, Plus
<1>7. whole = text
  <2>1. /\ whole \in Seq(S) /\ Len(whole) = n /\ whole[1] = Quote /\ whole[n] = Quote
        /\ \A i \in 1 .. n - 2 : whole[i + 1] = inner[i]
    <3>1. Len(inner) \in Nat /\ (n - 2) + 2 = n
      BY <1>1, <1>2
    <3> QED BY <1>2, <1>6, <3>1 DEF rest
  <2> HIDE DEF whole
  <2>2. \A i \in 1 .. n : whole[i] = text[i]
    <3> SUFFICES ASSUME NEW i \in 1 .. n PROVE whole[i] = text[i]
      OBVIOUS
    <3>1. CASE i = 1 \/ i = n
      BY <1>1, <2>1, <3>1
    <3>2. CASE i # 1 /\ i # n
      <4>1. i - 1 \in 1 .. n - 2 /\ (i - 1) + 1 = i
        BY <1>1, <3>2
      <4> QED BY <1>2, <2>1, <4>1
    <3> QED BY <3>1, <3>2
  <2> QED BY <2>1, <2>2, SameSeq DEF n
<1> DEFINE v == StripFormat(inner)
<1>8. v \in Seq(S) /\ Len(v) \in Nat
  BY <1>2, StripFacts
<1>9. StripFormat(text) = Plus(open, With(v, Quote))
  <2>1. "ZW" # Quote
    BY DEF Quote
  <2>2. StripFormat(rest) = With(v, Quote)
    BY <1>1, <1>2, <2>1, StripMore DEF rest
  <2>3. StripFormat(open) = open
    BY <1>1, <1>3, <2>1, StripMore, StripNothing DEF open
  <2>4. StripFormat(Plus(open, rest)) = Plus(StripFormat(open), StripFormat(rest))
    BY <1>4, <1>5, StripPlus
  <2> QED BY <1>7, <2>2, <2>3, <2>4
<1> HIDE DEF v
<1> DEFINE w == StripFormat(text)
<1>10. w \in Seq(S) /\ Len(w) = Len(v) + 2 /\ w[1] = Quote /\ w[Len(v) + 2] = Quote
  BY <1>6, <1>8, <1>9
<1> HIDE DEF w
<1>11. Len(w) >= 2 /\ Head(w) = w[1] /\ Last(w) = w[Len(w)]
  BY <1>8, <1>10 DEF Last
<1> QED BY <1>10, <1>11 DEF IsQuoted, w

LEMMA LocalFacts ==
    ASSUME NEW S, Lettered(S), NEW local \in Seq(S),
           NEW l, l = Cased(StripFormat(local), IsQuoted(local))
    PROVE  /\ l \in Seq(S) /\ Len(l) \in 0 .. Len(local) /\ Len(l) = Len(StripFormat(local))
           /\ \A i \in 1 .. Len(l) : /\ Alike(l[i], StripFormat(local)[i]) /\ l[i] # "ZW"
                                     /\ \E j \in 1 .. Len(local) : l[i] \in {local[j], Small(local[j])}
           /\ Cased(StripFormat(l), IsQuoted(l)) = l
<1> DEFINE v == StripFormat(local)
           n == Len(v)
           f == Folded(v)
<1>1. /\ v \in Seq(S) /\ n \in 0 .. Len(local)
      /\ \A i \in 1 .. n : v[i] # "ZW" /\ \E j \in 1 .. Len(local) : v[i] = local[j]
  BY StripFacts
<1>2. l = IF IsQuoted(local) THEN v ELSE f
  BY DEF Cased
<1>3. IsQuoted(local) => IsQuoted(v)
  BY QuotedStripped
<1> HIDE DEF v
<1>4. f \in Seq(S) /\ Len(f) = n /\ \A i \in 1 .. n : f[i] = Small(v[i])
  BY <1>1, FoldedFacts
<1>5. Folded(f) = f
  BY <1>1, FoldedTwice
<1> HIDE DEF f, n
<1>6. l \in Seq(S) /\ Len(l) = n /\ \A i \in 1 .. n : l[i] \in {v[i], Small(v[i])}
  BY <1>1, <1>2, <1>4 DEF n
<1>7. \A i \in 1 .. n : Alike(l[i], v[i]) /\ l[i] # "ZW"
  <2>1. \A c : Alike(c, c)
    BY DEF Alike
  <2>2. \A c, e : e \in {c, Small(c)} => Alike(e, c) /\ (e = "ZW" <=> c = "ZW")
    BY <2>1, SmallFacts
  <2> QED BY <1>1, <1>6, <2>2
<1>8. \A i \in 1 .. n : \E j \in 1 .. Len(local) : l[i] \in {local[j], Small(local[j])}
  BY <1>1, <1>6
<1>9. StripFormat(l) = l
  BY <1>6, <1>7, StripAll
<1>10. Cased(l, IsQuoted(l)) = l
  <2>1. CASE IsQuoted(local)
    BY <1>2, <1>3, <2>1 DEF Cased
  <2>2. CASE ~IsQuoted(local)
    BY <1>2, <1>5, <2>2 DEF Cased
  <2> QED BY <2>1, <2>2
<1> QED BY <1>1, <1>6, <1>7, <1>8, <1>9, <1>10 DEF n, v

\* What the text t of l and d keeps of spec.
IsCanonical(S, spec, local, domain, l, d, t) ==
    /\ Splits(S, t, l, d) /\ CanonOf(l, d) = CanonOf(local, domain)
    /\ t \in Seq(S) /\ Len(t) \in 0 .. Len(spec)
    /\ \A i \in 1 .. Len(t) :
            t[i] # "ZW" /\ \E j \in 1 .. Len(spec) : t[i] \in {spec[j], Small(spec[j])}
    /\ t[1] = l[1] /\ t[Len(t)] \notin Blank

\* The canonical form splits where it was joined.
LEMMA CanonicalSplits ==
    ASSUME NEW S, "@" \in S, Lettered(S), NEW spec \in Seq(S), NEW local, NEW domain,
           Splits(S, spec, local, domain), ~Hides(spec),
           NEW l, l = Cased(StripFormat(local), IsQuoted(local)), Len(l) # 0,
           NEW d, d = DomainToAscii(domain), NEW t, t = AddressOf(l, d)
    PROVE  IsCanonical(S, spec, local, domain, l, d, t)
<1> DEFINE v == StripFormat(local)
           w == StripFormat(domain)
           z == AddressOf(v, w)
           at == Len(l) + 1
           from == Len(local) + 1
<1>1. /\ local \in Seq(S) /\ domain \in Seq(S) /\ spec = AddressOf(local, domain)
      /\ Scan(spec).at = from /\ ~Scan(spec).quoted
      /\ Len(local) \in 1 .. MaxLocal /\ Len(domain) \in Nat \ {0}
      /\ \A i \in 1 .. Len(domain) : domain[i] \notin Blank
      /\ <<>> \notin ToSet(Split(d, "."))
  BY DEF Splits
<1>2. v \in Seq(S) /\ w \in Seq(S)
  BY <1>1, StripFacts
<1>3. /\ l \in Seq(S) /\ Len(l) \in 0 .. Len(local) /\ Len(l) = Len(v)
      /\ \A i \in 1 .. Len(l) : /\ Alike(l[i], v[i]) /\ l[i] # "ZW"
                                /\ \E j \in 1 .. Len(local) : l[i] \in {local[j], Small(local[j])}
      /\ Cased(StripFormat(l), IsQuoted(l)) = l
  BY <1>1, LocalFacts
<1>4. /\ d \in Seq(S) /\ Len(d) \in 1 .. Len(domain) /\ Len(d) = Len(w)
      /\ \A i \in 1 .. Len(d) : /\ Alike(d[i], w[i]) /\ d[i] # "ZW"
                                /\ \E j \in 1 .. Len(domain) : d[i] = Small(domain[j])
      /\ DomainToAscii(d) = d
  BY <1>1, DomainFacts
<1>5. StripFormat(spec) = z /\ StripFormat(With(local, "@")) = With(v, "@") /\ With(local, "@") \in Seq(S)
  <2>1. StripFormat(With(local, "@")) = With(v, "@")
    BY <1>1, StripMore
  <2>2. With(local, "@") \in Seq(S)
    BY <1>1, PlusWithType
  <2>3. StripFormat(Plus(With(local, "@"), domain)) = Plus(StripFormat(With(local, "@")), w)
    BY <1>1, <2>2, StripPlus
  <2> QED BY <1>1, <2>1, <2>2, <2>3 DEF AddressOf
<1> HIDE DEF v, w, z
<1>6. Parted(S, spec, from, local, domain)
  BY <1>1, PartsOf
<1>7. Parted(S, t, at, l, d)
  BY <1>3, <1>4, PartsOf
<1>8. Parted(S, z, at, v, w)
  <2>1. at = Len(v) + 1
    BY <1>3
  <2> HIDE DEF at
  <2> QED BY <1>2, <2>1, PartsOf DEF z
<1>9. Len(l) \in Nat /\ Len(d) \in Nat /\ at \in Nat /\ at # 0 /\ Len(t) = at + Len(d) /\ Len(z) = at + Len(d)
      /\ Len(local) \in Nat /\ from \in Nat /\ from # 0
  BY <1>1, <1>3, <1>4, <1>7, <1>8 DEF Parted
<1>10. \A i \in 1 .. Len(t) : i \in 1 .. Len(l) \/ i = at \/ (i - at \in 1 .. Len(d) /\ at + (i - at) = i)
  BY <1>9
<1>11. /\ (\A i \in 1 .. Len(l) : t[i] = l[i] /\ z[i] = v[i])
       /\ t[at] = "@" /\ z[at] = "@"
       /\ \A i \in 1 .. Len(d) : t[at + i] = d[i] /\ z[at + i] = w[i]
  BY <1>3, <1>4, <1>7, <1>8 DEF Parted
<1>12. /\ (\A i \in 1 .. Len(local) : spec[i] = local[i]) /\ spec[from] = "@"
       /\ (\A i \in 1 .. Len(domain) : spec[from + i] = domain[i])
       /\ Len(spec) = from + Len(domain)
  BY <1>6 DEF Parted
<1> HIDE DEF at, from
<1>13. \A i \in 1 .. Len(t) : Alike(t[i], z[i])
  <2>1. Alike("@", "@")
    BY DEF Alike
  <2>2. \A i \in 1 .. Len(t) :
            \/ i \in 1 .. Len(l) /\ t[i] = l[i] /\ z[i] = v[i]
            \/ t[i] = "@" /\ z[i] = "@"
            \/ i - at \in 1 .. Len(d) /\ t[i] = d[i - at] /\ z[i] = w[i - at]
    BY <1>10, <1>11
  <2> QED BY <1>3, <1>4, <2>1, <2>2
<1>14. Scan(t).at = at /\ ~Scan(t).quoted
  <2>1. t \in Seq(S) /\ z \in Seq(S) /\ Len(t) = Len(z)
    BY <1>7, <1>8, <1>9 DEF Parted
  <2>2. Scan(t) = Scan(z)
    BY <1>13, <2>1, ScanAlike
  <2>3. Scan(z).quoted = Scan(spec).quoted /\ Scan(z).at = SeenAt(spec, from)
    BY <1>1, <1>5, ScanStripped
  <2>4. SubSeq(spec, 1, from) = With(local, "@")
    BY <1>6 DEF Parted
  <2>5. SeenAt(spec, from) = Len(With(v, "@"))
    BY <1>5, <1>9, <2>4 DEF SeenAt
  <2>6. Len(With(v, "@")) = at
    BY <1>2, <1>3, PlusWithType DEF at
  <2> QED BY <1>1, <2>2, <2>3, <2>5, <2>6
<1>15. \A i \in 1 .. Len(t) :
            t[i] # "ZW" /\ \E j \in 1 .. Len(spec) : t[i] \in {spec[j], Small(spec[j])}
  <2>1. \A j \in 1 .. Len(local) : j \in 1 .. Len(spec)
    BY <1>1, <1>9, <1>12 DEF from
  <2>2. \A j \in 1 .. Len(domain) : from + j \in 1 .. Len(spec)
    BY <1>1, <1>9, <1>12
  <2>3. from \in 1 .. Len(spec)
    BY <1>1, <1>9, <1>12
  <2>4. \A i \in 1 .. Len(l) : l[i] # "ZW" /\ \E j \in 1 .. Len(spec) : l[i] \in {spec[j], Small(spec[j])}
    BY <1>3, <1>12, <2>1
  <2>5. \A i \in 1 .. Len(d) : d[i] # "ZW" /\ \E j \in 1 .. Len(spec) : d[i] \in {spec[j], Small(spec[j])}
    <3> SUFFICES ASSUME NEW i \in 1 .. Len(d)
                 PROVE  d[i] # "ZW" /\ \E j \in 1 .. Len(spec) : d[i] \in {spec[j], Small(spec[j])}
      OBVIOUS
    <3>1. PICK k \in 1 .. Len(domain) : d[i] = Small(domain[k])
      BY <1>4
    <3>2. from + k \in 1 .. Len(spec) /\ spec[from + k] = domain[k]
      BY <1>12, <2>2
    <3>3. d[i] \in {spec[from + k], Small(spec[from + k])}
      BY <3>1, <3>2
    <3> QED BY <1>4, <3>2, <3>3
  <2>6. \A i \in 1 .. Len(t) :
            \/ i \in 1 .. Len(l) /\ t[i] = l[i]
            \/ t[i] = "@"
            \/ i - at \in 1 .. Len(d) /\ t[i] = d[i - at]
    BY <1>10, <1>11
  <2>7. "@" # "ZW" /\ \E j \in 1 .. Len(spec) : "@" \in {spec[j], Small(spec[j])}
    BY <1>12, <2>3
  <2> QED BY <2>4, <2>5, <2>6, <2>7
<1>16. Splits(S, t, l, d)
  <2>1. Len(l) \in 1 .. MaxLocal /\ Len(d) \in Nat \ {0}
    BY <1>1, <1>3, <1>4, <1>9, AddressAssumption
  <2>2. \A i \in 1 .. Len(d) : d[i] \notin Blank
    <3>1. \A i \in 1 .. Len(d) : \E j \in 1 .. Len(domain) : d[i] = Small(domain[j])
      BY <1>4
    <3>2. \A j \in 1 .. Len(domain) : domain[j] \notin Blank
      BY <1>1
    <3>3. \A c : Small(c) \in Blank <=> c \in Blank
      BY SmallFacts
    <3> QED BY <3>1, <3>2, <3>3
  <2> QED BY <1>1, <1>3, <1>4, <1>14, <2>1, <2>2 DEF Splits, at
<1>17. Len(t) \in 0 .. Len(spec)
  BY <1>1, <1>3, <1>4, <1>9, <1>12 DEF at, from
<1>18. t[1] = l[1] /\ t[Len(t)] \notin Blank
  <2>1. 1 \in 1 .. Len(l) /\ Len(d) \in 1 .. Len(d)
    BY <1>4, <1>9
  <2>2. t[1] = l[1] /\ t[Len(t)] = d[Len(d)]
    BY <1>9, <1>11, <2>1
  <2>3. d[Len(d)] \notin Blank
    BY <1>1, <1>4, <2>1, SmallFacts
  <2> QED BY <2>2, <2>3
<1>19. t \in Seq(S)
  BY <1>7 DEF Parted
<1>20. CanonOf(l, d) = CanonOf(local, domain)
  BY <1>3, <1>4 DEF CanonOf
<1> QED BY <1>15, <1>16, <1>17, <1>18, <1>19, <1>20 DEF IsCanonical

\* A canonical form is its own canonical form, whatever was written (diamy_addr_canon).
LEMMA EveryCanonIsStable ==
    ASSUME NEW S, "@" \in S, Lettered(S), NEW given \in Seq(S)
    PROVE  CanonIsStable(given)
<1> DEFINE canon == Canon(given)
           raw == Trim(given, Blank)
           spec == AddrSpec(raw)
           local == LocalOf(spec)
           domain == DomainOf(spec)
           l == canon.local
           d == canon.domain
           t == AsText(canon)
<1> SUFFICES ASSUME canon.ok, ~EscapesInvisible(given), l # <<>>, Head(l) \notin Blank,
                    "<" \notin ToSet(t)
             PROVE  Canon(t) = canon
  BY DEF CanonIsStable
<1>1. /\ canon = CanonOf(local, domain) /\ raw \in Seq(S) /\ spec \in Seq(S)
      /\ Bounded(raw) /\ Splits(S, spec, local, domain)
  BY CanonSplits
<1>2. /\ Len(spec) \in 0 .. Len(raw) /\ Len(raw) \in Nat
      /\ \A i \in 1 .. Len(spec) : \E j \in 1 .. Len(raw) : spec[i] = raw[j]
  BY <1>1, AddrSpecFacts
<1>3. ~Hides(spec)
  <2>1. DOMAIN spec = 1 .. Len(spec)
    BY <1>1
  <2> QED BY <2>1 DEF EscapesInvisible, Hides
<1> HIDE DEF raw, spec, local, domain, canon
<1>4. l = Cased(StripFormat(local), IsQuoted(local)) /\ d = DomainToAscii(domain)
  BY <1>1 DEF CanonOf
<1>5. local \in Seq(S) /\ domain \in Seq(S) /\ <<>> \notin ToSet(Split(DomainToAscii(domain), "."))
  BY <1>1 DEF Splits
<1>6. l \in Seq(S) /\ d \in Seq(S)
  BY <1>4, <1>5, LocalFacts, DomainFacts
<1>7. t = AddressOf(l, d) /\ Len(l) # 0
  BY <1>6, AsTextIs, EmptySeq
<1> HIDE DEF l, d, t
<1>8. /\ Splits(S, t, l, d) /\ CanonOf(l, d) = CanonOf(local, domain)
      /\ t \in Seq(S) /\ Len(t) \in 0 .. Len(spec)
      /\ \A i \in 1 .. Len(t) :
            t[i] # "ZW" /\ \E j \in 1 .. Len(spec) : t[i] \in {spec[j], Small(spec[j])}
      /\ t[1] = l[1] /\ t[Len(t)] \notin Blank
  <2>1. IsCanonical(S, spec, local, domain, l, d, t)
    BY <1>1, <1>3, <1>4, <1>7, CanonicalSplits
  <2> QED BY <2>1 DEF IsCanonical
<1>9. Head(l) = l[1]
  BY <1>6, <1>7
<1>10. Trim(t, Blank) = t
  BY <1>8, <1>9, TrimTight DEF Tight
<1>11. AddrSpec(t) = t
  <2>1. \A i \in 1 .. Len(t) : t[i] # "<"
    BY <1>8, ToSetIs
  <2> QED BY <1>8, <2>1, AddrSpecFacts
<1>12. Bounded(t)
  <2>1. Len(t) <= MaxAddress
    BY <1>1, <1>2, <1>8, AddressAssumption DEF Bounded
  <2>2. \A i \in 1 .. Len(t) : t[i] # "TAB"
    <3>1. \A j \in 1 .. Len(spec) : spec[j] # "TAB"
      BY <1>1, <1>2 DEF Bounded
    <3>2. \A c, e : e \in {c, Small(c)} /\ c # "TAB" => e # "TAB"
      BY SmallFacts
    <3> QED BY <1>8, <3>1, <3>2
  <2> QED BY <2>1, <2>2 DEF Bounded
<1>13. Canon(t) = CanonOf(l, d)
  BY <1>8, <1>10, <1>11, <1>12, SplitsCanon
<1> QED BY <1>1, <1>8, <1>13

----------------------------------------------------------------------------
(* The recipient *)

LEMMA ExtractFacts ==
    ASSUME NEW S, NEW line \in Seq(S)
    PROVE  /\ ExtractAddr(line) \in Seq(S) /\ Tight(ExtractAddr(line), Blank)
           /\ \A i \in 1 .. Len(ExtractAddr(line)) :
                /\ ExtractAddr(line)[i] # ">"
                /\ \E j \in 1 .. Len(line) : ExtractAddr(line)[i] = line[j]
<1> DEFINE from == Find(line, "<")
           n == Len(line)
           rest == SubSeq(line, from + 1, n)
           to == Find(rest, ">")
           inner == SubSeq(rest, 1, to - 1)
           x == ExtractAddr(line)
<1>1. n \in Nat /\ from \in 0 .. n
  BY FindFacts
<1>2. x = IF from = 0 THEN <<>> ELSE Trim(inner, Blank)
  BY DEF ExtractAddr
<1> HIDE DEF from, x
<1>3. CASE from = 0
  <2>1. x \in Seq(S) /\ Len(x) = 0
    BY <1>2, <1>3
  <2> QED BY <2>1 DEF x, Tight
<1>4. CASE from # 0
  <2>1. rest \in Seq(S) /\ Len(rest) = n - from /\ \A i \in 1 .. n - from : rest[i] = line[from + i]
    <3>1. from + 1 \in Nat /\ 1 <= from + 1 /\ from + 1 <= n + 1 /\ n <= Len(line) /\ n - (from + 1) + 1 = n - from
      BY <1>1
    <3>2. /\ rest \in Seq(S) /\ Len(rest) = n - (from + 1) + 1
          /\ \A i \in 1 .. n - (from + 1) + 1 : rest[i] = line[from + 1 + i - 1]
      BY <1>1, <3>1, SubSeqFacts
    <3>3. \A i \in 1 .. n - from : from + 1 + i - 1 = from + i
      BY <1>1
    <3> HIDE DEF rest
    <3> QED BY <3>1, <3>2, <3>3
  <2>2. \A i \in 1 .. n - from : from + i \in 1 .. n
    BY <1>1
  <2> HIDE DEF rest
  <2>3. /\ to \in 0 .. Len(rest)
        /\ \A i \in 1 .. Len(rest) : rest[i] = ">" => to # 0 /\ to <= i
    BY <2>1, FindFacts
  <2> HIDE DEF to
  <2>4. /\ inner \in Seq(S) /\ Len(inner) \in 0 .. Len(rest)
        /\ \A i \in 1 .. Len(inner) : i < to /\ inner[i] = rest[i]
    <3>1. CASE to = 0
      <4>1. inner = <<>>
        BY <2>1, <3>1
      <4> HIDE DEF inner
      <4>2. inner \in Seq(S) /\ Len(inner) = 0
        BY <4>1
      <4>3. Len(rest) \in Nat
        BY <2>1
      <4> QED BY <4>2, <4>3
    <3>2. CASE to # 0
      <4>1. to - 1 \in Nat /\ to - 1 <= Len(rest) /\ to - 1 < to
        BY <1>1, <2>1, <2>3, <3>2
      <4>2. inner \in Seq(S) /\ Len(inner) = to - 1 /\ \A i \in 1 .. to - 1 : inner[i] = rest[i]
        BY <2>1, <4>1
      <4> HIDE DEF inner
      <4>3. Len(rest) \in Nat /\ to \in Nat
        BY <2>1, <2>3
      <4> DEFINE k == Len(inner)
      <4>4. k = to - 1
        BY <4>2
      <4> HIDE DEF k
      <4>5. k \in 0 .. Len(rest) /\ \A i \in 1 .. k : i < to /\ i \in 1 .. to - 1
        BY <4>1, <4>3, <4>4
      <4> QED BY <4>2, <4>5 DEF k
    <3> QED BY <3>1, <3>2
  <2> HIDE DEF inner
  <2>5. \A i \in 1 .. Len(inner) : inner[i] # ">" /\ \E j \in 1 .. n : inner[i] = line[j]
    <3> SUFFICES ASSUME NEW i \in 1 .. Len(inner)
                 PROVE  inner[i] # ">" /\ \E j \in 1 .. n : inner[i] = line[j]
      OBVIOUS
    <3>1. i \in 1 .. Len(rest) /\ i < to /\ inner[i] = rest[i] /\ i \in Int /\ to \in Int
      BY <1>1, <2>1, <2>3, <2>4
    <3>2. inner[i] # ">"
      BY <2>3, <3>1
    <3>3. rest[i] = line[from + i] /\ from + i \in 1 .. n
      BY <2>1, <2>2, <3>1
    <3> QED BY <3>1, <3>2, <3>3
  <2>6. /\ x \in Seq(S) /\ Tight(x, Blank)
        /\ \A i \in 1 .. Len(x) : \E j \in 1 .. Len(inner) : x[i] = inner[j]
    BY <1>2, <1>4, <2>4, TrimFacts
  <2> HIDE DEF n
  <2>7. \A i \in 1 .. Len(x) : x[i] # ">" /\ \E j \in 1 .. n : x[i] = line[j]
    <3> SUFFICES ASSUME NEW i \in 1 .. Len(x)
                 PROVE  x[i] # ">" /\ \E j \in 1 .. n : x[i] = line[j]
      OBVIOUS
    <3>1. PICK k \in 1 .. Len(inner) : x[i] = inner[k]
      BY <2>6
    <3> QED BY <2>5, <3>1
  <2> QED BY <2>6, <2>7 DEF x, n
<1> QED BY <1>3, <1>4

\* What the bridge writes between the brackets is what diamy-mxd takes out of them.
LEMMA ExtractAgain ==
    ASSUME NEW S, "<" \in S, ">" \in S, NEW t \in Seq(S), Tight(t, Blank),
           \A i \in 1 .. Len(t) : t[i] # ">"
    PROVE  ExtractAddr(<<"<">> \o t \o <<">">>) = t
<1> DEFINE open == <<"<">>
           close == <<">">>
           a == open \o t
           u == a \o close
           m == Len(t)
           rest == SubSeq(u, 2, m + 2)
<1>1. open \in Seq(S) /\ Len(open) = 1 /\ open[1] = "<" /\ close \in Seq(S) /\ Len(close) = 1 /\ close[1] = ">"
      /\ m \in Nat
  OBVIOUS
<1> HIDE DEF open, close
<1>2. /\ a \in Seq(S) /\ Len(a) = Len(open) + m /\ (\A i \in 1 .. Len(open) : a[i] = open[i])
      /\ \A i \in 1 .. m : a[Len(open) + i] = t[i]
  BY <1>1, ConcatFacts
<1> HIDE DEF a
<1>3. /\ u \in Seq(S) /\ Len(u) = Len(a) + Len(close) /\ (\A i \in 1 .. Len(a) : u[i] = a[i])
      /\ \A i \in 1 .. Len(close) : u[Len(a) + i] = close[i]
  <2>1. a \in Seq(S) /\ close \in Seq(S)
    BY <1>1, <1>2
  <2> QED BY <2>1, ConcatFacts
<1> HIDE DEF u
<1>4. /\ u \in Seq(S) /\ Len(u) = m + 2 /\ u[1] = "<" /\ u[m + 2] = ">"
      /\ \A i \in 1 .. m : u[1 + i] = t[i]
  <2>1. Len(a) = m + 1 /\ a[1] = "<" /\ \A i \in 1 .. m : a[1 + i] = t[i]
    BY <1>1, <1>2
  <2>2. 1 \in 1 .. Len(a) /\ 1 \in 1 .. Len(close) /\ (m + 1) + 1 = m + 2 /\ \A i \in 1 .. m : 1 + i \in 1 .. Len(a)
    BY <1>1, <2>1
  <2> QED BY <1>1, <1>3, <2>1, <2>2
<1>5. Find(u, "<") = 1
  <2> DEFINE k == Find(u, "<")
  <2>1. 1 \in 1 .. Len(u)
    BY <1>1, <1>4
  <2>2. k \in 0 .. Len(u) /\ k # 0 /\ k <= 1
    BY <1>4, <2>1, FindFacts
  <2> HIDE DEF k
  <2>3. k = 1
    BY <1>1, <1>4, <2>2
  <2> QED BY <2>3 DEF k
<1>6. /\ rest \in Seq(S) /\ Len(rest) = m + 1 /\ rest[m + 1] = ">"
      /\ \A i \in 1 .. m : rest[i] = t[i]
  <2>1. 2 \in Nat /\ m + 2 \in Nat /\ 1 <= 2 /\ 2 <= (m + 2) + 1 /\ m + 2 <= Len(u) /\ (m + 2) - 2 + 1 = m + 1
    BY <1>1, <1>4
  <2>2. /\ rest \in Seq(S) /\ Len(rest) = (m + 2) - 2 + 1
        /\ \A i \in 1 .. (m + 2) - 2 + 1 : rest[i] = u[2 + i - 1]
    BY <1>4, <2>1, SubSeqFacts
  <2> HIDE DEF rest
  <2>3. Len(rest) = m + 1 /\ \A i \in 1 .. m + 1 : rest[i] = u[1 + i]
    <3>1. \A i \in 1 .. m + 1 : 2 + i - 1 = 1 + i
      BY <1>1
    <3> QED BY <2>1, <2>2, <3>1
  <2>4. m + 1 \in 1 .. m + 1 /\ 1 + (m + 1) = m + 2 /\ \A i \in 1 .. m : i \in 1 .. m + 1
    BY <1>1
  <2> QED BY <1>4, <2>2, <2>3, <2>4
<1> HIDE DEF rest
<1>7. Find(rest, ">") = m + 1
  <2> DEFINE k == Find(rest, ">")
  <2>1. m + 1 \in 1 .. Len(rest)
    BY <1>1, <1>6
  <2>2. k \in 0 .. Len(rest) /\ k # 0 /\ k <= m + 1 /\ rest[k] = ">"
    BY <1>6, <2>1, FindFacts
  <2> HIDE DEF k
  <2>3. k \notin 1 .. m
    BY <1>6, <2>2
  <2>4. k = m + 1
    BY <1>1, <1>6, <2>2, <2>3
  <2> QED BY <2>4 DEF k
<1>8. SubSeq(rest, 1, m) = t
  <2> DEFINE p == SubSeq(rest, 1, m)
  <2>1. p \in Seq(S) /\ Len(p) = m /\ \A i \in 1 .. m : p[i] = rest[i]
    BY <1>1, <1>6
  <2> HIDE DEF p
  <2>2. p = t
    BY <1>6, <2>1, SameSeq DEF m
  <2> QED BY <2>2 DEF p
<1>9. Trim(t, Blank) = t
  BY TrimTight
<1>10. ExtractAddr(u) = Trim(SubSeq(rest, 1, m), Blank)
  <2>1. SubSeq(u, Find(u, "<") + 1, Len(u)) = rest
    BY <1>4, <1>5 DEF rest
  <2>2. Find(rest, ">") - 1 = m /\ Find(u, "<") # 0
    BY <1>1, <1>5, <1>7
  <2> HIDE DEF m
  <2> QED BY <2>1, <2>2 DEF ExtractAddr
<1> QED BY <1>8, <1>9, <1>10 DEF u, a, open, close

\* The recipient the bridge accepts is the one diamy-mxd delivers to, in the domain the
\* bridge tested (handle_smtp_connection, relay_one_recipient, run_command_loop).
LEMMA EveryRecipientIsKept ==
    ASSUME NEW S, {"@", "<", ">"} \subseteq S, Lettered(S), NEW line \in Seq(S)
    PROVE  RecipientIsKept(line)
<1> DEFINE x == ExtractAddr(line)
           accepted == Canon(x)
           raw == Trim(x, Blank)
           spec == AddrSpec(raw)
           local == LocalOf(spec)
           domain == DomainOf(spec)
           l == accepted.local
           d == accepted.domain
           t == AsText(accepted)
           at == Len(l) + 1
<1> SUFFICES ASSUME accepted.ok, "ZW" \notin ToSet(line), Quote \notin ToSet(BridgeDomain(t))
             PROVE  /\ Canon(ExtractAddr(<<"<">> \o t \o <<">">>)) = accepted
                    /\ BridgeDomain(t) = d
                    /\ SubmitdDomain(t) = d <=> "@" \notin ToSet(l)
  BY DEF RecipientIsKept, BridgeRecipient, RelayedRecipient
<1>0. "@" \in S /\ "<" \in S /\ ">" \in S
  OBVIOUS
<1>1. /\ x \in Seq(S) /\ Tight(x, Blank)
      /\ \A i \in 1 .. Len(x) : x[i] # ">" /\ x[i] # "ZW"
  BY ExtractFacts, ToSetIs
<1> HIDE DEF x
<1>2. raw = x
  BY <1>1, TrimTight
<1>3. /\ accepted = CanonOf(local, domain) /\ Bounded(raw) /\ Splits(S, spec, local, domain)
  BY <1>0, <1>1, CanonSplits
<1>4. /\ local \in Seq(S) /\ domain \in Seq(S) /\ spec = AddressOf(local, domain)
      /\ Len(local) \in 1 .. MaxLocal /\ Len(domain) \in Nat \ {0}
      /\ <<>> \notin ToSet(Split(DomainToAscii(domain), "."))
  BY <1>3 DEF Splits
<1> HIDE DEF local, domain, accepted
<1>5. Parted(S, spec, Len(local) + 1, local, domain)
  BY <1>0, <1>4, PartsOf
<1>6. spec = x /\ \A i \in 1 .. Len(x) : x[i] # "<"
  <2>1. spec # <<>>
    <3>1. Len(spec) # 0
      BY <1>4, <1>5 DEF Parted
    <3> QED BY <1>5, <3>1, EmptySeq DEF Parted
  <2> QED BY <1>1, <1>2, <2>1, AddrSpecFacts
<1> HIDE DEF raw, spec
<1>7. /\ ~Hides(spec) /\ ~EscapesInvisible(x)
  <2>1. DOMAIN x = 1 .. Len(x)
    BY <1>1
  <2> QED BY <1>1, <1>6, <2>1 DEF EscapesInvisible, Hides, spec, raw
<1>8. /\ \A i \in 1 .. Len(local) : local[i] = x[i] /\ local[i] # "ZW"
      /\ Len(local) \in Nat \ {0} /\ 1 \in 1 .. Len(local) /\ Len(x) # 0
  <2>1. /\ Len(spec) = Len(local) + 1 + Len(domain) /\ Len(local) \in Nat /\ Len(domain) \in Nat
        /\ \A i \in 1 .. Len(local) : spec[i] = local[i]
    BY <1>5 DEF Parted
  <2>2. \A i \in 1 .. Len(local) : i \in 1 .. Len(x)
    BY <1>6, <2>1
  <2>3. Len(local) # 0 /\ Len(x) # 0
    BY <1>4, <1>6, <2>1
  <2> QED BY <1>1, <1>6, <2>1, <2>2, <2>3
<1>9. l = Cased(local, IsQuoted(local)) /\ l = Cased(StripFormat(local), IsQuoted(local)) /\ d = DomainToAscii(domain)
  BY <1>3, <1>4, <1>8, StripAll DEF CanonOf
<1>10. /\ l \in Seq(S) /\ d \in Seq(S) /\ Len(l) = Len(local) /\ l[1] \in {local[1], Small(local[1])}
  <2>1. l \in Seq(S) /\ d \in Seq(S)
    BY <1>4, <1>9, LocalFacts, DomainFacts
  <2>2. Folded(local) \in Seq(S) /\ Len(Folded(local)) = Len(local) /\ Folded(local)[1] = Small(local[1])
    BY <1>4, <1>8, FoldedFacts
  <2> QED BY <1>9, <2>1, <2>2 DEF Cased
<1>11. l[1] \notin Blank /\ Len(l) # 0
  BY <1>1, <1>8, <1>10, SmallFacts DEF Tight
<1>12. t = AddressOf(l, d)
  BY <1>0, <1>10, AsTextIs
<1> HIDE DEF l, d, t
<1>13. IsCanonical(S, spec, local, domain, l, d, t)
  <2>1. spec \in Seq(S) /\ Splits(S, spec, local, domain)
    BY <1>1, <1>3, <1>6
  <2> QED BY <1>0, <1>7, <1>9, <1>11, <1>12, <2>1, CanonicalSplits
<1>14. Parted(S, t, at, l, d)
  BY <1>0, <1>10, <1>12, PartsOf
<1>15. /\ t \in Seq(S) /\ t[Len(t)] \notin Blank /\ t[1] = l[1]
       /\ Scan(t).at = at /\ ~Scan(t).quoted
  BY <1>13 DEF IsCanonical, Splits
<1>16. \A i \in 1 .. Len(t) : t[i] # "<" /\ t[i] # ">"
  <2>1. \A j \in 1 .. Len(spec) : spec[j] # "<" /\ spec[j] # ">"
    BY <1>1, <1>6
  <2>2. \A c, e : e \in {c, Small(c)} /\ c # "<" /\ c # ">" => e # "<" /\ e # ">"
    BY SmallFacts
  <2>3. \A i \in 1 .. Len(t) : \E j \in 1 .. Len(spec) : t[i] \in {spec[j], Small(spec[j])}
    BY <1>13 DEF IsCanonical
  <2> QED BY <2>1, <2>2, <2>3
<1>17. Canon(t) = accepted
  <2>1. CanonIsStable(x)
    BY <1>0, <1>1, EveryCanonIsStable
  <2>2. l # <<>> /\ Head(l) = l[1]
    BY <1>10, <1>11
  <2>3. "<" \notin ToSet(t)
    BY <1>15, <1>16, ToSetIs
  <2>4. /\ accepted.local = l /\ AsText(accepted) = t /\ accepted = Canon(x)
    BY DEF l, t, accepted
  <2> HIDE DEF accepted
  <2> QED BY <1>7, <1>11, <2>1, <2>2, <2>3, <2>4 DEF CanonIsStable
<1>18. ExtractAddr(<<"<">> \o t \o <<">">>) = t
  <2>1. Tight(t, Blank)
    BY <1>11, <1>15 DEF Tight
  <2> QED BY <1>0, <1>15, <1>16, <2>1, ExtractAgain
<1> DEFINE n == Len(t)
<1>19. /\ at \in Nat /\ at # 0 /\ n = at + Len(d) /\ Len(d) \in Nat /\ n \in Nat /\ t[at] = "@" /\ at \in 1 .. n
       /\ SubSeq(t, at + 1, n) = d
       /\ \A i \in 1 .. Len(l) : t[i] = l[i]
  <2>1. /\ n = at + Len(d) /\ Len(d) \in Nat /\ t[at] = "@" /\ SubSeq(t, at + 1, n) = d /\ at \in Nat
        /\ \A i \in 1 .. Len(l) : t[i] = l[i]
    BY <1>14 DEF Parted
  <2>2. at # 0
    BY <1>10
  <2> HIDE DEF n, at
  <2>3. n \in Nat /\ at \in 1 .. n
    BY <2>1, <2>2
  <2> QED BY <2>1, <2>2, <2>3
<1>20. BridgeDomain(t) = d
  <2> DEFINE f == FindLast(t, "@")
  <2>1. f \in 0 .. n /\ (f # 0 => t[f] = "@") /\ f >= at
    BY <1>15, <1>19, FindLastFacts
  <2>2. BridgeDomain(t) = SubSeq(t, f + 1, n)
    BY DEF BridgeDomain
  <2> HIDE DEF f, at
  <2>3. f = at
    <3> SUFFICES ASSUME f > at PROVE FALSE
      BY <1>19, <2>1
    <3>1. f \in 1 .. n /\ t[f] = "@"
      BY <1>19, <2>1
    <3> DEFINE b == SubSeq(t, f + 1, n)
    <3>2. b \in Seq(S) /\ Len(b) = n - f /\ \A i \in 1 .. n - f : b[i] = t[f + 1 + i - 1]
      <4>1. f + 1 \in Nat /\ 1 <= f + 1 /\ f + 1 <= n + 1 /\ n <= Len(t) /\ n - (f + 1) + 1 = n - f
        BY <1>19, <3>1
      <4>2. /\ b \in Seq(S) /\ Len(b) = n - (f + 1) + 1
            /\ \A i \in 1 .. n - (f + 1) + 1 : b[i] = t[f + 1 + i - 1]
        <5>1. t \in Seq(S) /\ n \in Nat
          BY <1>15, <1>19
        <5> QED BY <4>1, <5>1, SubSeqFacts
      <4> HIDE DEF b
      <4> QED BY <4>1, <4>2
    <3> HIDE DEF b
    <3>3. \A i \in 1 .. Len(b) : b[i] # Quote
      BY <2>2, <3>2, ToSetIs DEF b
    <3>4. \A j \in f .. n : t[j] # Quote
      <4> SUFFICES ASSUME NEW j \in f .. n PROVE t[j] # Quote
        OBVIOUS
      <4>1. "@" # Quote
        BY DEF Quote
      <4>2. CASE j = f
        BY <3>1, <4>1, <4>2
      <4>3. CASE j # f
        <5>1. j - f \in 1 .. n - f /\ f + 1 + (j - f) - 1 = j
          BY <3>1, <4>3
        <5> QED BY <3>2, <3>3, <5>1
      <4> QED BY <4>2, <4>3
    <3>5. Scan(t).quoted
      <4>1. f > Scan(t).at
        BY <1>15
      <4> QED BY <1>15, <3>1, <3>4, <4>1, LateMarkIsQuoted DEF n
    <3> QED BY <1>15, <3>5
  <2> QED BY <1>19, <2>2, <2>3
<1>21. SubmitdDomain(t) = d <=> "@" \notin ToSet(l)
  <2> DEFINE f == Find(t, "@")
  <2>1. /\ f \in 0 .. n /\ f # 0 /\ f <= at /\ t[f] = "@"
        /\ \A i \in 1 .. n : t[i] = "@" => f <= i
    <3>1. t \in Seq(S)
      BY <1>15
    <3>2. /\ f \in 0 .. n /\ (f # 0 => t[f] = "@")
          /\ \A i \in 1 .. n : t[i] = "@" => f # 0 /\ f <= i
      BY <3>1, FindFacts
    <3> HIDE DEF f, n, at
    <3> QED BY <1>19, <3>2
  <2>2. SubmitdDomain(t) = SubSeq(t, f + 1, n)
    BY DEF SubmitdDomain
  <2>3. Len(l) \in Nat /\ \A i \in 1 .. Len(l) : i \in 1 .. n /\ i < at
    BY <1>10, <1>19
  <2>4. \A i \in 1 .. n : i < at => i \in 1 .. Len(l)
    BY <1>10, <1>19
  <2> HIDE DEF f, at, n
  <2>5. ASSUME "@" \in ToSet(l) PROVE SubmitdDomain(t) # d
    <3>1. PICK i \in 1 .. Len(l) : l[i] = "@"
      BY <1>10, <2>5, ToSetIs
    <3>2. f < at
      BY <1>19, <2>1, <2>3, <3>1
    <3>3. Len(SubSeq(t, f + 1, n)) = n - (f + 1) + 1
      <4>1. f + 1 \in Nat /\ n \in Nat /\ 1 <= f + 1 /\ f + 1 <= n + 1 /\ n <= Len(t)
        BY <1>19, <2>1 DEF n
      <4> QED BY <1>15, <4>1, SubSeqFacts
    <3>4. n - (f + 1) + 1 # Len(d)
      BY <1>19, <2>1, <3>2
    <3> QED BY <2>2, <3>3, <3>4
  <2>6. ASSUME "@" \notin ToSet(l) PROVE SubmitdDomain(t) = d
    <3>1. \A i \in 1 .. Len(l) : t[i] # "@"
      BY <1>10, <1>19, <2>6, ToSetIs
    <3>2. f \in 1 .. n
      BY <1>19, <2>1
    <3>3. ~(f < at)
      BY <2>1, <2>4, <3>1, <3>2
    <3>4. f = at
      BY <1>19, <2>1, <3>2, <3>3
    <3> QED BY <1>19, <2>2, <3>4
  <2> QED BY <2>5, <2>6
<1> QED BY <1>17, <1>18, <1>20, <1>21

----------------------------------------------------------------------------
(* The spellings of an address *)

LEMMA SameMore ==
    ASSUME NEW S, NEW a \in Seq(S), NEW b \in Seq(S), NEW x \in S, NEW y \in S, With(a, x) = With(b, y)
    PROVE  a = b /\ x = y
<1> DEFINE p == With(a, x)
           q == With(b, y)
<1>1. p \in Seq(S) /\ Len(p) = Len(a) + 1 /\ p[Len(a) + 1] = x /\ \A i \in 1 .. Len(a) : p[i] = a[i]
  BY AppendFacts DEF With
<1>2. q \in Seq(S) /\ Len(q) = Len(b) + 1 /\ q[Len(b) + 1] = y /\ \A i \in 1 .. Len(b) : q[i] = b[i]
  BY AppendFacts DEF With
<1>3. p = q /\ Len(a) \in Nat /\ Len(b) \in Nat
  OBVIOUS
<1> HIDE DEF p, q
<1>4. Len(a) = Len(b)
  BY <1>1, <1>2, <1>3
<1>5. \A i \in 1 .. Len(a) : a[i] = b[i]
  BY <1>1, <1>2, <1>3, <1>4
<1>6. a = b
  BY <1>4, <1>5, SameSeq
<1> QED BY <1>1, <1>2, <1>3, <1>6

\* A capital is never invisible.
LEMMA FoldedWhenSeen ==
    ASSUME NEW S, Lettered(S), NEW text \in Seq(S)
    PROVE  Folded(StripFormat(text)) = StripFormat(text) <=> Folded(text) = text
<1> DEFINE P == {t \in Seq(S) : Folded(StripFormat(t)) = StripFormat(t) => Folded(t) = t}
<1>1. <<>> \in P
  <2>1. <<>> \in Seq(S) /\ Folded(<<>>) = <<>>
    BY DEF Folded
  <2> QED BY <2>1
<1>2. ASSUME NEW t \in Seq(S), NEW x \in S, t \in P PROVE Append(t, x) \in P
  <2> DEFINE u == With(t, x)
             v == StripFormat(t)
  <2>1. u \in Seq(S) /\ u = Append(t, x) /\ v \in Seq(S) /\ Small(x) \in S /\ Folded(v) \in Seq(S)
    BY StripFacts, FoldedFacts, PlusWithType DEF With, Lettered
  <2>2. StripFormat(u) = (IF x = "ZW" THEN v ELSE With(v, x)) /\ Folded(u) = With(Folded(t), Small(x))
    BY StripMore, FoldedMore
  <2>3. Folded(With(v, x)) = With(Folded(v), Small(x))
    BY <2>1, FoldedMore
  <2>4. Folded(v) = v => Folded(t) = t
    BY <1>2
  <2>5. u = With(t, x)
    OBVIOUS
  <2> HIDE DEF u, v
  <2>6. ASSUME Folded(StripFormat(u)) = StripFormat(u) PROVE Folded(u) = u
    <3>1. CASE x = "ZW"
      <4>1. Small(x) = x
        BY <3>1 DEF Small
      <4> QED BY <2>2, <2>4, <2>5, <2>6, <3>1, <4>1
    <3>2. CASE x # "ZW"
      <4>1. With(Folded(v), Small(x)) = With(v, x)
        BY <2>2, <2>3, <2>6, <3>2
      <4>2. Folded(v) = v /\ Small(x) = x
        BY <2>1, <4>1, SameMore
      <4> QED BY <2>2, <2>4, <2>5, <4>2
    <3> QED BY <3>1, <3>2
  <2> QED BY <2>1, <2>6
<1>3. text \in P
  <2> HIDE DEF P
  <2> QED BY <1>1, <1>2, AppendInduction
<1>4. Folded(StripFormat(text)) = StripFormat(Folded(text))
  BY FoldedStripped
<1> QED BY <1>3, <1>4

\* The parts of an address in small letters are its parts in small letters.
LEMMA FoldedSplits ==
    ASSUME NEW S, "@" \in S, Lettered(S), NEW spec \in Seq(S), NEW local, NEW domain,
           Splits(S, spec, local, domain)
    PROVE  Splits(S, Folded(spec), Folded(local), Folded(domain))
<1> DEFINE at == Len(local) + 1
           n == Len(spec)
           f == Folded(spec)
           l == Folded(local)
           d == Folded(domain)
<1>1. /\ local \in Seq(S) /\ domain \in Seq(S) /\ spec = AddressOf(local, domain)
      /\ Scan(spec).at = at /\ ~Scan(spec).quoted
      /\ Len(local) \in 1 .. MaxLocal /\ Len(domain) \in Nat \ {0}
      /\ \A i \in 1 .. Len(domain) : domain[i] \notin Blank
      /\ <<>> \notin ToSet(Split(DomainToAscii(domain), "."))
  BY DEF Splits
<1>2. Parted(S, spec, at, local, domain)
  BY <1>1, PartsOf
<1>3. f \in Seq(S) /\ Len(f) = n /\ \A i \in 1 .. n : f[i] = Small(spec[i])
  BY FoldedFacts
<1>4. l \in Seq(S) /\ Len(l) = Len(local)
  BY <1>1, FoldedFacts
<1>5. d \in Seq(S) /\ Len(d) = Len(domain) /\ \A i \in 1 .. Len(domain) : d[i] = Small(domain[i])
  BY <1>1, FoldedFacts
<1>6. /\ at \in Nat /\ n \in Nat /\ n = at + Len(domain) /\ spec[at] = "@"
      /\ SubSeq(spec, 1, at - 1) = local /\ SubSeq(spec, at + 1, n) = domain
  BY <1>2 DEF Parted
<1>7. at - 1 \in Nat /\ at \in 1 .. n /\ at - 1 = Len(local)
  BY <1>1, <1>6
<1> HIDE DEF at, n
<1>8. SubSeq(f, 1, at - 1) = l
  <2>1. 1 \in Nat /\ 1 <= 1 /\ 1 <= (at - 1) + 1 /\ at - 1 <= Len(spec)
    BY <1>6, <1>7 DEF n
  <2>2. SubSeq(f, 1, at - 1) = Folded(SubSeq(spec, 1, at - 1))
    BY <1>7, <2>1, FoldedPart
  <2> QED BY <1>6, <2>2
<1>9. SubSeq(f, at + 1, n) = d
  <2>1. at + 1 \in Nat /\ 1 <= at + 1 /\ at + 1 <= n + 1 /\ n <= Len(spec)
    BY <1>6, <1>7 DEF n
  <2>2. SubSeq(f, at + 1, n) = Folded(SubSeq(spec, at + 1, n))
    BY <1>6, <2>1, FoldedPart
  <2> QED BY <1>6, <2>2
<1> HIDE DEF f, l, d
<1>10. f = AddressOf(l, d)
  <2>1. f[at] = "@"
    BY <1>3, <1>6, <1>7 DEF Small
  <2>2. at \in 1 .. Len(f)
    BY <1>3, <1>7
  <2>3. f = AddressOf(SubSeq(f, 1, at - 1), SubSeq(f, at + 1, Len(f)))
    BY <1>3, <2>1, <2>2, WholeOf
  <2> QED BY <1>3, <1>8, <1>9, <2>3
<1>11. Scan(f) = Scan(spec)
  <2>1. \A i \in 1 .. Len(f) : Alike(f[i], spec[i])
    BY <1>3, SmallFacts
  <2> QED BY <1>3, <2>1, ScanAlike DEF n
<1>12. DomainToAscii(d) = DomainToAscii(domain)
  <2>1. StripFormat(domain) \in Seq(S)
    BY <1>1, StripFacts
  <2>2. Folded(Folded(StripFormat(domain))) = Folded(StripFormat(domain))
    BY <2>1, FoldedTwice
  <2>3. StripFormat(Folded(domain)) = Folded(StripFormat(domain))
    BY <1>1, FoldedStripped
  <2> QED BY <2>2, <2>3 DEF DomainToAscii, d
<1>13. \A i \in 1 .. Len(d) : d[i] \notin Blank
  BY <1>1, <1>5, SmallFacts
<1> QED BY <1>1, <1>4, <1>5, <1>10, <1>11, <1>12, <1>13 DEF Splits, at, f, l, d

\* Letters of any case find the mailbox of an address, and a quoted local part only its
\* own spelling (resolve_principal).
LEMMA EverySpellingFindsIt ==
    ASSUME NEW S, "@" \in S, Lettered(S), NEW given \in Seq(S)
    PROVE  SpellingsFindOneMailbox(given)
<1> DEFINE canon == Canon(given)
           raw == Trim(given, Blank)
           spec == AddrSpec(raw)
           local == LocalOf(spec)
           domain == DomainOf(spec)
           g == Folded(given)
           other == Canon(g)
           v == StripFormat(local)
<1> SUFFICES ASSUME canon.ok
             PROVE  Resolves(given, AsText(other)) <=> (IsQuoted(local) => Folded(local) = local)
  BY DEF SpellingsFindOneMailbox, LocalOf
<1>1. /\ canon = CanonOf(local, domain) /\ raw \in Seq(S) /\ spec \in Seq(S)
      /\ Bounded(raw) /\ Splits(S, spec, local, domain)
  BY CanonSplits
<1>2. g \in Seq(S) /\ Trim(g, Blank) = Folded(raw)
  BY FoldedFacts, FoldedTrim
<1>3. AddrSpec(Folded(raw)) = Folded(spec)
  BY <1>1, FoldedAddrSpec
<1>4. local \in Seq(S) /\ domain \in Seq(S) /\ Len(local) # 0 /\ <<>> \notin ToSet(Split(DomainToAscii(domain), "."))
  BY <1>1 DEF Splits
<1> HIDE DEF g, raw, spec, local, domain, canon
<1>5. Bounded(Folded(raw))
  BY <1>1, FoldedFacts, SmallFacts DEF Bounded
<1>6. Splits(S, Folded(spec), Folded(local), Folded(domain))
  BY <1>1, FoldedSplits
<1>7. other = CanonOf(Folded(local), Folded(domain))
  <2>1. Folded(raw) = Trim(g, Blank) /\ Folded(spec) = AddrSpec(Trim(g, Blank))
    BY <1>2, <1>3
  <2> HIDE DEF other
  <2> QED BY <1>2, <1>5, <1>6, <2>1, SplitsCanon DEF other
<1>8. v \in Seq(S) /\ StripFormat(Folded(local)) = Folded(v)
  BY <1>4, StripFacts, FoldedStripped
<1>9. DomainToAscii(Folded(domain)) = DomainToAscii(domain)
  <2>1. StripFormat(domain) \in Seq(S)
    BY <1>4, StripFacts
  <2>2. Folded(Folded(StripFormat(domain))) = Folded(StripFormat(domain))
    BY <2>1, FoldedTwice
  <2>3. StripFormat(Folded(domain)) = Folded(StripFormat(domain))
    BY <1>4, FoldedStripped
  <2> QED BY <2>2, <2>3 DEF DomainToAscii
<1>10. IsQuoted(Folded(local)) <=> IsQuoted(local)
  <2> DEFINE f == Folded(local)
             n == Len(local)
  <2>1. f \in Seq(S) /\ Len(f) = n /\ \A i \in 1 .. n : f[i] = Small(local[i])
    BY <1>4, FoldedFacts
  <2>2. n \in Nat \ {0} /\ 1 \in 1 .. n /\ n \in 1 .. n
    BY <1>4
  <2> HIDE DEF f, n
  <2>3. \A c : Small(c) = Quote <=> c = Quote
    BY SmallFacts DEF Alike
  <2>4. Head(f) = f[1] /\ Last(f) = f[n] /\ Head(local) = local[1] /\ Last(local) = local[n]
    BY <1>4, <2>1, <2>2 DEF Last, n
  <2>5. (f[1] = Quote <=> local[1] = Quote) /\ (f[n] = Quote <=> local[n] = Quote)
    BY <2>1, <2>2, <2>3
  <2> QED BY <2>1, <2>4, <2>5 DEF IsQuoted, f, n
<1> DEFINE l == Cased(v, IsQuoted(local))
           m == Cased(Folded(v), IsQuoted(local))
           d == DomainToAscii(domain)
<1>11. /\ canon.local = l /\ canon.domain = d /\ other.local = m /\ other.domain = d
  <2>1. canon = [ok |-> TRUE, local |-> l, domain |-> d]
    BY <1>1 DEF CanonOf
  <2>2. Cased(StripFormat(Folded(local)), IsQuoted(Folded(local))) = m
    BY <1>8, <1>10 DEF Cased
  <2>3. other = [ok |-> TRUE, local |-> m, domain |-> d]
    BY <1>7, <1>9, <2>2 DEF CanonOf
  <2> HIDE DEF l, m, d, other
  <2> QED BY <2>1, <2>3
<1>12. Folded(v) \in Seq(S) /\ Len(Folded(v)) = Len(v) /\ Folded(Folded(v)) = Folded(v)
  BY <1>8, FoldedFacts, FoldedTwice
<1>13. d \in Seq(S)
  BY <1>4, DomainFacts
<1>14. /\ l \in Seq(S) /\ m \in Seq(S) /\ Len(l) = Len(m)
       /\ l = m <=> (IsQuoted(local) => Folded(v) = v)
  BY <1>8, <1>12 DEF Cased
<1>15. Folded(v) = v <=> Folded(local) = local
  BY <1>4, FoldedWhenSeen
<1> HIDE DEF l, m, d, v, other
<1>16. AsText(canon) = AddressOf(l, d) /\ AsText(other) = AddressOf(m, d)
  BY <1>11, <1>13, <1>14, AsTextIs
<1>17. AddressOf(l, d) = AddressOf(m, d) <=> l = m
  <2> DEFINE s == AddressOf(l, d)
             t == AddressOf(m, d)
             at == Len(l) + 1
  <2>1. Parted(S, s, at, l, d)
    BY <1>13, <1>14, PartsOf
  <2>2. Parted(S, t, at, m, d)
    <3>1. at = Len(m) + 1
      BY <1>14
    <3> HIDE DEF at
    <3> QED BY <1>13, <1>14, <3>1, PartsOf
  <2>3. SubSeq(s, 1, at - 1) = l /\ SubSeq(t, 1, at - 1) = m
    BY <2>1, <2>2 DEF Parted
  <2> HIDE DEF s, t, at
  <2>4. s = t => l = m
    BY <2>3
  <2> QED BY <2>4 DEF s, t
<1>18. Resolves(given, AsText(other)) <=> AsText(canon) = AsText(other)
  BY DEF Resolves, canon
<1> QED BY <1>14, <1>15, <1>16, <1>17, <1>18

----------------------------------------------------------------------------
(* The inputs of the run *)

\* The mailboxes of the run are mailboxes.
LEMMA BoxesAreMailboxes == \A box \in Boxes : IsMailbox(box)
<1>1. IsMailbox(<<>>)
  BY DEF IsMailbox
<1>2. IsMailbox(<<3>>)
  BY DEF IsMailbox
<1>3. IsMailbox(<<1, 2, 3>>)
  BY DEF IsMailbox
<1>4. IsMailbox(<<1, 4, 6>>)
  BY DEF IsMailbox
<1>5. IsMailbox(<<2, 4, 5, 6>>)
  BY DEF IsMailbox
<1> QED BY <1>1, <1>2, <1>3, <1>4, <1>5 DEF Boxes

\* An IMAP client gets one answer to its command, the arguments it sends as literals
\* are those LOGIN reads unless one has a quote or a backslash, and a FETCH answers
\* the rows it designates (read_command, tokenize_args, cmd_fetch).
THEOREM EveryCommandIsAnswered == Spec => []CommandsAreAnswered
<1>1. InputIsOfItsKind => CommandsAreAnswered
  <2> SUFFICES ASSUME InputIsOfItsKind
               PROVE  CommandsAreAnswered
    OBVIOUS
  <2>1. kind \in DOMAIN Alphabet /\ input \in Seq(Alphabet[kind])
    BY DEF InputIsOfItsKind
  <2>2. ASSUME kind = "command", NEW lastLine \in {"blank", "words"}
        PROVE  EachCommandIsAnsweredOnce(input, lastLine)
    <3>1. Alphabet[kind] \subseteq Literals
      BY <2>1, <2>2, AlphabetAssumption
    <3>2. input \in Seq(Literals)
      BY <2>1, <3>1, SeqOfMore
    <3> QED BY <3>2, CommandsAreAnsweredOnce
  <2>3. ASSUME kind = "arguments"
        PROVE  LiteralsArrive(Split(input, "|"))
    <3> DEFINE T == Alphabet[kind] \cup {"|"}
    <3>1. Alphabet[kind] \subseteq T /\ "|" \in T
      OBVIOUS
    <3> HIDE DEF T
    <3>2. input \in Seq(T)
      BY <2>1, <3>1, SeqOfMore
    <3>3. Split(input, "|") \in Lists(T)
      BY <3>1, <3>2, PiecesAreFree DEF Lists
    <3> QED BY <3>3, LiteralsArriveUnlessSpecial
  <2>4. ASSUME kind = "set", NEW box \in Boxes, NEW isUid \in BOOLEAN,
               NEW readable \in SUBSET DOMAIN box
        PROVE  FetchAnswersTheDesignated(box, input, isUid, readable)
    <3>1. Alphabet[kind] \subseteq Parts
      BY <2>1, <2>4, AlphabetAssumption
    <3>2. input \in Seq(Parts)
      BY <2>1, <3>1, SeqOfMore
    <3>3. IsMailbox(box)
      BY BoxesAreMailboxes
    <3> QED BY <3>2, <3>3, FetchesAnswerTheDesignated
  <2> QED BY <2>2, <2>3, <2>4 DEF CommandsAreAnswered
<1> QED BY <1>1, InputsAreOfTheirKind, PTL

\* A canonical address is its own canonical form, the recipient the bridge accepts is
\* the one of the mailbox, and the spellings of an address lead to one principal, for
\* every alphabet, every length and every bound (diamy_addr_canon, extract_addr,
\* resolve_principal).
THEOREM EveryAddressIsKept == Spec => []AddressesAreKept
<1>1. InputIsOfItsKind => AddressesAreKept
  <2> SUFFICES ASSUME InputIsOfItsKind
               PROVE  /\ CanonIsStable(input)
                      /\ RecipientIsKept(<<"<">> \o input \o <<">">>)
                      /\ SpellingsFindOneMailbox(input)
    BY DEF AddressesAreKept
  <2> DEFINE S == Alphabet[kind] \cup {"a", "@", "<", ">"}
             line == <<"<">> \o input \o <<">">>
  <2>1. "a" \in S /\ "@" \in S /\ "<" \in S /\ ">" \in S /\ Alphabet[kind] \subseteq S
    OBVIOUS
  <2> HIDE DEF S
  <2>2. Lettered(S)
    BY <2>1 DEF Lettered, Small
  <2>3. input \in Seq(S)
    BY <2>1, SeqOfMore DEF InputIsOfItsKind
  <2>4. line \in Seq(S)
    <3> DEFINE a == <<"<">>
               b == <<">">>
               c == a \o input
    <3>1. a \in Seq(S) /\ b \in Seq(S)
      BY <2>1
    <3> HIDE DEF a, b
    <3>2. c \in Seq(S)
      BY <2>3, <3>1, ConcatFacts
    <3> HIDE DEF c
    <3>3. c \o b \in Seq(S)
      BY <3>1, <3>2, ConcatFacts
    <3> QED BY <3>3 DEF a, b, c
  <2> HIDE DEF line
  <2> QED BY <2>1, <2>2, <2>3, <2>4, EveryCanonIsStable, EveryRecipientIsKept, EverySpellingFindsIt DEF line
<1> QED BY <1>1, InputsAreOfTheirKind, PTL
=============================================================================
