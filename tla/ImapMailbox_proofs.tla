------------------------- MODULE ImapMailbox_proofs -------------------------
(***************************************************************************)
(* Proofs about ImapMailbox, for every number of sessions, messages, UIDs, *)
(* faults and restarts.                                                    *)
(*                                                                         *)
(* The registry inside ImapMailbox moves as UidRegistry does, so its       *)
(* invariant holds here too (R is UidRegistry with its theorems).  With it *)
(* a row of a box, or of what a client knows, holds the UID the registry   *)
(* has for its message, for as long as the process lives (Attached).       *)
(***************************************************************************)
EXTENDS ImapMailbox, FiniteSetTheorems, WellFoundedInduction, TLAPS

R == INSTANCE UidRegistry_proofs

----------------------------------------------------------------------------
(* The inductive invariant *)

ListedRows == [msg : Messages, flags : SUBSET Flags]

SessionType ==
    [at : {"out", "idle", "listed", "expunge"}, selected : BOOLEAN, box : Seq(Rows),
     cmd : {"none", "SELECT", "NOOP", "STATUS"}, list : Seq(ListedRows), todo : Seq(Nat),
     nth : Nat, gone : Seq(Nat), lines : Seq(Nat \ {0}), refused : BOOLEAN]

ServerInv ==
    /\ catalogue \in Seq(Messages) /\ IsInjective(catalogue)
    /\ flags \in [Messages -> SUBSET Flags]
    /\ marked \subseteq Messages /\ purged \subseteq Messages

\* Each message once.
Distinct(rows) == \A i, j \in 1 .. Len(rows) : rows[i].msg = rows[j].msg => i = j

\* UIDs increase, up to the last one.
Sorted(rows) ==
    \A i, j \in 1 .. Len(rows) : i < j /\ rows[j].uid # MaxUid => rows[i].uid < rows[j].uid

\* The UIDs are those of the registry u.
Attached(rows, u) == \A i \in 1 .. Len(rows) : rows[i].uid = u[rows[i].msg]

\* A message that looks deleted was marked so, mk being those that were.
DeletedIn(rows, mk) == \A i \in 1 .. Len(rows) : "deleted" \in rows[i].flags => rows[i].msg \in mk

Ascending(ns) == \A i, j \in 1 .. Len(ns) : i < j => ns[i] < ns[j]

\* The answer of the server waits for its UIDs.
ListInv(ses) ==
    /\ Distinct(ses.list) /\ Len(ses.list) <= Window
    /\ IF ses.at = "listed" THEN ses.cmd # "none" ELSE ses.list = <<>>

\* The messages still to remove are deleted ones behind those removed, and their
\* numbers leave room for the corrections.
TodoInv(ses) ==
    /\ ses.at # "expunge" => ses.todo = <<>> /\ ses.gone = <<>> /\ ses.lines = <<>> /\ ses.nth = 0
                             /\ ~ses.refused
    /\ Ascending(ses.todo) /\ Ascending(ses.gone)
    /\ \A k \in 1 .. Len(ses.todo) :
          /\ ses.todo[k] \in 1 .. Len(ses.box) /\ "deleted" \in ses.box[ses.todo[k]].flags
          /\ ses.todo[k] >= ses.nth + k
    /\ \A k \in 1 .. Len(ses.gone) : ses.gone[k] \in 1 .. Len(ses.box)
    /\ \A k \in 1 .. Len(ses.gone), l \in 1 .. Len(ses.todo) : ses.gone[k] < ses.todo[l]

\* The numbers announced, when nothing was refused.
Announced(gone, lines) ==
    Len(lines) = Len(gone) /\ \A k \in 1 .. Len(gone) : lines[k] = gone[k] - (k - 1)

LinesInv(ses) == ~ses.refused => Len(ses.gone) = ses.nth /\ Announced(ses.gone, ses.lines)

BoxInv(ses, known, u, mk) ==
    /\ Distinct(ses.box) /\ Sorted(ses.box) /\ Attached(ses.box, u) /\ Attached(known, u)
    /\ DeletedIn(ses.box, mk) /\ DeletedIn(ses.list, mk)

MarkInv ==
    /\ \A m \in Messages : "deleted" \in flags[m] => m \in marked
    /\ purged \subseteq marked

SessionInv(ses, known, u, mk) ==
    /\ ses \in SessionType /\ known \in Seq(Slots)
    /\ ListInv(ses) /\ TodoInv(ses) /\ LinesInv(ses) /\ BoxInv(ses, known, u, mk)

SessionsInv(se, vw, u, mk) ==
    /\ se \in [Sessions -> SessionType] /\ vw \in [Sessions -> Seq(Slots)]
    /\ \A s \in Sessions : SessionInv(se[s], vw[s], u, mk)

IInv == ServerInv /\ MarkInv /\ SessionsInv(session, view, cache.uid, marked)

----------------------------------------------------------------------------
(* One session *)

Msgs(rows) == {rows[i].msg : i \in 1 .. Len(rows)}

\* The flags are those of the server, f.
Mirrors(rows, f) == \A i \in 1 .. Len(rows) : rows[i].flags = f[rows[i].msg]

CopyInv ==
    faults = 0 => \A s \in Sessions : /\ Mirrors(session[s].box, flags)
                                      /\ Mirrors(session[s].list, flags)

\* Without a failure UIDs are given to messages that were listed, hence catalogued.
NumberedInv ==
    faults = 0 =>
        /\ R!Counted(cache) /\ (R!IsCoherent(disk) => R!Counted(disk))
        /\ \A m \in Messages : cache.uid[m] # 0 \/ disk.uid[m] # 0 => m \in Catalogued \cup purged
        /\ \A s \in Sessions : Msgs(session[s].list) \subseteq Catalogued \cup purged

\* Of the messages in the box, those removed and no other have left the
\* catalogue; those in the catalogue that the box lacks get higher UIDs.
Follows(box, gone, cat, prg, u) ==
    /\ \A i \in 1 .. Len(box) :
          box[i].msg \in cat \/ \E k \in 1 .. Len(gone) : gone[k] = i
    /\ \A k \in 1 .. Len(gone) : box[gone[k]].msg \in prg \ cat
    /\ \A m \in cat \ Msgs(box) : \A i \in 1 .. Len(box) : u[m] # 0 => box[i].uid < u[m]

\* The list holds the box; what arrived since has no UID.
ListFollows(ses, cat, u, d) ==
    /\ Msgs(ses.box) \subseteq Msgs(ses.list) /\ Msgs(ses.list) \subseteq cat
    /\ \A m \in cat \ Msgs(ses.list) : u[m] = 0 /\ d[m] = 0

Agrees(ses, known, cat, prg, u, d) ==
    /\ known = Known(ses.box) /\ ~ses.refused
    /\ Follows(ses.box, ses.gone, cat, prg, u)
    /\ ses.at = "listed" => ListFollows(ses, cat, u, d)

AgreeInv ==
    faults = 0 =>
        /\ purged \cap Catalogued = {}
        /\ \A s \in Sessions :
              Agrees(session[s], view[s], Catalogued, purged, cache.uid, disk.uid)

----------------------------------------------------------------------------
(* Induction *)

\* Induction on the natural numbers for a set; < is well founded.
LEMMA SetInduction ==
    ASSUME NEW S, 0 \in S, \A n \in Nat : n \in S => n + 1 \in S
    PROVE  Nat \subseteq S
<1> DEFINE T == Nat \ S
           W == OpToRel(<, Nat)
<1> SUFFICES ASSUME T # {} PROVE FALSE
  OBVIOUS
<1>1. IsWellFoundedOn(W, Nat)
  BY NatLessThanWellFounded
<1>2. PICK m \in T : \A n \in T : <<n, m>> \notin W
  <2> HIDE DEF W
  <2>1. T \subseteq Nat
    OBVIOUS
  <2> HIDE DEF T
  <2> QED BY <1>1, <2>1, WFMin
<1>3. m \in Nat /\ m # 0 /\ m - 1 \in Nat /\ m - 1 < m
  OBVIOUS
<1>4. m - 1 \in S
  BY <1>2, <1>3 DEF OpToRel
<1> QED BY <1>3, <1>4

\* Induction up to a bound.
LEMMA BoundedInduction ==
    ASSUME NEW m \in Nat, NEW S, 0 \in S,
           \A n \in 0 .. m - 1 : n \in S => n + 1 \in S
    PROVE  0 .. m \subseteq S
<1> DEFINE T == {n \in Nat : n \in 0 .. m => n \in S}
<1>1. 0 \in T
  OBVIOUS
<1>2. \A n \in Nat : n \in T => n + 1 \in T
  OBVIOUS
<1> HIDE DEF T
<1>3. Nat \subseteq T
  BY <1>1, <1>2, SetInduction
<1> QED BY <1>3 DEF T

----------------------------------------------------------------------------
(* Sequences *)

LEMMA MembersMakeSeq ==
    ASSUME NEW S, NEW T, NEW s \in Seq(S), \A k \in 1 .. Len(s) : s[k] \in T
    PROVE  s \in Seq(T)
<1>1. s \in [1 .. Len(s) -> T] /\ Len(s) \in Nat
  OBVIOUS
<1> QED BY <1>1

LEMMA ConcatFacts ==
    ASSUME NEW S, NEW a \in Seq(S), NEW b \in Seq(S)
    PROVE  /\ a \o b \in Seq(S) /\ Len(a \o b) = Len(a) + Len(b)
           /\ \A j \in 1 .. Len(a) + Len(b) :
                 (a \o b)[j] = IF j <= Len(a) THEN a[j] ELSE b[j - Len(a)]
  OBVIOUS

LEMMA RemoveAtFacts ==
    ASSUME NEW S, NEW s \in Seq(S), NEW i \in 1 .. Len(s)
    PROVE  /\ RemoveAt(s, i) \in Seq(S) /\ Len(RemoveAt(s, i)) = Len(s) - 1
           /\ \A j \in 1 .. Len(s) - 1 : RemoveAt(s, i)[j] = IF j < i THEN s[j] ELSE s[j + 1]
<1> DEFINE a == SubSeq(s, 1, i - 1)
           b == SubSeq(s, i + 1, Len(s))
<1>1. Len(s) \in Nat /\ i \in Nat /\ 1 <= i /\ i <= Len(s)
  OBVIOUS
<1>2. a \in Seq(S) /\ Len(a) = i - 1 /\ \A j \in 1 .. i - 1 : a[j] = s[j]
  BY <1>1
<1>3. b \in Seq(S) /\ Len(b) = Len(s) - i /\ \A j \in 1 .. Len(s) - i : b[j] = s[i + j]
  BY <1>1
<1> HIDE DEF a, b
<1>4. a \o b \in Seq(S)
  BY <1>2, <1>3
<1>6. Len(a \o b) = Len(a) + Len(b)
  <2>1. a \in Seq(S) /\ b \in Seq(S)
    BY <1>2, <1>3
  <2> QED BY <2>1, ConcatFacts
<1>7. Len(a \o b) = Len(s) - 1
  BY <1>1, <1>2, <1>3, <1>6
<1>5. ASSUME NEW j \in 1 .. Len(s) - 1 PROVE (a \o b)[j] = IF j < i THEN s[j] ELSE s[j + 1]
  <2>0. (a \o b)[j] = IF j <= Len(a) THEN a[j] ELSE b[j - Len(a)]
    BY <1>1, <1>2, <1>3
  <2>1. CASE j < i
    BY <1>1, <1>2, <2>0, <2>1
  <2>2. CASE ~(j < i)
    <3>1. (a \o b)[j] = b[j - Len(a)]
      BY <1>1, <1>2, <2>0, <2>2
    <3>2. j - Len(a) = j - i + 1 /\ j - i + 1 \in 1 .. Len(s) - i /\ i + (j - i + 1) = j + 1
      BY <1>1, <1>2, <2>2
    <3> QED BY <1>3, <2>2, <3>1, <3>2
  <2> QED BY <2>1, <2>2
<1> QED BY <1>4, <1>5, <1>7 DEF RemoveAt, a, b

LEMMA InsertAtFacts ==
    ASSUME NEW S, NEW s \in Seq(S), NEW i \in 1 .. Len(s) + 1, NEW e \in S
    PROVE  /\ InsertAt(s, i, e) \in Seq(S) /\ Len(InsertAt(s, i, e)) = Len(s) + 1
           /\ \A j \in 1 .. Len(s) + 1 :
                 InsertAt(s, i, e)[j] = IF j < i THEN s[j] ELSE IF j = i THEN e ELSE s[j - 1]
<1> DEFINE a == SubSeq(s, 1, i - 1)
           b == SubSeq(s, i, Len(s))
           c == a \o <<e>>
<1>1. Len(s) \in Nat /\ i \in Nat /\ 1 <= i /\ i <= Len(s) + 1
  OBVIOUS
<1>2. a \in Seq(S) /\ Len(a) = i - 1 /\ \A j \in 1 .. i - 1 : a[j] = s[j]
  BY <1>1
<1>3. b \in Seq(S) /\ Len(b) = Len(s) - i + 1 /\ \A j \in 1 .. Len(s) - i + 1 : b[j] = s[i + j - 1]
  BY <1>1
<1>4. <<e>> \in Seq(S) /\ Len(<<e>>) = 1 /\ <<e>>[1] = e
  OBVIOUS
<1> HIDE DEF a, b
<1>5. c \in Seq(S) /\ Len(c) = i /\ c[i] = e /\ \A j \in 1 .. i - 1 : c[j] = s[j]
  <2>1. c \in Seq(S)
    BY <1>2, <1>4
  <2>0. a \in Seq(S)
    BY <1>2
  <2>2. Len(c) = Len(a) + 1
    BY <2>0
  <2>3. \A j \in 1 .. Len(a) + 1 : c[j] = IF j <= Len(a) THEN a[j] ELSE e
    <3>1. \A j \in 1 .. Len(a) + Len(<<e>>) : c[j] = IF j <= Len(a) THEN a[j] ELSE <<e>>[j - Len(a)]
      <4> HIDE DEF c
      <4>1. c = a \o <<e>>
        BY DEF c
      <4> QED BY <2>0, <4>1, ConcatFacts, <1>4
    <3> HIDE DEF c
    <3>2. Len(<<e>>) = 1 /\ \A k \in 1 .. 1 : <<e>>[k] = e
      BY <1>4
    <3>3. \A j \in 1 .. Len(a) + 1 : j > Len(a) => j - Len(a) \in 1 .. 1
      BY <1>1, <1>2
    <3> DEFINE t == <<e>>
    <3> HIDE DEF t
    <3>4. \A j \in 1 .. Len(a) + 1 : c[j] = IF j <= Len(a) THEN a[j] ELSE t[j - Len(a)]
      BY <3>1, <3>2 DEF t
    <3>5. \A k \in 1 .. 1 : t[k] = e
      BY <3>2 DEF t
    <3> QED BY <1>1, <1>2, <3>3, <3>4, <3>5
  <2> HIDE DEF c
  <2>4. Len(a) + 1 = i /\ i \in 1 .. Len(a) + 1 /\ ~(i <= Len(a))
    BY <1>1, <1>2
  <2>5. c[i] = e
    BY <2>3, <2>4
  <2>6. \A j \in 1 .. i - 1 : c[j] = s[j]
    <3>1. \A j \in 1 .. i - 1 : j \in 1 .. Len(a) + 1 /\ j <= Len(a) /\ a[j] = s[j]
      BY <1>1, <1>2
    <3> QED BY <2>3, <3>1
  <2> QED BY <2>1, <2>2, <2>4, <2>5, <2>6
<1> HIDE DEF c
<1>6. c \o b \in Seq(S) /\ Len(c \o b) = Len(s) + 1
  <2>1. c \o b \in Seq(S)
    BY <1>3, <1>5
  <2>0. c \in Seq(S) /\ b \in Seq(S)
    BY <1>3, <1>5
  <2>2. Len(c \o b) = Len(c) + Len(b)
    BY <2>0, ConcatFacts
  <2> QED BY <1>1, <1>3, <1>5, <2>1, <2>2
<1>7. ASSUME NEW j \in 1 .. Len(s) + 1
      PROVE  (c \o b)[j] = IF j < i THEN s[j] ELSE IF j = i THEN e ELSE s[j - 1]
  <2>0. (c \o b)[j] = IF j <= Len(c) THEN c[j] ELSE b[j - Len(c)]
    <3>1. j \in 1 .. Len(c) + Len(b)
      BY <1>1, <1>3, <1>5
    <3> QED BY <1>3, <1>5, <3>1, ConcatFacts
  <2>1. CASE j < i
    BY <1>1, <1>5, <2>0, <2>1
  <2>3. CASE j = i
    BY <1>1, <1>5, <2>0, <2>3
  <2>2. CASE j > i
    <3>1. (c \o b)[j] = b[j - Len(c)]
      BY <1>1, <1>5, <2>0, <2>2
    <3>2. j - Len(c) = j - i /\ j - i \in 1 .. Len(s) - i + 1 /\ i + (j - i) - 1 = j - 1
      BY <1>1, <1>5, <2>2
    <3>3. b[j - i] = s[j - 1]
      BY <1>3, <3>2
    <3>4. (c \o b)[j] = s[j - 1]
      BY <3>1, <3>2, <3>3
    <3>5. ~(j < i) /\ j # i
      BY <1>1, <2>2
    <3> QED BY <3>4, <3>5
  <2>4. j < i \/ j = i \/ j > i
    BY <1>1
  <2> QED BY <2>1, <2>2, <2>3, <2>4
<1> QED BY <1>6, <1>7 DEF InsertAt, a, b, c

----------------------------------------------------------------------------
(* Sorting by rank *)

StrictOrder(S, before) ==
    /\ \A x \in S : <<x, x>> \notin before
    /\ \A x, y, z \in S : <<x, y>> \in before /\ <<y, z>> \in before => <<x, z>> \in before
    /\ \A x, y \in S : x # y => <<x, y>> \in before \/ <<y, x>> \in before

\* The members of S before x.
Below(S, before, x) == {y \in S : <<y, x>> \in before}

LEMMA RankGrows ==
    ASSUME NEW S, IsFiniteSet(S), NEW before, StrictOrder(S, before)
    PROVE  /\ Cardinality(S) \in Nat
           /\ \A x \in S : /\ Cardinality(Below(S, before, x)) \in Nat
                           /\ Cardinality(Below(S, before, x)) < Cardinality(S)
           /\ \A x, y \in S : <<x, y>> \in before =>
                 Cardinality(Below(S, before, x)) < Cardinality(Below(S, before, y))
<1>1. Cardinality(S) \in Nat
  BY FS_CardinalityType
<1>2. ASSUME NEW x \in S
      PROVE  /\ IsFiniteSet(Below(S, before, x)) /\ Cardinality(Below(S, before, x)) \in Nat
             /\ Cardinality(Below(S, before, x)) < Cardinality(S)
  <2> DEFINE B == Below(S, before, x)
  <2>1. B \subseteq S /\ B # S
    BY DEF Below, StrictOrder
  <2> HIDE DEF B
  <2>2. IsFiniteSet(B) /\ Cardinality(B) <= Cardinality(S) /\ Cardinality(B) # Cardinality(S)
    BY <2>1, FS_Subset
  <2>3. Cardinality(B) \in Nat
    BY <2>2, FS_CardinalityType
  <2> QED BY <1>1, <2>2, <2>3 DEF B
<1>3. ASSUME NEW x \in S, NEW y \in S, <<x, y>> \in before
      PROVE  Cardinality(Below(S, before, x)) < Cardinality(Below(S, before, y))
  <2> DEFINE A == Below(S, before, x)
             B == Below(S, before, y)
  <2>1. A \subseteq B /\ A # B
    BY <1>3 DEF Below, StrictOrder
  <2>2. IsFiniteSet(B) /\ Cardinality(A) \in Nat /\ Cardinality(B) \in Nat
    BY <1>2
  <2> HIDE DEF A, B
  <2>3. Cardinality(A) <= Cardinality(B) /\ Cardinality(A) # Cardinality(B)
    BY <2>1, <2>2, FS_Subset
  <2> QED BY <2>2, <2>3 DEF A, B
<1> QED BY <1>1, <1>2, <1>3

\* InOrder has every member of S, in its place.
LEMMA InOrderFacts ==
    ASSUME NEW S, IsFiniteSet(S), NEW before, StrictOrder(S, before),
           NEW order, order = InOrder(S, before)
    PROVE  /\ Cardinality(S) \in Nat /\ order \in [1 .. Cardinality(S) -> S]
           /\ \A n \in 1 .. Cardinality(S) : Cardinality(Below(S, before, order[n])) = n - 1
           /\ \A i, j \in 1 .. Cardinality(S) : i < j => <<order[i], order[j]>> \in before
           /\ \A x \in S : \E n \in 1 .. Cardinality(S) : order[n] = x
<1> DEFINE c == Cardinality(S)
           rank(x) == Cardinality(Below(S, before, x))
           r == [x \in S |-> rank(x) + 1]
<1>1. c \in Nat /\ \A x \in S : rank(x) \in Nat /\ rank(x) < c
  BY RankGrows
<1>2. \A x, y \in S : <<x, y>> \in before => rank(x) < rank(y)
  BY RankGrows
<1>3. ASSUME NEW x \in S, NEW y \in S, x # y PROVE rank(x) # rank(y)
  <2>1. CASE <<x, y>> \in before
    BY <1>1, <1>2, <2>1
  <2>2. CASE <<y, x>> \in before
    BY <1>1, <1>2, <2>2
  <2> QED BY <1>3, <2>1, <2>2 DEF StrictOrder
<1>4. order = [n \in 1 .. c |-> CHOOSE x \in S : rank(x) = n - 1]
  BY DEF InOrder, Below
<1> HIDE DEF rank, c
<1>5. r \in [S -> 1 .. c]
  BY <1>1
<1>6. \A x, y \in S : r[x] = r[y] => x = y
  BY <1>1, <1>3
<1>7. r \in Injection(S, 1 .. c)
  BY <1>5, <1>6 DEF Injection, IsInjective
<1>8. IsFiniteSet(1 .. c) /\ Cardinality(1 .. c) = c
  <2>1. 1 \in Int /\ c \in Int
    BY <1>1
  <2>2. IsFiniteSet(1 .. c) /\ Cardinality(1 .. c) = IF 1 > c THEN 0 ELSE c - 1 + 1
    BY <2>1, FS_Interval
  <2> QED BY <1>1, <2>2
<1>9. r \in Surjection(S, 1 .. c)
  BY <1>7, <1>8, FS_Injection DEF c
<1>10. \A n \in 1 .. c : \E x \in S : r[x] = n
  BY <1>9 DEF Surjection
<1>11. ASSUME NEW n \in 1 .. c PROVE \E x \in S : rank(x) = n - 1
  <2>1. PICK x \in S : r[x] = n
    BY <1>10
  <2>2. rank(x) + 1 = n /\ rank(x) \in Nat /\ n \in Nat
    BY <1>1, <2>1
  <2> QED BY <2>2
<1>12. \A n \in 1 .. c : order[n] \in S /\ rank(order[n]) = n - 1
  BY <1>4, <1>11
<1>13. order \in [1 .. c -> S]
  BY <1>4, <1>12
<1>14. ASSUME NEW i \in 1 .. c, NEW j \in 1 .. c, i < j PROVE <<order[i], order[j]>> \in before
  <2>1. rank(order[i]) = i - 1 /\ rank(order[j]) = j - 1 /\ order[i] \in S /\ order[j] \in S
    BY <1>12
  <2>2. i - 1 < j - 1 /\ i - 1 # j - 1 /\ ~(j - 1 < i - 1)
    BY <1>1, <1>14
  <2>3. order[i] # order[j] /\ <<order[j], order[i]>> \notin before
    BY <1>2, <2>1, <2>2
  <2> QED BY <2>1, <2>3 DEF StrictOrder
<1>15. ASSUME NEW x \in S PROVE \E n \in 1 .. c : order[n] = x
  <2>1. rank(x) + 1 \in 1 .. c /\ (rank(x) + 1) - 1 = rank(x)
    BY <1>1
  <2>2. rank(order[rank(x) + 1]) = rank(x) /\ order[rank(x) + 1] \in S
    BY <1>12, <2>1
  <2> QED BY <1>3, <2>1, <2>2
<1> QED BY <1>1, <1>12, <1>13, <1>14, <1>15 DEF c, rank

----------------------------------------------------------------------------
(* The registry in use *)

\* The messages of an answer are a catalogue.
LEMMA ListedIds ==
    ASSUME NEW list \in Seq(ListedRows), Distinct(list), Len(list) <= Window
    PROVE  [i \in DOMAIN list |-> list[i].msg] \in Catalogues
<1> DEFINE n == Len(list)
           ids == [i \in DOMAIN list |-> list[i].msg]
<1>1. n \in 0 .. Window /\ DOMAIN list = 1 .. n
  BY NumbersAssumption
<1>2. ids \in [1 .. n -> Messages]
  <2>1. \A i \in 1 .. n : list[i] \in ListedRows
    BY <1>1
  <2>2. \A i \in 1 .. n : list[i].msg \in Messages
    BY <2>1 DEF ListedRows
  <2> QED BY <1>1, <2>2
<1>3. IsInjective(ids)
  BY <1>1 DEF Distinct, IsInjective
<1> HIDE DEF n, ids
<1>4. ids \in Catalogues
  BY <1>1, <1>2, <1>3, CataloguesAssumption
<1> QED BY <1>4 DEF ids

\* What UidRegistry assumes of its constants holds here.
LEMMA RegistryAssumptions ==
    /\ \A ids \in Catalogues :
          /\ ids \in Seq(Messages)
          /\ \A i, j \in 1 .. Len(ids) : ids[i] = ids[j] => i = j
    /\ R!IsFiniteSet(Messages)
    /\ MaxUid \in Nat \ {0} /\ RestartTime \in Nat \ {0}
    /\ MaxClock \in Nat /\ MaxFaults \in Nat
<1>1. ASSUME NEW ids \in Catalogues
      PROVE  ids \in Seq(Messages) /\ \A i, j \in 1 .. Len(ids) : ids[i] = ids[j] => i = j
  <2>1. PICK n \in 0 .. Window : ids \in [1 .. n -> Messages] /\ IsInjective(ids)
    BY CataloguesAssumption
  <2>2. n \in Nat
    BY NumbersAssumption
  <2>3. ids \in Seq(Messages) /\ Len(ids) = n
    BY <2>1, <2>2
  <2> QED BY <2>1, <2>2, <2>3 DEF IsInjective
<1>2. R!IsFiniteSet(Messages)
  BY NumbersAssumption DEF IsFiniteSet, R!IsFiniteSet
<1> QED BY <1>1, <1>2, NumbersAssumption

\* Registry and R are the same module.
LEMMA SameRegistry ==
    /\ Registry!Fresh = R!Fresh /\ Registry!Current = R!Current
    /\ \A st, ids : /\ Registry!New(st, ids) = R!New(st, ids)
                    /\ Registry!Assign(st, ids) = R!Assign(st, ids)
                    /\ Registry!Told(st, ids) = R!Told(st, ids)
                    /\ \A ps : Registry!Within(st, ps) = R!Within(st, ps)
<1>1. \A S : Registry!Cardinality(S) = R!Cardinality(S)
  BY DEF Registry!Cardinality, R!Cardinality
<1>2. Registry!Fresh = R!Fresh
  BY DEF Registry!Fresh, Registry!NoState, R!Fresh, R!NoState
<1>3. Registry!Current = R!Current
  BY <1>2 DEF Registry!Current, Registry!LoadOrFresh, Registry!NoState, Registry!IsCoherent,
              R!Current, R!LoadOrFresh, R!NoState, R!IsCoherent
<1>4. \A st, ids : Registry!New(st, ids) = R!New(st, ids)
  BY DEF Registry!New, R!New
<1>5. \A u, k : Registry!SaturatingAdd(u, k) = R!SaturatingAdd(u, k)
  BY DEF Registry!SaturatingAdd, R!SaturatingAdd
<1>6. \A ids, m, n : Registry!Before(ids, m, n) <=> R!Before(ids, m, n)
  BY DEF Registry!Before, R!Before
<1>7. ASSUME NEW st, NEW ids PROVE Registry!Assign(st, ids) = R!Assign(st, ids)
  <2>1. \A m : {n \in R!New(st, ids) : Registry!Before(ids, n, m)}
                 = {n \in R!New(st, ids) : R!Before(ids, n, m)}
    BY <1>6
  <2> QED BY <1>1, <1>4, <1>5, <2>1 DEF Registry!Assign, R!Assign
<1>8. \A st, ids : Registry!Told(st, ids) = R!Told(st, ids)
  BY DEF Registry!Told, R!Told
<1>9. \A st, ps : Registry!Within(st, ps) = R!Within(st, ps)
  BY DEF Registry!Within, R!Within
<1> QED BY <1>2, <1>3, <1>4, <1>7, <1>8, <1>9

\* The sessions resolve UIDs as the registry does.
LEMMA ResolvedIsStep ==
    ASSUME NEW ids \in Catalogues, ResolveListed(ids)
    PROVE  R!Resolve(ids) \/ R!ResolveUnsaved(ids) \/ R!ResolveTorn(ids) \/ R!ResolveUnread(ids)
<1>1. \A st : /\ Registry!Serve(st, ids) <=> R!Serve(st, ids)
              /\ Registry!Save(st, ids) <=> R!Save(st, ids)
  BY SameRegistry DEF Registry!Serve, Registry!Save, R!Serve, R!Save
<1>2. Registry!Fault <=> R!Fault
  BY DEF Registry!Fault, R!Fault
<1>3. Registry!NoState = R!NoState
  BY DEF Registry!NoState, R!NoState
<1>4. CASE Registry!Resolve(ids)
  BY <1>1, <1>4, SameRegistry DEF Registry!Resolve, R!Resolve
<1>5. CASE Registry!ResolveUnsaved(ids)
  BY <1>1, <1>2, <1>5, SameRegistry DEF Registry!ResolveUnsaved, R!ResolveUnsaved
<1>6. CASE Registry!ResolveTorn(ids)
  BY <1>1, <1>2, <1>3, <1>6, SameRegistry DEF Registry!ResolveTorn, R!ResolveTorn
<1>7. CASE Registry!ResolveUnread(ids)
  BY <1>1, <1>2, <1>3, <1>7, SameRegistry DEF Registry!ResolveUnread, R!ResolveUnread
<1> QED BY <1>4, <1>5, <1>6, <1>7 DEF ResolveListed

LEMMA CrashIsStep ==
    ASSUME NEW ids \in Catalogues, Registry!CrashInPersist(ids)
    PROVE  R!Next
<1>1. R!CrashInPersist(ids)
  BY DEF Registry!CrashInPersist, Registry!Fault, Registry!Current, Registry!LoadOrFresh,
         Registry!Fresh, Registry!NoState, Registry!IsCoherent, Registry!New,
         R!CrashInPersist, R!Fault, R!Current, R!LoadOrFresh, R!Fresh, R!NoState, R!IsCoherent, R!New
<1> QED BY <1>1 DEF R!Next

LEMMA OwnStep == Registry!Restart \/ Registry!FileDamaged \/ Registry!Tick => R!Next
  BY DEF Registry!Restart, Registry!FileDamaged, Registry!Tick, Registry!NoState, Registry!Fault,
         R!Restart, R!FileDamaged, R!Tick, R!NoState, R!Fault, R!Next

\* A failed call to maild counts as a fault and touches nothing else.
FaultOnly == Fault /\ UNCHANGED <<cache, disk, clock, served, unsaved>>

LEMMA FaultKeepsRegistry == R!IInv /\ FaultOnly => R!IInv'
<1> SUFFICES ASSUME R!IInv, FaultOnly PROVE R!IInv'
  OBVIOUS
<1>1. faults' \in 0 .. MaxFaults
  BY NumbersAssumption DEF FaultOnly, Fault, Registry!Fault, R!IInv, R!TypeOK
<1>2. UNCHANGED <<cache, disk, clock, served, unsaved>>
  BY DEF FaultOnly
<1>3. R!TypeOK'
  BY <1>1, <1>2 DEF R!IInv, R!TypeOK, R!States, R!Pairs
<1> QED BY <1>2, <1>3
        DEF R!IInv, R!Good, R!Knows, R!Lags, R!Past, R!UidNamesOneMessage, R!MessageKeepsUid,
            R!IsCoherent, R!Below, R!OneOwner, R!NoState, R!States

\* The sessions keep what the registry keeps.
LEMMA RegistryKept ==
    ASSUME IInv, R!IInv, [Next]_vars
    PROVE  R!IInv'
<1>0. ASSUME NEW s \in Sessions
      PROVE  [i \in DOMAIN session[s].list |-> session[s].list[i].msg] \in Catalogues
  <2>1. session[s].list \in Seq(ListedRows) /\ Distinct(session[s].list) /\ Len(session[s].list) <= Window
    BY DEF IInv, SessionsInv, SessionInv, SessionType, ListInv
  <2> QED BY <2>1, ListedIds
<1>1. CASE UNCHANGED registryVars
  <2>1. UNCHANGED R!vars
    BY <1>1 DEF registryVars, R!vars
  <2> QED BY <2>1, R!NextKeepsInv, RegistryAssumptions
<1>2. CASE R!Next
  BY <1>2, R!NextKeepsInv, RegistryAssumptions
<1>3. CASE FaultOnly
  BY <1>3, FaultKeepsRegistry
<1>4. ASSUME NEW s \in Sessions, SessionStep(s) PROVE UNCHANGED registryVars \/ R!Next \/ FaultOnly
  <2>1. CASE Reply(s)
    BY <1>0, <2>1, ResolvedIsStep DEF Reply, R!Next
  <2>2. ASSUME NEW i, NEW mode, NEW fs, StoreUnanswered(s, i, mode, fs) PROVE FaultOnly
    BY <2>2 DEF StoreUnanswered, FaultOnly
  <2>3. CASE ExpungeOneFails(s)
    BY <2>3 DEF ExpungeOneFails, FaultOnly
  <2>4. CASE Login(s) \/ Logout(s) \/ BeginExpunge(s) \/ ExpungeOne(s) \/ EndExpunge(s)
    BY <2>4 DEF Login, Logout, BeginExpunge, ExpungeOne, EndExpunge
  <2>5. ASSUME NEW cmd, List(s, cmd) PROVE UNCHANGED registryVars
    BY <2>5 DEF List
  <2>6. ASSUME NEW i, NEW mode, NEW fs, Store(s, i, mode, fs) PROVE UNCHANGED registryVars
    BY <2>6 DEF Store
  <2> QED BY <1>4, <2>1, <2>2, <2>3, <2>4, <2>5, <2>6 DEF SessionStep
<1>5. CASE RestartBridge
  BY <1>0, <1>2, <1>5, CrashIsStep, OwnStep DEF RestartBridge
<1>6. CASE RegistryStep
  BY <1>2, <1>6, OwnStep DEF RegistryStep
<1>7. ASSUME NEW m, Arrive(m) PROVE UNCHANGED registryVars
  BY <1>7 DEF Arrive
<1>8. CASE UNCHANGED vars
  BY <1>1, <1>8 DEF vars
<1> QED BY <1>1, <1>2, <1>3, <1>4, <1>5, <1>6, <1>7, <1>8 DEF Next

\* The messages resolved have UIDs, and those that had one keep it.
LEMMA ResolvedFacts ==
    ASSUME R!IInv, NEW ids \in Catalogues, ResolveListed(ids)
    PROVE  /\ \A m \in Messages : cache.uid[m] \in 0 .. MaxUid /\ cache'.uid[m] \in 0 .. MaxUid
           /\ \A m \in Messages : cache.uid[m] # 0 => cache'.uid[m] = cache.uid[m]
           /\ \A i \in 1 .. Len(ids) : ids[i] \in Messages /\ cache'.uid[ids[i]] # 0
           /\ \A m, n \in Messages :
                 cache'.uid[m] = cache'.uid[n] /\ cache'.uid[m] # 0 /\ cache'.uid[m] # MaxUid => m = n
<1>1. PICK st : /\ cache' = R!Assign(st, ids) /\ R!Good(st)
                /\ \A m \in Messages : cache.uid[m] # 0 => st.uid[m] = cache.uid[m]
  <2>1. CASE cache' = R!Assign(R!Current, ids)
    <3>1. R!Good(R!Current)
      BY R!CurrentIsGood, RegistryAssumptions
    <3>2. ASSUME NEW m \in Messages, cache.uid[m] # 0 PROVE R!Current.uid[m] = cache.uid[m]
      <4>1. cache # R!NoState
        BY <3>2 DEF R!NoState
      <4> QED BY <4>1 DEF R!Current
    <3> QED BY <2>1, <3>1, <3>2
  <2>2. CASE cache' = R!Assign(R!Fresh, ids) /\ cache = R!NoState
    <3>1. R!Good(R!Fresh)
      BY <2>2, R!FreshIsGood, RegistryAssumptions
    <3>2. \A m \in Messages : cache.uid[m] = 0
      BY <2>2 DEF R!NoState
    <3> QED BY <2>2, <3>1, <3>2
  <2> QED BY <2>1, <2>2, ResolvedIsStep
          DEF R!Resolve, R!ResolveUnsaved, R!ResolveTorn, R!ResolveUnread, R!Serve
<1>2. st \in R!States /\ R!Below(st) /\ R!OneOwner(st)
  BY <1>1 DEF R!Good
<1>3. /\ cache' \in R!States /\ R!OneOwner(cache')
      /\ \A m \in Messages : st.uid[m] # 0 => cache'.uid[m] = st.uid[m]
      /\ \A m \in Messages : m \notin R!New(st, ids) => cache'.uid[m] = st.uid[m]
      /\ \A m \in R!New(st, ids) : cache'.uid[m] \in 1 .. MaxUid
  BY <1>1, <1>2, R!AssignFacts, RegistryAssumptions
<1>4. \A m \in Messages : cache.uid[m] \in 0 .. MaxUid /\ cache'.uid[m] \in 0 .. MaxUid
  BY <1>3 DEF R!IInv, R!TypeOK, R!States
<1>5. ASSUME NEW i \in 1 .. Len(ids) PROVE ids[i] \in Messages /\ cache'.uid[ids[i]] # 0
  <2>1. ids \in Seq(Messages)
    BY RegistryAssumptions
  <2>2. ids[i] \in Messages
    BY <2>1
  <2>3. CASE ids[i] \in R!New(st, ids)
    <3>1. cache'.uid[ids[i]] \in 1 .. MaxUid
      BY <1>3, <2>3
    <3> QED BY <2>2, <3>1
  <2>4. CASE ids[i] \notin R!New(st, ids)
    <3>1. st.uid[ids[i]] # 0
      BY <2>2, <2>4 DEF R!New
    <3> QED BY <1>3, <2>2, <3>1
  <2> QED BY <2>3, <2>4
<1> QED BY <1>1, <1>3, <1>4, <1>5 DEF R!OneOwner

----------------------------------------------------------------------------
(* Sessions *)

\* What holds of a session outlives new marks and new UIDs.
LEMMA SessionKept ==
    ASSUME NEW ses, NEW known, NEW u, NEW v, NEW mk, NEW nk, SessionInv(ses, known, u, mk),
           mk \subseteq nk, \A m \in Messages : u[m] # 0 => v[m] = u[m]
    PROVE  SessionInv(ses, known, v, nk)
<1>1. ses.box \in Seq(Rows) /\ known \in Seq(Slots)
  BY DEF SessionInv, SessionType
<1>2. Attached(ses.box, v)
  <2> SUFFICES ASSUME NEW i \in 1 .. Len(ses.box) PROVE ses.box[i].uid = v[ses.box[i].msg]
    BY DEF Attached
  <2>1. ses.box[i] \in Rows
    BY <1>1
  <2>2. ses.box[i].uid # 0 /\ ses.box[i].msg \in Messages
    BY <2>1 DEF Rows
  <2> QED BY <2>2 DEF SessionInv, BoxInv, Attached
<1>3. Attached(known, v)
  <2> SUFFICES ASSUME NEW i \in 1 .. Len(known) PROVE known[i].uid = v[known[i].msg]
    BY DEF Attached
  <2>1. known[i] \in Slots
    BY <1>1
  <2>2. known[i].uid # 0 /\ known[i].msg \in Messages
    BY <2>1 DEF Slots
  <2> QED BY <2>2 DEF SessionInv, BoxInv, Attached
<1>4. DeletedIn(ses.box, nk) /\ DeletedIn(ses.list, nk)
  BY DEF SessionInv, BoxInv, DeletedIn
<1> QED BY <1>2, <1>3, <1>4 DEF SessionInv, BoxInv

\* One session moves.
LEMMA OneMoves ==
    ASSUME NEW se, NEW vw, NEW u, NEW v, NEW mk, NEW nk, SessionsInv(se, vw, u, mk),
           mk \subseteq nk, \A m \in Messages : u[m] # 0 => v[m] = u[m],
           NEW s \in Sessions, NEW x, NEW y, SessionInv(x, y, v, nk)
    PROVE  SessionsInv([se EXCEPT ![s] = x], [vw EXCEPT ![s] = y], v, nk)
<1> DEFINE a == [se EXCEPT ![s] = x]
           b == [vw EXCEPT ![s] = y]
<1>1. x \in SessionType /\ y \in Seq(Slots)
  BY DEF SessionInv
<1>2. se \in [Sessions -> SessionType] /\ vw \in [Sessions -> Seq(Slots)]
  BY DEF SessionsInv
<1>3. /\ a \in [Sessions -> SessionType] /\ b \in [Sessions -> Seq(Slots)]
      /\ a[s] = x /\ b[s] = y
      /\ \A t \in Sessions : t # s => a[t] = se[t] /\ b[t] = vw[t]
  BY <1>1, <1>2
<1> HIDE DEF a, b
<1>4. ASSUME NEW t \in Sessions PROVE SessionInv(a[t], b[t], v, nk)
  <2>1. CASE t = s
    BY <1>3, <2>1
  <2>2. CASE t # s
    <3>1. SessionInv(se[t], vw[t], u, mk)
      BY DEF SessionsInv
    <3>2. SessionInv(se[t], vw[t], v, nk)
      BY <3>1, SessionKept
    <3> QED BY <1>3, <2>2, <3>2
  <2> QED BY <2>1, <2>2
<1>5. SessionsInv(a, b, v, nk)
  BY <1>3, <1>4 DEF SessionsInv
<1> QED BY <1>5 DEF a, b

\* No session moves.
LEMMA NoneMoves ==
    ASSUME NEW se, NEW vw, NEW u, NEW v, NEW mk, NEW nk, SessionsInv(se, vw, u, mk),
           mk \subseteq nk, \A m \in Messages : u[m] # 0 => v[m] = u[m]
    PROVE  SessionsInv(se, vw, v, nk)
  BY SessionKept DEF SessionsInv

LEMMA OutFacts ==
    ASSUME NEW u, NEW mk
    PROVE  SessionInv(LoggedOut, <<>>, u, mk)
<1>1. LoggedOut \in SessionType
  BY DEF LoggedOut, SessionType
<1>2. <<>> \in Seq(Slots)
  OBVIOUS
<1>3. ListInv(LoggedOut)
  BY NumbersAssumption DEF ListInv, LoggedOut, Distinct
<1>4. TodoInv(LoggedOut)
  BY DEF TodoInv, LoggedOut, Ascending
<1>5. LinesInv(LoggedOut)
  BY DEF LinesInv, LoggedOut, Announced
<1>6. BoxInv(LoggedOut, <<>>, u, mk)
  BY DEF BoxInv, LoggedOut, Distinct, Sorted, Attached, DeletedIn
<1> QED BY <1>1, <1>2, <1>3, <1>4, <1>5, <1>6 DEF SessionInv

LEMMA AllOut ==
    ASSUME NEW u, NEW mk
    PROVE  SessionsInv([s \in Sessions |-> LoggedOut], [s \in Sessions |-> <<>>], u, mk)
  BY OutFacts DEF SessionsInv, SessionInv

LEMMA InitInv == Init => IInv /\ R!IInv
<1> SUFFICES ASSUME Init PROVE IInv /\ R!IInv
  OBVIOUS
<1>1. R!Init
  BY DEF Init, Registry!Init, Registry!NoState, R!Init, R!NoState
<1>2. R!IInv
  BY <1>1, R!InitInv, RegistryAssumptions
<1>3. ServerInv
  <2>1. catalogue = <<>> /\ flags = [m \in Messages |-> {}] /\ marked = {} /\ purged = {}
    BY DEF Init
  <2>2. IsInjective(catalogue)
    BY <2>1 DEF IsInjective
  <2> QED BY <2>1, <2>2 DEF ServerInv
<1>4. MarkInv
  BY DEF Init, MarkInv
<1>5. SessionsInv(session, view, cache.uid, marked)
  BY AllOut DEF Init
<1> QED BY <1>2, <1>3, <1>4, <1>5 DEF IInv

----------------------------------------------------------------------------
(* The server *)

LEMMA RecentFacts ==
    ASSUME ServerInv
    PROVE  /\ Recent \in Seq(Messages) /\ Len(Recent) <= Window
           /\ \E d \in Nat : /\ Len(Recent) + d = Len(catalogue)
                             /\ \A i \in 1 .. Len(Recent) : Recent[i] = catalogue[i + d]
<1> DEFINE n == Len(catalogue)
<1>1. n \in Nat /\ Window \in Nat /\ catalogue \in Seq(Messages)
  BY NumbersAssumption DEF ServerInv
<1>2. CASE n > Window
  <2> DEFINE d == n - Window
             r == SubSeq(catalogue, d + 1, n)
  <2>1. d \in Nat /\ d + 1 \in 1 .. n + 1 /\ n \in 0 .. n /\ n - (d + 1) + 1 = Window
    BY <1>1, <1>2
  <2>2. r \in Seq(Messages) /\ Len(r) = Window /\ \A i \in 1 .. Window : r[i] = catalogue[i + d]
    BY <1>1, <1>2
  <2>3. Recent = r
    BY <1>2 DEF Recent
  <2> HIDE DEF d, r
  <2>4. Window + d = n
    BY <1>1, <2>1 DEF d
  <2>5. Len(Recent) <= Window /\ Len(Recent) + d = n /\ Recent \in Seq(Messages)
    BY <1>1, <2>2, <2>3, <2>4
  <2>6. \A i \in 1 .. Len(Recent) : Recent[i] = catalogue[i + d]
    BY <2>2, <2>3
  <2> QED BY <2>1, <2>5, <2>6
<1>3. CASE ~(n > Window)
  <2>1. Recent = catalogue
    BY <1>3 DEF Recent
  <2>2. 0 \in Nat /\ n + 0 = n /\ \A i \in 1 .. n : i + 0 = i
    BY <1>1
  <2>3. n <= Window
    BY <1>1, <1>3
  <2> QED BY <1>1, <2>1, <2>2, <2>3
<1> QED BY <1>2, <1>3

\* The server lists each message once, with its flags.
LEMMA ListingFacts ==
    ASSUME ServerInv, MarkInv
    PROVE  /\ Listing \in Seq(ListedRows) /\ Distinct(Listing) /\ Len(Listing) <= Window
           /\ DeletedIn(Listing, marked) /\ Mirrors(Listing, flags)
           /\ Msgs(Listing) \subseteq Catalogued
<1> DEFINE n == Len(Recent)
<1>1. PICK d \in Nat : n + d = Len(catalogue) /\ \A i \in 1 .. n : Recent[i] = catalogue[i + d]
  BY RecentFacts
<1>2. Recent \in Seq(Messages) /\ n \in Nat /\ n <= Window /\ DOMAIN Recent = 1 .. n
  BY RecentFacts
<1>3. catalogue \in Seq(Messages) /\ IsInjective(catalogue) /\ flags \in [Messages -> SUBSET Flags]
  BY DEF ServerInv
<1>4. \A i \in 1 .. n : Recent[i] \in Messages /\ i + d \in DOMAIN catalogue /\ Recent[i] = catalogue[i + d]
  BY <1>1, <1>2, <1>3
<1> HIDE DEF n
<1>5. Listing = [i \in 1 .. n |-> [msg |-> Recent[i], flags |-> flags[Recent[i]]]]
  BY <1>2 DEF Listing
<1>6. Listing \in Seq(ListedRows) /\ Len(Listing) = n
  <2>1. \A i \in 1 .. n : [msg |-> Recent[i], flags |-> flags[Recent[i]]] \in ListedRows
    BY <1>3, <1>4 DEF ListedRows
  <2> QED BY <1>2, <1>5, <2>1
<1>7. \A i \in 1 .. n : Listing[i].msg = Recent[i] /\ Listing[i].flags = flags[Recent[i]]
  BY <1>5
<1>8. Distinct(Listing)
  <2> SUFFICES ASSUME NEW i \in 1 .. n, NEW j \in 1 .. n, Recent[i] = Recent[j] PROVE i = j
    BY <1>6, <1>7 DEF Distinct
  <2>1. i + d = j + d
    BY <1>3, <1>4 DEF IsInjective
  <2> QED BY <1>1, <1>2, <2>1
<1>9. DeletedIn(Listing, marked)
  BY <1>4, <1>6, <1>7 DEF DeletedIn, MarkInv
<1>10. Mirrors(Listing, flags)
  BY <1>6, <1>7 DEF Mirrors
<1>11. Msgs(Listing) \subseteq Catalogued
  BY <1>4, <1>6, <1>7 DEF Msgs, Catalogued, ToSet
<1> QED BY <1>2, <1>6, <1>8, <1>9, <1>10, <1>11

LEMMA ArriveKeepsServer ==
    ASSUME ServerInv, MarkInv, NEW m \in Messages, Arrive(m)
    PROVE  ServerInv' /\ MarkInv'
<1>1. PICK i \in 1 .. Len(catalogue) + 1 : catalogue' = InsertAt(catalogue, i, m)
  BY DEF Arrive
<1>2. UNCHANGED <<flags, marked, purged>> /\ m \notin Catalogued
  BY DEF Arrive
<1>3. catalogue \in Seq(Messages) /\ IsInjective(catalogue)
  BY DEF ServerInv
<1>4. /\ catalogue' \in Seq(Messages) /\ Len(catalogue') = Len(catalogue) + 1
      /\ \A j \in 1 .. Len(catalogue) + 1 :
            catalogue'[j] = IF j < i THEN catalogue[j] ELSE IF j = i THEN m ELSE catalogue[j - 1]
  <2>1. /\ InsertAt(catalogue, i, m) \in Seq(Messages)
        /\ Len(InsertAt(catalogue, i, m)) = Len(catalogue) + 1
        /\ \A j \in 1 .. Len(catalogue) + 1 :
              InsertAt(catalogue, i, m)[j] =
                  IF j < i THEN catalogue[j] ELSE IF j = i THEN m ELSE catalogue[j - 1]
    BY <1>3, InsertAtFacts
  <2> QED BY <1>1, <2>1
<1>5. \A j \in 1 .. Len(catalogue) : catalogue[j] # m
  BY <1>2, <1>3 DEF Catalogued, ToSet
<1>6. \A j, k \in 1 .. Len(catalogue) : catalogue[j] = catalogue[k] => j = k
  BY <1>3 DEF IsInjective
<1>7. IsInjective(catalogue')
  <2> DEFINE n == Len(catalogue)
  <2>1. n \in Nat /\ DOMAIN catalogue' = 1 .. n + 1 /\ i \in 1 .. n + 1
    BY <1>3, <1>4
  <2> HIDE DEF n
  <2> SUFFICES ASSUME NEW j \in 1 .. n + 1, NEW k \in 1 .. n + 1, j < k PROVE catalogue'[j] # catalogue'[k]
    BY <2>1 DEF IsInjective
  <2>2. CASE k < i
    BY <1>4, <1>6, <2>1, <2>2 DEF n
  <2>3. CASE j < i /\ k = i
    BY <1>4, <1>5, <2>1, <2>3 DEF n
  <2>4. CASE j < i /\ i < k
    <3>1. catalogue'[j] = catalogue[j] /\ catalogue'[k] = catalogue[k - 1] /\ j \in 1 .. n /\ k - 1 \in 1 .. n /\ j # k - 1
      BY <1>4, <2>1, <2>4 DEF n
    <3> QED BY <1>6, <3>1 DEF n
  <2>5. CASE j = i
    <3>1. catalogue'[j] = m /\ catalogue'[k] = catalogue[k - 1] /\ k - 1 \in 1 .. n
      BY <1>4, <2>1, <2>5 DEF n
    <3> QED BY <1>5, <3>1 DEF n
  <2>6. CASE i < j
    <3>1. catalogue'[j] = catalogue[j - 1] /\ catalogue'[k] = catalogue[k - 1]
          /\ j - 1 \in 1 .. n /\ k - 1 \in 1 .. n /\ j - 1 # k - 1
      BY <1>4, <2>1, <2>6 DEF n
    <3> QED BY <1>6, <3>1 DEF n
  <2> QED BY <2>1, <2>2, <2>3, <2>4, <2>5, <2>6
<1> QED BY <1>2, <1>4, <1>7 DEF ServerInv, MarkInv

\* A message the server removes was marked.
LEMMA DeleteKeepsServer ==
    ASSUME ServerInv, MarkInv, NEW m \in marked, Delete(m)
    PROVE  ServerInv' /\ MarkInv'
<1>1. PICK i \in DOMAIN catalogue : catalogue' = RemoveAt(catalogue, i)
  BY DEF Delete
<1>2. UNCHANGED <<flags, marked>> /\ purged' = purged \cup {m}
  BY DEF Delete
<1>3. catalogue \in Seq(Messages) /\ IsInjective(catalogue) /\ i \in 1 .. Len(catalogue)
  BY DEF ServerInv
<1>4. /\ catalogue' \in Seq(Messages) /\ Len(catalogue') = Len(catalogue) - 1
      /\ \A j \in 1 .. Len(catalogue) - 1 :
            catalogue'[j] = IF j < i THEN catalogue[j] ELSE catalogue[j + 1]
  BY <1>1, <1>3, RemoveAtFacts
<1>5. \A j, k \in 1 .. Len(catalogue) : catalogue[j] = catalogue[k] => j = k
  BY <1>3 DEF IsInjective
<1>6. IsInjective(catalogue')
  <2> DEFINE n == Len(catalogue)
  <2>1. n \in Nat /\ DOMAIN catalogue' = 1 .. n - 1 /\ i \in 1 .. n
    BY <1>3, <1>4
  <2> HIDE DEF n
  <2> SUFFICES ASSUME NEW j \in 1 .. n - 1, NEW k \in 1 .. n - 1, j < k PROVE catalogue'[j] # catalogue'[k]
    BY <2>1 DEF IsInjective
  <2>2. j \in 1 .. n /\ j + 1 \in 1 .. n /\ k \in 1 .. n /\ k + 1 \in 1 .. n /\ j # k /\ j # k + 1 /\ j + 1 # k + 1
    BY <2>1
  <2>3. CASE k < i
    BY <1>4, <1>5, <2>1, <2>2, <2>3 DEF n
  <2>4. CASE j < i /\ ~(k < i)
    BY <1>4, <1>5, <2>1, <2>2, <2>4 DEF n
  <2>5. CASE ~(j < i)
    BY <1>4, <1>5, <2>1, <2>2, <2>5 DEF n
  <2> QED BY <2>1, <2>3, <2>4, <2>5
<1> QED BY <1>2, <1>4, <1>6 DEF ServerInv, MarkInv

LEMMA ApplyKeepsServer ==
    ASSUME ServerInv, MarkInv, NEW m \in Messages, NEW mode, NEW fs \in SUBSET Flags, StoreOnServer(m, mode, fs)
    PROVE  /\ ServerInv' /\ MarkInv' /\ marked \subseteq marked'
           /\ mode # "remove" /\ "deleted" \in fs => m \in marked'
<1> DEFINE added == IF mode = "remove" THEN {} ELSE fs
           removed == IF mode = "remove" THEN fs ELSE {}
<1>1. added \in SUBSET Flags /\ Apply(m, added, removed)
  BY DEF StoreOnServer
<1>2. /\ flags' = [flags EXCEPT ![m] = (flags[m] \cup added) \ removed]
      /\ marked' = IF "deleted" \in added THEN marked \cup {m} ELSE marked
      /\ UNCHANGED <<catalogue, purged>>
  BY <1>1 DEF Apply
<1>3. mode # "remove" /\ "deleted" \in fs => m \in marked'
  BY <1>2
<1> HIDE DEF added, removed
<1>4. ServerInv'
  <2>1. flags' \in [Messages -> SUBSET Flags]
    BY <1>1, <1>2 DEF ServerInv
  <2>2. marked' \subseteq Messages
    BY <1>2 DEF ServerInv
  <2> QED BY <1>2, <2>1, <2>2 DEF ServerInv
<1>5. MarkInv'
  <2>1. ASSUME NEW n \in Messages, "deleted" \in flags'[n] PROVE n \in marked'
    <3>1. CASE n = m
      BY <1>2, <2>1, <3>1 DEF ServerInv, MarkInv
    <3>2. CASE n # m
      BY <1>2, <2>1, <3>2 DEF ServerInv, MarkInv
    <3> QED BY <3>1, <3>2
  <2>2. purged' \subseteq marked'
    BY <1>2 DEF MarkInv
  <2> QED BY <2>1, <2>2 DEF MarkInv
<1> QED BY <1>2, <1>3, <1>4, <1>5

----------------------------------------------------------------------------
(* Steps of a session *)

LEMMA LoginKeeps ==
    ASSUME NEW ses, NEW known, NEW u, NEW mk, SessionInv(ses, known, u, mk), ses.at = "out"
    PROVE  SessionInv([ses EXCEPT !.at = "idle"], known, u, mk)
<1> DEFINE x == [ses EXCEPT !.at = "idle"]
<1>1. /\ x \in SessionType /\ x.at = "idle" /\ x.box = ses.box /\ x.list = ses.list /\ x.todo = ses.todo
      /\ x.nth = ses.nth /\ x.gone = ses.gone /\ x.lines = ses.lines /\ x.refused = ses.refused
  BY DEF SessionInv, SessionType
<1> HIDE DEF x
<1>2. ListInv(x) /\ LinesInv(x) /\ BoxInv(x, known, u, mk)
  BY <1>1 DEF SessionInv, ListInv, LinesInv, BoxInv
<1>3. ses.todo = <<>> /\ ses.gone = <<>> /\ ses.lines = <<>> /\ ses.nth = 0 /\ ~ses.refused
  BY DEF SessionInv, TodoInv
<1>4. TodoInv(x)
  BY <1>1, <1>3 DEF SessionInv, TodoInv
<1> QED BY <1>1, <1>2, <1>4 DEF x, SessionInv

LEMMA ListKeeps ==
    ASSUME NEW ses, NEW known, NEW u, NEW mk, SessionInv(ses, known, u, mk), ses.at = "idle",
           NEW cmd \in {"SELECT", "NOOP", "STATUS"}, NEW list \in Seq(ListedRows),
           Distinct(list), Len(list) <= Window, DeletedIn(list, mk)
    PROVE  SessionInv([ses EXCEPT !.at = "listed", !.cmd = cmd, !.list = list], known, u, mk)
<1> DEFINE x == [ses EXCEPT !.at = "listed", !.cmd = cmd, !.list = list]
<1>1. /\ x \in SessionType /\ x.at = "listed" /\ x.cmd = cmd /\ x.box = ses.box /\ x.list = list
      /\ x.todo = ses.todo /\ x.nth = ses.nth /\ x.gone = ses.gone /\ x.lines = ses.lines
      /\ x.refused = ses.refused
  BY DEF SessionInv, SessionType
<1> HIDE DEF x
<1>2. ListInv(x) /\ LinesInv(x) /\ BoxInv(x, known, u, mk)
  BY <1>1 DEF SessionInv, ListInv, LinesInv, BoxInv
<1>3. ses.todo = <<>> /\ ses.gone = <<>> /\ ses.lines = <<>> /\ ses.nth = 0 /\ ~ses.refused
  BY DEF SessionInv, TodoInv
<1>4. TodoInv(x)
  BY <1>1, <1>3 DEF SessionInv, TodoInv
<1> QED BY <1>1, <1>2, <1>4 DEF x, SessionInv

\* A session whose command ends has nothing left to do.
LEMMA DoneFacts ==
    ASSUME NEW ses \in SessionType, NEW sel \in BOOLEAN, NEW box \in Seq(Rows), NEW known \in Seq(Slots),
           NEW x, x = [Done(ses) EXCEPT !.selected = sel, !.box = box], NEW u, NEW mk,
           Distinct(box), Sorted(box), Attached(box, u), Attached(known, u), DeletedIn(box, mk)
    PROVE  SessionInv(x, known, u, mk)
<1>1. /\ x \in SessionType /\ x.at = "idle" /\ x.box = box /\ x.list = <<>> /\ x.todo = <<>>
      /\ x.nth = 0 /\ x.gone = <<>> /\ x.lines = <<>> /\ ~x.refused
  <2> DEFINE d == Done(ses)
  <2>1. /\ d \in SessionType /\ d.at = "idle" /\ d.list = <<>> /\ d.todo = <<>>
        /\ d.nth = 0 /\ d.gone = <<>> /\ d.lines = <<>> /\ ~d.refused
    <3>1. d \in SessionType
      <4> DEFINE e == [ses EXCEPT !.at = "idle", !.cmd = "none", !.list = <<>>, !.todo = <<>>]
      <4>0. <<>> \in Seq(ListedRows) /\ <<>> \in Seq(Nat) /\ <<>> \in Seq(Nat \ {0})
        OBVIOUS
      <4>1. e \in SessionType
        BY <4>0 DEF SessionType
      <4>2. d = [e EXCEPT !.nth = 0, !.gone = <<>>, !.lines = <<>>, !.refused = FALSE]
        BY DEF Done
      <4> HIDE DEF d, e
      <4> QED BY <4>0, <4>1, <4>2 DEF SessionType
    <3>2. d.at = "idle" /\ d.list = <<>> /\ d.todo = <<>> /\ d.nth = 0
      BY DEF Done, SessionType
    <3>3. d.gone = <<>> /\ d.lines = <<>>
      BY DEF Done, SessionType
    <3>4. ~d.refused
      BY DEF Done, SessionType
    <3> HIDE DEF d
    <3> QED BY <3>1, <3>2, <3>3, <3>4
  <2>2. x = [d EXCEPT !.selected = sel, !.box = box]
    OBVIOUS
  <2> HIDE DEF d
  <2> QED BY <2>1, <2>2 DEF SessionType
<1>2. ListInv(x)
  BY <1>1, NumbersAssumption DEF ListInv, Distinct
<1>3. TodoInv(x)
  BY <1>1 DEF TodoInv, Ascending
<1>4. LinesInv(x)
  BY <1>1 DEF LinesInv, Announced
<1>5. BoxInv(x, known, u, mk)
  BY <1>1 DEF BoxInv, DeletedIn
<1> QED BY <1>1, <1>2, <1>3, <1>4, <1>5 DEF SessionInv

\* STORE changes the flags of one row of the copy.
LEMMA StoreKeeps ==
    ASSUME NEW ses, NEW known, NEW u, NEW mk, NEW nk, SessionInv(ses, known, u, mk), ses.at = "idle",
           mk \subseteq nk, NEW i \in DOMAIN ses.box, NEW mode \in StoreModes, NEW fs \in SUBSET Flags,
           mode # "remove" /\ "deleted" \in fs => ses.box[i].msg \in nk
    PROVE  SessionInv([ses EXCEPT !.box[i].flags = Stored(mode, fs, ses.box[i].flags)], known, u, nk)
<1> DEFINE new == Stored(mode, fs, ses.box[i].flags)
           x == [ses EXCEPT !.box[i].flags = new]
<1>1. ses \in SessionType /\ ses.box \in Seq(Rows) /\ i \in 1 .. Len(ses.box)
  BY DEF SessionInv, SessionType
<1>2. ses.box[i] \in Rows
  BY <1>1
<1>3. mode \in {"set", "add", "remove"}
  BY FlagsAssumption
<1>4. new \in SUBSET Flags
  BY <1>2, <1>3 DEF Stored, Rows
<1>5. "deleted" \in new => ses.box[i].msg \in nk
  BY <1>1, <1>3 DEF Stored, SessionInv, BoxInv, DeletedIn
<1> HIDE DEF new
<1> DEFINE b == [ses.box EXCEPT ![i].flags = new]
<1>6. b \in Seq(Rows) /\ Len(b) = Len(ses.box)
  BY <1>1, <1>2, <1>4 DEF Rows
<1>7. \A j \in 1 .. Len(b) : /\ b[j].msg = ses.box[j].msg /\ b[j].uid = ses.box[j].uid
                            /\ b[j].flags = IF j = i THEN new ELSE ses.box[j].flags
  <2>1. ASSUME NEW j \in 1 .. Len(b)
        PROVE  /\ b[j].msg = ses.box[j].msg /\ b[j].uid = ses.box[j].uid
               /\ b[j].flags = IF j = i THEN new ELSE ses.box[j].flags
    <3>1. j \in DOMAIN ses.box /\ ses.box[j] \in Rows
      BY <1>1, <1>6
    <3> QED BY <1>1, <3>1 DEF Rows
  <2> QED BY <2>1
<1>8. /\ x \in SessionType /\ x.at = ses.at /\ x.cmd = ses.cmd /\ x.box = b /\ x.list = ses.list
      /\ x.todo = ses.todo /\ x.nth = ses.nth /\ x.gone = ses.gone /\ x.lines = ses.lines
      /\ x.refused = ses.refused
  <2>1. x = [ses EXCEPT !.box = b]
    BY <1>1
  <2> HIDE DEF x, b
  <2> QED BY <1>1, <1>6, <2>1 DEF SessionType
<1> HIDE DEF x, b
<1>9. ListInv(x) /\ LinesInv(x)
  BY <1>8 DEF SessionInv, ListInv, LinesInv
<1>10. TodoInv(x)
  <2>1. ses.todo = <<>> /\ ses.gone = <<>> /\ ses.lines = <<>> /\ ses.nth = 0 /\ ~ses.refused
    BY DEF SessionInv, TodoInv
  <2> QED BY <1>8, <2>1 DEF SessionInv, TodoInv
<1>11. Distinct(b) /\ Sorted(b) /\ Attached(b, u)
  BY <1>6, <1>7 DEF SessionInv, BoxInv, Distinct, Sorted, Attached
<1>12. DeletedIn(b, nk)
  BY <1>5, <1>6, <1>7 DEF SessionInv, BoxInv, DeletedIn
<1>13. BoxInv(x, known, u, nk)
  BY <1>8, <1>11, <1>12 DEF SessionInv, BoxInv, DeletedIn
<1>14. SessionInv(x, known, u, nk)
  BY <1>8, <1>9, <1>10, <1>13 DEF SessionInv
<1> QED BY <1>14 DEF x, new

\* The first n members of an ascending sequence of numbers reach n.
LEMMA AscendingReaches ==
    ASSUME NEW ns \in Seq(Nat \ {0}), Ascending(ns), NEW k \in 1 .. Len(ns)
    PROVE  ns[k] >= k
<1> DEFINE n == Len(ns)
           S == {j \in 0 .. n : j = 0 \/ ns[j] >= j}
<1>1. n \in Nat /\ \A j \in 1 .. n : ns[j] \in Nat /\ ns[j] # 0
  OBVIOUS
<1>2. \A i, j \in 1 .. n : i < j => ns[i] < ns[j]
  BY DEF Ascending
<1> HIDE DEF n
<1>3. 0 \in S
  BY <1>1
<1>4. ASSUME NEW j \in 0 .. n - 1, j \in S PROVE j + 1 \in S
  <2>1. CASE j = 0
    BY <1>1, <2>1
  <2>2. CASE j # 0
    BY <1>1, <1>2, <1>4, <2>2
  <2> QED BY <2>1, <2>2
<1> HIDE DEF S
<1>5. 0 .. n \subseteq S
  BY <1>1, <1>3, <1>4, BoundedInduction
<1>6. k \in 0 .. n /\ k # 0
  BY <1>1 DEF n
<1> QED BY <1>5, <1>6 DEF S

\* EXPUNGE works on the messages that look deleted, from the first to the last.
LEMMA ToExpungeFacts ==
    ASSUME NEW box \in Seq(Rows)
    PROVE  LET todo == ToExpunge(box) IN
           /\ todo \in Seq(Nat \ {0}) /\ Ascending(todo)
           /\ \A k \in 1 .. Len(todo) : todo[k] \in 1 .. Len(box) /\ "deleted" \in box[todo[k]].flags
<1> DEFINE D == {i \in DOMAIN box : "deleted" \in box[i].flags}
           before == {p \in D \X D : p[1] < p[2]}
           todo == ToExpunge(box)
<1>1. Len(box) \in Nat /\ DOMAIN box = 1 .. Len(box)
  OBVIOUS
<1>2. D \subseteq 1 .. Len(box) /\ D \subseteq Nat \ {0}
  BY <1>1
<1>3. IsFiniteSet(D)
  <2>1. IsFiniteSet(1 .. Len(box))
    BY <1>1, FS_Interval
  <2> QED BY <1>2, <2>1, FS_Subset
<1>4. todo = InOrder(D, before)
  BY DEF ToExpunge
<1>5. \A i \in D : i \in 1 .. Len(box) /\ "deleted" \in box[i].flags
  BY <1>1
<1> HIDE DEF D, todo
<1>6. \A x, y \in D : <<x, y>> \in before <=> x < y
  OBVIOUS
<1> HIDE DEF before
<1>7. StrictOrder(D, before)
  BY <1>2, <1>6 DEF StrictOrder
<1>8. /\ Cardinality(D) \in Nat /\ todo \in [1 .. Cardinality(D) -> D]
      /\ \A i, j \in 1 .. Cardinality(D) : i < j => <<todo[i], todo[j]>> \in before
  BY <1>3, <1>4, <1>7, InOrderFacts
<1>9. todo \in Seq(Nat \ {0}) /\ Len(todo) = Cardinality(D)
  <2>1. todo \in [1 .. Cardinality(D) -> Nat \ {0}]
    BY <1>2, <1>8
  <2> QED BY <1>8, <2>1
<1>10. \A k \in 1 .. Len(todo) : todo[k] \in D
  BY <1>8, <1>9
<1>11. Ascending(todo)
  BY <1>6, <1>8, <1>9, <1>10 DEF Ascending
<1> QED BY <1>5, <1>9, <1>10, <1>11 DEF todo

LEMMA BeginKeeps ==
    ASSUME NEW ses, NEW known, NEW u, NEW mk, SessionInv(ses, known, u, mk), ses.at = "idle"
    PROVE  SessionInv([ses EXCEPT !.at = "expunge", !.todo = ToExpunge(ses.box)], known, u, mk)
<1> DEFINE todo == ToExpunge(ses.box)
           x == [ses EXCEPT !.at = "expunge", !.todo = todo]
<1>1. ses \in SessionType /\ ses.box \in Seq(Rows)
  BY DEF SessionInv, SessionType
<1>2. /\ todo \in Seq(Nat \ {0}) /\ Ascending(todo)
      /\ \A k \in 1 .. Len(todo) : todo[k] \in 1 .. Len(ses.box) /\ "deleted" \in ses.box[todo[k]].flags
  BY <1>1, ToExpungeFacts
<1>3. \A k \in 1 .. Len(todo) : todo[k] >= k
  BY <1>2, AscendingReaches
<1> HIDE DEF todo
<1>4. todo \in Seq(Nat)
  BY <1>2
<1>5. /\ x \in SessionType /\ x.at = "expunge" /\ x.cmd = ses.cmd /\ x.box = ses.box /\ x.list = ses.list
      /\ x.todo = todo /\ x.nth = ses.nth /\ x.gone = ses.gone /\ x.lines = ses.lines
      /\ x.refused = ses.refused
  BY <1>1, <1>4 DEF SessionType
<1> HIDE DEF x
<1>6. ListInv(x) /\ LinesInv(x) /\ BoxInv(x, known, u, mk)
  BY <1>5 DEF SessionInv, ListInv, LinesInv, BoxInv
<1>7. ses.gone = <<>> /\ ses.nth = 0
  BY DEF SessionInv, TodoInv
<1>8. TodoInv(x)
  <2>1. \A k \in 1 .. Len(todo) : todo[k] >= 0 + k
    BY <1>2, <1>3
  <2> QED BY <1>2, <1>5, <1>7, <2>1 DEF TodoInv, Ascending
<1>9. SessionInv(x, known, u, mk)
  BY <1>5, <1>6, <1>8 DEF SessionInv
<1> QED BY <1>9 DEF x, todo

\* Tail and Append, element by element.
LEMMA TailFacts ==
    ASSUME NEW S, NEW s \in Seq(S), s # <<>>
    PROVE  /\ Len(s) \in Nat \ {0} /\ Head(s) = s[1] /\ s[1] \in S
           /\ Tail(s) \in Seq(S) /\ Len(Tail(s)) = Len(s) - 1
           /\ \A j \in 1 .. Len(s) - 1 : Tail(s)[j] = s[j + 1]
  OBVIOUS

LEMMA AppendFacts ==
    ASSUME NEW S, NEW s \in Seq(S), NEW e \in S
    PROVE  /\ Append(s, e) \in Seq(S) /\ Len(Append(s, e)) = Len(s) + 1
           /\ Append(s, e)[Len(s) + 1] = e /\ \A j \in 1 .. Len(s) : Append(s, e)[j] = s[j]
  OBVIOUS

\* The next message of EXPUNGE, whatever becomes of it.
LEMMA NextFacts ==
    ASSUME NEW ses \in SessionType, TodoInv(ses), ses.todo # <<>>
    PROVE  LET h == Head(ses.todo) IN
           /\ ses.at = "expunge"
           /\ h \in 1 .. Len(ses.box) /\ "deleted" \in ses.box[h].flags /\ h >= ses.nth + 1
           /\ \A k \in 1 .. Len(ses.gone) : ses.gone[k] < h
           /\ Tail(ses.todo) \in Seq(Nat) /\ Ascending(Tail(ses.todo))
           /\ \A k \in 1 .. Len(Tail(ses.todo)) :
                 /\ Tail(ses.todo)[k] = ses.todo[k + 1] /\ k + 1 \in 1 .. Len(ses.todo)
                 /\ h < Tail(ses.todo)[k]
<1> DEFINE todo == ses.todo
           t == Tail(ses.todo)
<1>1. todo \in Seq(Nat) /\ todo # <<>>
  BY DEF SessionType
<1>2. ses.at = "expunge"
  BY DEF TodoInv
<1>3. /\ Len(todo) \in Nat \ {0} /\ Head(todo) = todo[1]
      /\ t \in Seq(Nat) /\ Len(t) = Len(todo) - 1 /\ \A j \in 1 .. Len(todo) - 1 : t[j] = todo[j + 1]
  BY <1>1, TailFacts
<1>4. 1 \in 1 .. Len(todo)
  BY <1>3
<1>5. /\ todo[1] \in 1 .. Len(ses.box) /\ "deleted" \in ses.box[todo[1]].flags /\ todo[1] >= ses.nth + 1
      /\ \A k \in 1 .. Len(ses.gone) : ses.gone[k] < todo[1]
  BY <1>4 DEF TodoInv
<1>6. \A i, j \in 1 .. Len(todo) : i < j => todo[i] < todo[j]
  BY DEF TodoInv, Ascending
<1> HIDE DEF todo, t
<1>7. \A k \in 1 .. Len(t) : /\ t[k] = todo[k + 1] /\ k + 1 \in 1 .. Len(todo) /\ 1 < k + 1
  <2>1. Len(todo) \in Nat /\ Len(t) = Len(todo) - 1
    BY <1>3
  <2>2. \A k \in 1 .. Len(t) : k \in 1 .. Len(todo) - 1 /\ k + 1 \in 1 .. Len(todo) /\ 1 < k + 1
    BY <2>1
  <2> QED BY <1>3, <2>2
<1>8. \A k \in 1 .. Len(t) : todo[1] < t[k]
  BY <1>4, <1>6, <1>7
<1>9. Ascending(t)
  <2> SUFFICES ASSUME NEW i \in 1 .. Len(t), NEW j \in 1 .. Len(t), i < j PROVE t[i] < t[j]
    BY DEF Ascending
  <2>1. i + 1 < j + 1
    BY <1>3
  <2> QED BY <1>6, <1>7, <2>1
<1> QED BY <1>2, <1>3, <1>5, <1>7, <1>8, <1>9 DEF todo, t

LEMMA RefusedKeeps ==
    ASSUME NEW ses, NEW known, NEW u, NEW mk, SessionInv(ses, known, u, mk), ses.todo # <<>>
    PROVE  SessionInv(Refused(ses), known, u, mk)
<1> DEFINE t == Tail(ses.todo)
           x == Refused(ses)
<1>1. ses \in SessionType /\ TodoInv(ses)
  BY DEF SessionInv
<1>2. /\ ses.at = "expunge" /\ t \in Seq(Nat) /\ Ascending(t)
      /\ \A k \in 1 .. Len(t) : t[k] = ses.todo[k + 1] /\ k + 1 \in 1 .. Len(ses.todo)
  BY <1>1, NextFacts
<1> HIDE DEF t
<1>3. x = [ses EXCEPT !.todo = t, !.nth = ses.nth + 1, !.refused = TRUE]
  BY DEF Refused, t
<1> HIDE DEF x
<1>4. x \in SessionType
  <2>1. ses.nth + 1 \in Nat
    BY <1>1 DEF SessionType
  <2> QED BY <1>1, <1>2, <1>3, <2>1 DEF SessionType
<1>5. /\ x.at = ses.at /\ x.cmd = ses.cmd /\ x.box = ses.box /\ x.list = ses.list
      /\ x.todo = t /\ x.nth = ses.nth + 1 /\ x.gone = ses.gone /\ x.lines = ses.lines
  BY <1>1, <1>3 DEF SessionType
<1>6. x.refused
  BY <1>1, <1>3 DEF SessionType
<1>7. ListInv(x) /\ LinesInv(x) /\ BoxInv(x, known, u, mk)
  BY <1>5, <1>6 DEF SessionInv, ListInv, LinesInv, BoxInv
<1>8. TodoInv(x)
  <2>1. ses.nth \in Nat /\ Len(t) \in Nat
    BY <1>1, <1>2 DEF SessionType
  <2>2. \A k \in 1 .. Len(t) : t[k] >= ses.nth + (k + 1)
    BY <1>1, <1>2 DEF TodoInv
  <2>3. \A k \in 1 .. Len(t) : ses.nth + (k + 1) = (ses.nth + 1) + k
    BY <2>1
  <2>4. \A k \in 1 .. Len(t) : /\ t[k] \in 1 .. Len(ses.box) /\ "deleted" \in ses.box[t[k]].flags
                              /\ t[k] >= (ses.nth + 1) + k
    BY <1>1, <1>2, <2>2, <2>3 DEF TodoInv
  <2>5. \A k \in 1 .. Len(ses.gone), l \in 1 .. Len(t) : ses.gone[k] < t[l]
    BY <1>1, <1>2 DEF TodoInv
  <2> QED BY <1>1, <1>2, <1>5, <2>4, <2>5 DEF TodoInv
<1>9. SessionInv(x, known, u, mk)
  BY <1>4, <1>5, <1>7, <1>8 DEF SessionInv
<1> QED BY <1>9 DEF x

LEMMA AcceptedKeeps ==
    ASSUME NEW ses, NEW known, NEW u, NEW mk, SessionInv(ses, known, u, mk), ses.todo # <<>>
    PROVE  SessionInv(Accepted(ses), known, u, mk)
<1> DEFINE t == Tail(ses.todo)
           h == Head(ses.todo)
           g == Append(ses.gone, h)
           line == h - ses.nth
           ls == Append(ses.lines, line)
           x == Accepted(ses)
<1>1. ses \in SessionType /\ TodoInv(ses)
  BY DEF SessionInv
<1>2. /\ ses.at = "expunge" /\ t \in Seq(Nat) /\ Ascending(t)
      /\ \A k \in 1 .. Len(t) : t[k] = ses.todo[k + 1] /\ k + 1 \in 1 .. Len(ses.todo) /\ h < t[k]
  BY <1>1, NextFacts
<1>3. /\ h \in 1 .. Len(ses.box) /\ h >= ses.nth + 1
      /\ \A k \in 1 .. Len(ses.gone) : ses.gone[k] < h
  BY <1>1, NextFacts
<1>4. /\ ses.nth \in Nat /\ ses.gone \in Seq(Nat) /\ ses.lines \in Seq(Nat \ {0})
      /\ Len(ses.gone) \in Nat /\ Len(ses.lines) \in Nat /\ Len(ses.box) \in Nat
  BY <1>1 DEF SessionType
<1>5. h \in Nat /\ line \in Nat \ {0}
  BY <1>3, <1>4
<1> HIDE DEF t, h, line
<1>6. /\ g \in Seq(Nat) /\ Len(g) = Len(ses.gone) + 1 /\ g[Len(ses.gone) + 1] = h
      /\ \A j \in 1 .. Len(ses.gone) : g[j] = ses.gone[j]
  BY <1>4, <1>5, AppendFacts
<1>7. /\ ls \in Seq(Nat \ {0}) /\ Len(ls) = Len(ses.lines) + 1 /\ ls[Len(ses.lines) + 1] = line
      /\ \A j \in 1 .. Len(ses.lines) : ls[j] = ses.lines[j]
  BY <1>4, <1>5, AppendFacts
<1> HIDE DEF g, ls
<1>8. x = [ses EXCEPT !.todo = t, !.nth = ses.nth + 1, !.gone = g, !.lines = ls]
  BY DEF Accepted, ExpungedNumber, t, g, ls, h, line
<1> HIDE DEF x
<1>9. x \in SessionType
  <2>1. ses.nth + 1 \in Nat
    BY <1>4
  <2> QED BY <1>1, <1>2, <1>6, <1>7, <1>8, <2>1 DEF SessionType
<1>10. /\ x.at = ses.at /\ x.cmd = ses.cmd /\ x.box = ses.box /\ x.list = ses.list
       /\ x.todo = t /\ x.nth = ses.nth + 1 /\ x.gone = g /\ x.lines = ls
  BY <1>1, <1>8 DEF SessionType
<1>11. x.refused <=> ses.refused
  BY <1>1, <1>8 DEF SessionType
<1>12. ListInv(x) /\ BoxInv(x, known, u, mk)
  BY <1>10 DEF SessionInv, ListInv, BoxInv
<1>13. \A k \in 1 .. Len(g) : (k \in 1 .. Len(ses.gone) /\ g[k] = ses.gone[k]) \/ (k = Len(ses.gone) + 1 /\ g[k] = h)
  <2> SUFFICES ASSUME NEW k \in 1 .. Len(g)
               PROVE  (k \in 1 .. Len(ses.gone) /\ g[k] = ses.gone[k]) \/ (k = Len(ses.gone) + 1 /\ g[k] = h)
    OBVIOUS
  <2>1. k \in 1 .. Len(ses.gone) \/ k = Len(ses.gone) + 1
    BY <1>4, <1>6
  <2>2. CASE k \in 1 .. Len(ses.gone)
    <3>1. g[k] = ses.gone[k]
      BY <1>6, <2>2
    <3> QED BY <2>2, <3>1
  <2>3. CASE k = Len(ses.gone) + 1
    BY <1>6, <2>3
  <2> QED BY <2>1, <2>2, <2>3
<1>14. TodoInv(x)
  <2>2. \A k \in 1 .. Len(t) : t[k] >= ses.nth + (k + 1)
    BY <1>1, <1>2 DEF TodoInv
  <2>1. Len(t) \in Nat /\ ses.nth \in Nat
    BY <1>2, <1>4
  <2>3. \A k \in 1 .. Len(t) : ses.nth + (k + 1) = (ses.nth + 1) + k
    BY <2>1
  <2>4. \A k \in 1 .. Len(t) : /\ t[k] \in 1 .. Len(ses.box) /\ "deleted" \in ses.box[t[k]].flags
                              /\ t[k] >= (ses.nth + 1) + k
    BY <1>1, <1>2, <2>2, <2>3 DEF TodoInv
  <2>5. \A k \in 1 .. Len(ses.gone), l \in 1 .. Len(t) : ses.gone[k] < t[l]
    BY <1>1, <1>2 DEF TodoInv
  <2>6. \A k \in 1 .. Len(g), l \in 1 .. Len(t) : g[k] < t[l]
    BY <1>2, <1>13, <2>5
  <2>7. \A k \in 1 .. Len(g) : g[k] \in 1 .. Len(ses.box)
    BY <1>1, <1>3, <1>13 DEF TodoInv
  <2>8. Ascending(g)
    <3> SUFFICES ASSUME NEW i \in 1 .. Len(g), NEW j \in 1 .. Len(g), i < j PROVE g[i] < g[j]
      BY DEF Ascending
    <3>1. i \in 1 .. Len(ses.gone)
      BY <1>4, <1>6
    <3>2. g[i] = ses.gone[i]
      BY <1>6, <3>1
    <3>3. CASE j \in 1 .. Len(ses.gone)
      <4>1. g[j] = ses.gone[j]
        BY <1>6, <3>3
      <4> QED BY <1>1, <3>1, <3>2, <3>3, <4>1 DEF TodoInv, Ascending
    <3>4. CASE g[j] = h
      BY <1>3, <3>1, <3>2, <3>4
    <3> QED BY <1>13, <3>3, <3>4
  <2> QED BY <1>2, <1>10, <2>4, <2>6, <2>7, <2>8 DEF TodoInv
<1>15. LinesInv(x)
  <2> SUFFICES ASSUME ~ses.refused PROVE Len(g) = ses.nth + 1 /\ Announced(g, ls)
    BY <1>10, <1>11 DEF LinesInv
  <2>1. Len(ses.gone) = ses.nth /\ Announced(ses.gone, ses.lines)
    BY DEF SessionInv, LinesInv
  <2>2. Len(ls) = Len(g) /\ Len(g) = ses.nth + 1 /\ Len(ses.lines) = Len(ses.gone)
    BY <1>6, <1>7, <2>1 DEF Announced
  <2>3. ASSUME NEW k \in 1 .. Len(g) PROVE ls[k] = g[k] - (k - 1)
    <3>1. CASE k \in 1 .. Len(ses.gone)
      BY <1>6, <1>7, <2>1, <2>2, <3>1 DEF Announced
    <3>2. CASE k = Len(ses.gone) + 1
      <4>1. ls[k] = line /\ g[k] = h /\ k - 1 = ses.nth
        BY <1>4, <1>6, <1>7, <2>1, <2>2, <3>2
      <4> QED BY <4>1 DEF line
    <3> QED BY <1>13, <3>1, <3>2
  <2> QED BY <2>2, <2>3 DEF Announced
<1>16. SessionInv(x, known, u, mk)
  BY <1>9, <1>12, <1>14, <1>15 DEF SessionInv
<1> QED BY <1>16 DEF x

----------------------------------------------------------------------------
(* The end of EXPUNGE *)

\* The steps of Without and of AfterExpunges.
IsLeft(f, seq, indices, n) ==
    f = [i \in 0 .. n |-> IF i = 0 THEN seq ELSE RemoveAt(f[i - 1], indices[Len(indices) + 1 - i])]

Left(seq, indices) == CHOOSE f : IsLeft(f, seq, indices, Len(indices))

Struck(known, line) == IF line <= Len(known) THEN RemoveAt(known, line) ELSE known

IsAfter(f, known, lines, n) ==
    f = [i \in 0 .. n |-> IF i = 0 THEN known ELSE Struck(f[i - 1], lines[i])]

After(known, lines) == CHOOSE f : IsAfter(f, known, lines, Len(lines))

LEMMA LeftFacts ==
    ASSUME NEW seq, NEW S, NEW indices \in Seq(S)
    PROVE  /\ Without(seq, indices) = Left(seq, indices)[Len(indices)]
           /\ Left(seq, indices)[0] = seq
           /\ \A i \in 1 .. Len(indices) :
                 Left(seq, indices)[i] = RemoveAt(Left(seq, indices)[i - 1], indices[Len(indices) + 1 - i])
<1> DEFINE N == {n \in Nat : \E f : IsLeft(f, seq, indices, n)}
<1>1. 0 \in N
  <2>1. IsLeft([i \in 0 .. 0 |-> seq], seq, indices, 0)
    BY DEF IsLeft
  <2> QED BY <2>1
<1>2. \A n \in Nat : n \in N => n + 1 \in N
  <2> SUFFICES ASSUME NEW n \in Nat, NEW f, IsLeft(f, seq, indices, n)
               PROVE  \E g : IsLeft(g, seq, indices, n + 1)
    OBVIOUS
  <2> DEFINE g == [i \in 0 .. n + 1 |->
                     IF i = n + 1 THEN RemoveAt(f[n], indices[Len(indices) + 1 - (n + 1)]) ELSE f[i]]
  <2>1. \A i \in 0 .. n + 1 :
           g[i] = IF i = 0 THEN seq ELSE RemoveAt(g[i - 1], indices[Len(indices) + 1 - i])
    BY DEF IsLeft
  <2>2. IsLeft(g, seq, indices, n + 1)
    BY <2>1 DEF IsLeft
  <2> QED BY <2>2
<1>3. Len(indices) \in N
  <2>1. Len(indices) \in Nat
    OBVIOUS
  <2> HIDE DEF N
  <2> QED BY <1>1, <1>2, <2>1, SetInduction
<1>4. IsLeft(Left(seq, indices), seq, indices, Len(indices))
  BY <1>3 DEF Left
<1>5. Without(seq, indices) = Left(seq, indices)[Len(indices)]
  BY DEF Without, Left, IsLeft
<1> DEFINE f == Left(seq, indices)
           m == Len(indices)
<1>6. m \in Nat /\ 0 \in 0 .. m /\ \A i \in 1 .. m : i \in 0 .. m /\ i # 0
  OBVIOUS
<1>7. \A i \in 0 .. m : f[i] = IF i = 0 THEN seq ELSE RemoveAt(f[i - 1], indices[m + 1 - i])
  <2> HIDE DEF f
  <2> QED BY <1>4 DEF IsLeft, f
<1> HIDE DEF f, m
<1>8. f[0] = seq /\ \A i \in 1 .. m : f[i] = RemoveAt(f[i - 1], indices[m + 1 - i])
  BY <1>6, <1>7
<1> QED BY <1>5, <1>8 DEF f, m

LEMMA AfterFacts ==
    ASSUME NEW known, NEW S, NEW lines \in Seq(S)
    PROVE  /\ AfterExpunges(known, lines) = After(known, lines)[Len(lines)]
           /\ After(known, lines)[0] = known
           /\ \A i \in 1 .. Len(lines) :
                 After(known, lines)[i] = Struck(After(known, lines)[i - 1], lines[i])
<1> DEFINE N == {n \in Nat : \E f : IsAfter(f, known, lines, n)}
<1>1. 0 \in N
  <2>1. IsAfter([i \in 0 .. 0 |-> known], known, lines, 0)
    BY DEF IsAfter
  <2> QED BY <2>1
<1>2. \A n \in Nat : n \in N => n + 1 \in N
  <2> SUFFICES ASSUME NEW n \in Nat, NEW f, IsAfter(f, known, lines, n)
               PROVE  \E g : IsAfter(g, known, lines, n + 1)
    OBVIOUS
  <2> DEFINE g == [i \in 0 .. n + 1 |-> IF i = n + 1 THEN Struck(f[n], lines[n + 1]) ELSE f[i]]
  <2>1. \A i \in 0 .. n + 1 : g[i] = IF i = 0 THEN known ELSE Struck(g[i - 1], lines[i])
    BY DEF IsAfter
  <2>2. IsAfter(g, known, lines, n + 1)
    BY <2>1 DEF IsAfter
  <2> QED BY <2>2
<1>3. Len(lines) \in N
  <2>1. Len(lines) \in Nat
    OBVIOUS
  <2> HIDE DEF N
  <2> QED BY <1>1, <1>2, <2>1, SetInduction
<1>4. IsAfter(After(known, lines), known, lines, Len(lines))
  BY <1>3 DEF After
<1>6. /\ After(known, lines)[0] = known
      /\ \A i \in 1 .. Len(lines) :
            After(known, lines)[i] = Struck(After(known, lines)[i - 1], lines[i])
  <2> DEFINE f == After(known, lines)
  <2>1. f = [i \in 0 .. Len(lines) |-> IF i = 0 THEN known ELSE Struck(f[i - 1], lines[i])]
    BY <1>4 DEF IsAfter
  <2> HIDE DEF f
  <2>2. Len(lines) \in Nat
    OBVIOUS
  <2>3. \A i \in 0 .. Len(lines) : f[i] = IF i = 0 THEN known ELSE Struck(f[i - 1], lines[i])
    BY <2>1
  <2>4. f[0] = known /\ \A i \in 1 .. Len(lines) : f[i] = Struck(f[i - 1], lines[i])
    <3>1. 0 \in 0 .. Len(lines) /\ \A i \in 1 .. Len(lines) : i \in 0 .. Len(lines) /\ i # 0
      BY <2>2
    <3> QED BY <2>3, <3>1
  <2> QED BY <2>4 DEF f
<1>5. AfterExpunges(known, lines) = After(known, lines)[Len(lines)]
  BY DEF AfterExpunges, After, IsAfter, Struck
<1> QED BY <1>5, <1>6

\* Removing a row keeps what the rows have in common, and their order.
LEMMA RemoveKeepsRows ==
    ASSUME NEW rows \in Seq(Rows), NEW i \in 1 .. Len(rows), NEW u, NEW mk,
           Distinct(rows), Sorted(rows), Attached(rows, u), DeletedIn(rows, mk)
    PROVE  LET r == RemoveAt(rows, i) IN
           /\ r \in Seq(Rows) /\ Len(r) = Len(rows) - 1
           /\ Distinct(r) /\ Sorted(r) /\ Attached(r, u) /\ DeletedIn(r, mk)
<1> DEFINE r == RemoveAt(rows, i)
           n == Len(rows)
           at(j) == IF j < i THEN j ELSE j + 1
<1>1. n \in Nat /\ i \in 1 .. n
  OBVIOUS
<1>2. /\ r \in Seq(Rows) /\ Len(r) = n - 1
      /\ \A j \in 1 .. n - 1 : r[j] = IF j < i THEN rows[j] ELSE rows[j + 1]
  BY RemoveAtFacts
<1> HIDE DEF r
<1>3. \A j \in 1 .. Len(r) : at(j) \in 1 .. n /\ r[j] = rows[at(j)]
  BY <1>1, <1>2
<1>4. \A j, k \in 1 .. Len(r) : (at(j) = at(k) => j = k) /\ (j < k => at(j) < at(k))
  BY <1>1, <1>2
<1> HIDE DEF at, n
<1>5. Distinct(r)
  BY <1>3, <1>4 DEF Distinct, n
<1>6. Sorted(r)
  BY <1>3, <1>4 DEF Sorted, n
<1>7. Attached(r, u)
  BY <1>3 DEF Attached, n
<1>8. DeletedIn(r, mk)
  BY <1>3 DEF DeletedIn, n
<1> QED BY <1>2, <1>5, <1>6, <1>7, <1>8 DEF r, n

LEMMA WithoutKeepsRows ==
    ASSUME NEW rows \in Seq(Rows), NEW gone \in Seq(Nat), NEW u, NEW mk, Ascending(gone),
           \A k \in 1 .. Len(gone) : gone[k] \in 1 .. Len(rows),
           Distinct(rows), Sorted(rows), Attached(rows, u), DeletedIn(rows, mk)
    PROVE  LET r == Without(rows, gone) IN
           r \in Seq(Rows) /\ Distinct(r) /\ Sorted(r) /\ Attached(r, u) /\ DeletedIn(r, mk)
<1> DEFINE n == Len(gone)
           f == Left(rows, gone)
           Good(r) == r \in Seq(Rows) /\ Distinct(r) /\ Sorted(r) /\ Attached(r, u) /\ DeletedIn(r, mk)
           S == {i \in 0 .. n : /\ Good(f[i])
                                /\ i < n => gone[n - i] \in 1 .. Len(f[i])}
<1>1. n \in Nat /\ \A k \in 1 .. n : gone[k] \in Nat /\ gone[k] \in 1 .. Len(rows)
  OBVIOUS
<1>2. /\ Without(rows, gone) = f[n] /\ f[0] = rows
      /\ \A i \in 1 .. n : f[i] = RemoveAt(f[i - 1], gone[n + 1 - i])
  BY LeftFacts
<1>3. \A i, j \in 1 .. n : i < j => gone[i] < gone[j]
  BY DEF Ascending
<1> HIDE DEF n, f
<1>4. 0 \in S
  BY <1>1, <1>2
<1>5. ASSUME NEW i \in 0 .. n - 1, i \in S PROVE i + 1 \in S
  <2>1. i \in Nat /\ i + 1 \in 0 .. n /\ i + 1 \in 1 .. n /\ (i + 1) - 1 = i /\ n + 1 - (i + 1) = n - i /\ n - i \in 1 .. n
    BY <1>1
  <2>2. f[i + 1] = RemoveAt(f[i], gone[n - i])
    BY <1>2, <2>1
  <2>3. Good(f[i]) /\ gone[n - i] \in 1 .. Len(f[i])
    BY <1>1, <1>5, <2>1
  <2>4. Good(f[i + 1]) /\ Len(f[i + 1]) = Len(f[i]) - 1
    BY <2>2, <2>3, RemoveKeepsRows
  <2>5. ASSUME i + 1 < n PROVE gone[n - (i + 1)] \in 1 .. Len(f[i + 1])
    <3>1. n - (i + 1) \in 1 .. n /\ n - (i + 1) < n - i
      BY <1>1, <2>1, <2>5
    <3>2. gone[n - (i + 1)] < gone[n - i] /\ gone[n - (i + 1)] \in 1 .. Len(rows)
      BY <1>1, <1>3, <2>1, <3>1
    <3>3. Len(f[i]) \in Nat
      BY <2>3
    <3> DEFINE x == gone[n - (i + 1)]
               y == gone[n - i]
    <3>4. x \in Nat /\ x < y /\ y \in 1 .. Len(f[i]) /\ x \in 1 .. Len(rows)
      BY <1>1, <2>3, <3>1, <3>2
    <3> HIDE DEF x, y
    <3>5. x \in 1 .. Len(f[i]) - 1
      BY <1>1, <3>3, <3>4
    <3> QED BY <2>4, <3>5 DEF x
  <2> QED BY <2>1, <2>4, <2>5
<1>6. 0 .. n \subseteq S
  <2> HIDE DEF S
  <2> QED BY <1>1, <1>4, <1>5, BoundedInduction
<1>7. n \in S
  BY <1>1, <1>6
<1> QED BY <1>2, <1>7

\* A client keeps only what it knew.
LEMMA AfterKeepsKnown ==
    ASSUME NEW known \in Seq(Slots), NEW lines \in Seq(Nat \ {0}), NEW u, Attached(known, u)
    PROVE  AfterExpunges(known, lines) \in Seq(Slots) /\ Attached(AfterExpunges(known, lines), u)
<1> DEFINE n == Len(lines)
           f == After(known, lines)
           S == {i \in 0 .. n : f[i] \in Seq(Slots) /\ Attached(f[i], u)}
<1>1. n \in Nat /\ \A k \in 1 .. n : lines[k] \in Nat \ {0}
  OBVIOUS
<1>2. /\ AfterExpunges(known, lines) = f[n] /\ f[0] = known
      /\ \A i \in 1 .. n : f[i] = Struck(f[i - 1], lines[i])
  BY AfterFacts
<1> HIDE DEF n, f
<1>3. 0 \in S
  BY <1>1, <1>2
<1>4. ASSUME NEW i \in 0 .. n - 1, i \in S PROVE i + 1 \in S
  <2>1. i + 1 \in 0 .. n /\ i + 1 \in 1 .. n /\ (i + 1) - 1 = i
    BY <1>1
  <2>2. f[i + 1] = Struck(f[i], lines[i + 1]) /\ f[i] \in Seq(Slots) /\ Attached(f[i], u)
    BY <1>2, <1>4, <2>1
  <2> DEFINE g == f[i]
             q == lines[i + 1]
  <2>3. g \in Seq(Slots) /\ Attached(g, u) /\ q \in Nat \ {0}
    BY <1>1, <2>1, <2>2
  <2> HIDE DEF g, q
  <2>4. Struck(g, q) \in Seq(Slots) /\ Attached(Struck(g, q), u)
    <3>1. CASE q <= Len(g)
      <4>1. Len(g) \in Nat /\ q \in 1 .. Len(g)
        BY <2>3, <3>1
      <4>2. /\ RemoveAt(g, q) \in Seq(Slots) /\ Len(RemoveAt(g, q)) = Len(g) - 1
            /\ \A j \in 1 .. Len(g) - 1 : RemoveAt(g, q)[j] = IF j < q THEN g[j] ELSE g[j + 1]
        BY <2>3, <4>1, RemoveAtFacts
      <4>3. Attached(RemoveAt(g, q), u)
        <5> SUFFICES ASSUME NEW j \in 1 .. Len(g) - 1
                     PROVE  RemoveAt(g, q)[j].uid = u[RemoveAt(g, q)[j].msg]
          BY <4>2 DEF Attached
        <5>1. j \in 1 .. Len(g) /\ j + 1 \in 1 .. Len(g)
          BY <4>1
        <5> QED BY <2>3, <4>2, <5>1 DEF Attached
      <4> QED BY <3>1, <4>2, <4>3 DEF Struck
    <3>2. CASE ~(q <= Len(g))
      BY <2>3, <3>2 DEF Struck
    <3> QED BY <3>1, <3>2
  <2> QED BY <2>1, <2>2, <2>4 DEF g, q
<1>5. 0 .. n \subseteq S
  <2> HIDE DEF S
  <2> QED BY <1>1, <1>3, <1>4, BoundedInduction
<1>6. n \in S
  BY <1>1, <1>5
<1> QED BY <1>2, <1>6

LEMMA EndKeeps ==
    ASSUME NEW ses, NEW known, NEW u, NEW mk, SessionInv(ses, known, u, mk)
    PROVE  SessionInv([Done(ses) EXCEPT !.box = Without(Done(ses).box, ses.gone)],
                      AfterExpunges(known, ses.lines), u, mk)
<1> DEFINE box == Without(ses.box, ses.gone)
           after == AfterExpunges(known, ses.lines)
           x == [Done(ses) EXCEPT !.box = box]
<1>1. /\ ses \in SessionType /\ ses.box \in Seq(Rows) /\ ses.gone \in Seq(Nat)
      /\ ses.lines \in Seq(Nat \ {0}) /\ ses.selected \in BOOLEAN /\ known \in Seq(Slots)
  BY DEF SessionInv, SessionType
<1>2. box \in Seq(Rows) /\ Distinct(box) /\ Sorted(box) /\ Attached(box, u) /\ DeletedIn(box, mk)
  BY <1>1, WithoutKeepsRows DEF SessionInv, TodoInv, BoxInv
<1>3. after \in Seq(Slots) /\ Attached(after, u)
  BY <1>1, AfterKeepsKnown DEF SessionInv, BoxInv
<1> HIDE DEF box, after
<1>4. Done(ses).box = ses.box
  BY <1>1 DEF Done, SessionType
<1>5. x = [Done(ses) EXCEPT !.selected = ses.selected, !.box = box]
  BY <1>1 DEF Done, SessionType
<1> HIDE DEF x
<1>6. SessionInv(x, after, u, mk)
  BY <1>1, <1>2, <1>3, <1>5, DoneFacts
<1> QED BY <1>4, <1>6 DEF x, box, after

----------------------------------------------------------------------------
(* The answer to a listing *)

\* The rows of the new box: those listed, with their UIDs, in the order of these.
LEMMA NumberedFacts ==
    ASSUME NEW list \in Seq(ListedRows), Distinct(list), NEW u,
           \A m \in Messages : u[m] \in 0 .. MaxUid,
           \A i \in 1 .. Len(list) : u[list[i].msg] # 0,
           \A m, n \in Messages : u[m] = u[n] /\ u[m] # 0 /\ u[m] # MaxUid => m = n
    PROVE  LET box == Numbered(list, u) IN
           /\ box \in Seq(Rows) /\ Distinct(box) /\ Sorted(box) /\ Attached(box, u)
           /\ \A mk : DeletedIn(list, mk) => DeletedIn(box, mk)
           /\ \A f : Mirrors(list, f) => Mirrors(box, f)
           /\ Msgs(box) = Msgs(list) /\ Len(box) = Len(list)
<1> DEFINE n == Len(list)
           before == UidOrder(list, u)
           order == InOrder(DOMAIN list, before)
           box == Numbered(list, u)
<1>1. n \in Nat /\ DOMAIN list = 1 .. n
  OBVIOUS
<1>2. \A i \in 1 .. n : list[i] \in ListedRows
  OBVIOUS
<1>3. \A i \in 1 .. n : list[i].msg \in Messages /\ list[i].flags \in SUBSET Flags
  BY <1>2 DEF ListedRows
<1>4. \A i \in 1 .. n : u[list[i].msg] \in 1 .. MaxUid
  <2> SUFFICES ASSUME NEW i \in 1 .. n PROVE u[list[i].msg] \in 1 .. MaxUid
    OBVIOUS
  <2>1. u[list[i].msg] \in 0 .. MaxUid /\ u[list[i].msg] # 0
    BY <1>3
  <2> QED BY <2>1, NumbersAssumption
<1>5. \A x, y \in 1 .. n : <<x, y>> \in before <=>
         \/ u[list[x].msg] < u[list[y].msg]
         \/ (u[list[x].msg] = u[list[y].msg] /\ x < y)
  BY <1>1 DEF UidOrder
<1>6. StrictOrder(1 .. n, before)
  <2> HIDE DEF before
  <2>1. \A x, y \in 1 .. n : x # y => x < y \/ y < x
    BY <1>1
  <2>2. \A x \in 1 .. n : <<x, x>> \notin before
    BY <1>1, <1>4, <1>5
  <2>3. ASSUME NEW x \in 1 .. n, NEW y \in 1 .. n, NEW z \in 1 .. n,
               <<x, y>> \in before, <<y, z>> \in before
        PROVE  <<x, z>> \in before
    <3> DEFINE id(i) == u[list[i].msg]
    <3>1. id(x) \in Nat /\ id(y) \in Nat /\ id(z) \in Nat /\ x \in Nat /\ y \in Nat /\ z \in Nat
      BY <1>1, <1>4, NumbersAssumption
    <3>2. id(x) < id(y) \/ (id(x) = id(y) /\ x < y)
      BY <1>5, <2>3
    <3>3. id(y) < id(z) \/ (id(y) = id(z) /\ y < z)
      BY <1>5, <2>3
    <3>4. <<x, z>> \in before <=> id(x) < id(z) \/ (id(x) = id(z) /\ x < z)
      BY <1>5
    <3> HIDE DEF id
    <3>5. id(x) < id(z) \/ (id(x) = id(z) /\ x < z)
      BY <3>1, <3>2, <3>3
    <3> QED BY <3>4, <3>5
  <2>4. ASSUME NEW x \in 1 .. n, NEW y \in 1 .. n, x # y
        PROVE  <<x, y>> \in before \/ <<y, x>> \in before
    BY <1>1, <1>4, <1>5, <2>1, <2>4, NumbersAssumption
  <2> QED BY <2>2, <2>3, <2>4 DEF StrictOrder
<1>7. IsFiniteSet(1 .. n) /\ Cardinality(1 .. n) = n
  <2>1. 1 \in Int /\ n \in Int
    BY <1>1
  <2>2. IsFiniteSet(1 .. n) /\ Cardinality(1 .. n) = IF 1 > n THEN 0 ELSE n - 1 + 1
    BY <2>1, FS_Interval
  <2> QED BY <1>1, <2>2
<1>8. order = InOrder(1 .. n, before)
  BY <1>1
<1> HIDE DEF before, order, n
<1>9. /\ order \in [1 .. n -> 1 .. n]
      /\ \A i, j \in 1 .. n : i < j => <<order[i], order[j]>> \in before
      /\ \A x \in 1 .. n : \E i \in 1 .. n : order[i] = x
  BY <1>6, <1>7, <1>8, InOrderFacts
<1>10. box = [i \in 1 .. n |-> [uid |-> u[list[order[i]].msg], msg |-> list[order[i]].msg,
                               flags |-> list[order[i]].flags]]
  BY <1>9 DEF Numbered, order, before
<1>11. \A i \in 1 .. n : order[i] \in 1 .. n
  BY <1>9
<1>12. box \in Seq(Rows) /\ Len(box) = n
  <2>1. \A i \in 1 .. n : [uid |-> u[list[order[i]].msg], msg |-> list[order[i]].msg,
                           flags |-> list[order[i]].flags] \in Rows
    BY <1>3, <1>4, <1>11 DEF Rows
  <2> DEFINE row(i) == [uid |-> u[list[order[i]].msg], msg |-> list[order[i]].msg,
                        flags |-> list[order[i]].flags]
  <2>2. box = [i \in 1 .. n |-> row(i)] /\ \A i \in 1 .. n : row(i) \in Rows
    BY <1>10, <2>1
  <2> HIDE DEF box, row
  <2>3. box \in [1 .. n -> Rows]
    BY <2>2
  <2> QED BY <1>1, <2>3
<1>13. \A i \in 1 .. n : /\ box[i].uid = u[list[order[i]].msg] /\ box[i].msg = list[order[i]].msg
                        /\ box[i].flags = list[order[i]].flags
  BY <1>10
<1> HIDE DEF box
<1>14. ASSUME NEW i \in 1 .. n, NEW j \in 1 .. n, i < j
       PROVE  /\ order[i] # order[j] /\ box[i].msg # box[j].msg
              /\ box[j].uid # MaxUid => box[i].uid < box[j].uid
  <2>1. <<order[i], order[j]>> \in before
    BY <1>9, <1>14
  <2>2. order[i] # order[j]
    BY <1>6, <1>11, <2>1 DEF StrictOrder
  <2>3. box[i].msg # box[j].msg
    BY <1>11, <1>13, <2>2 DEF Distinct, n
  <2>4. ASSUME box[j].uid # MaxUid PROVE box[i].uid < box[j].uid
    <3>1. box[i].uid # box[j].uid
      <4> DEFINE p == list[order[i]].msg
                 q == list[order[j]].msg
      <4>1. p \in Messages /\ q \in Messages /\ u[q] # 0 /\ p # q /\ u[q] # MaxUid
        BY <1>3, <1>11, <1>13, <2>3, <2>4 DEF n
      <4> HIDE DEF p, q
      <4>2. u[p] # u[q]
        BY <4>1
      <4> QED BY <1>13, <4>2 DEF p, q
    <3> DEFINE x == u[list[order[i]].msg]
               y == u[list[order[j]].msg]
    <3>2. x < y \/ x = y
      BY <1>5, <1>11, <2>1
    <3>3. box[i].uid = x /\ box[j].uid = y
      BY <1>13
    <3> HIDE DEF x, y
    <3> QED BY <3>1, <3>2, <3>3
  <2> QED BY <2>2, <2>3, <2>4
<1>15. Distinct(box)
  <2> SUFFICES ASSUME NEW i \in 1 .. n, NEW j \in 1 .. n, box[i].msg = box[j].msg PROVE i = j
    BY <1>12 DEF Distinct
  <2>1. ~(i < j) /\ ~(j < i)
    BY <1>14
  <2> QED BY <1>1, <2>1
<1>16. Sorted(box)
  BY <1>12, <1>14 DEF Sorted
<1>17. Attached(box, u)
  BY <1>12, <1>13 DEF Attached
<1>18. \A mk : DeletedIn(list, mk) => DeletedIn(box, mk)
  BY <1>11, <1>12, <1>13 DEF DeletedIn, n
<1>19. \A f : Mirrors(list, f) => Mirrors(box, f)
  BY <1>11, <1>12, <1>13 DEF Mirrors, n
<1>20. Msgs(box) = Msgs(list)
  <2>1. Msgs(box) \subseteq Msgs(list)
    BY <1>11, <1>12, <1>13 DEF Msgs, n
  <2>2. ASSUME NEW x \in 1 .. n PROVE list[x].msg \in Msgs(box)
    <3>1. PICK i \in 1 .. n : order[i] = x
      BY <1>9
    <3> QED BY <1>12, <1>13, <3>1 DEF Msgs
  <2> QED BY <2>1, <2>2 DEF Msgs, n
<1> QED BY <1>12, <1>15, <1>16, <1>17, <1>18, <1>19, <1>20 DEF box, n

\* What a client records of a box.
LEMMA KnownFacts ==
    ASSUME NEW box \in Seq(Rows)
    PROVE  /\ Known(box) \in Seq(Slots) /\ Len(Known(box)) = Len(box)
           /\ \A i \in 1 .. Len(box) : Known(box)[i].uid = box[i].uid /\ Known(box)[i].msg = box[i].msg
           /\ \A u : Attached(box, u) => Attached(Known(box), u)
<1> DEFINE n == Len(box)
<1>1. n \in Nat /\ DOMAIN box = 1 .. n
  OBVIOUS
<1>2. \A i \in 1 .. n : box[i] \in Rows
  OBVIOUS
<1>3. \A i \in 1 .. n : [uid |-> box[i].uid, msg |-> box[i].msg] \in Slots
  BY <1>2 DEF Rows, Slots
<1> HIDE DEF n
<1>4. Known(box) = [i \in 1 .. n |-> [uid |-> box[i].uid, msg |-> box[i].msg]]
  BY <1>1 DEF Known
<1>5. Known(box) \in Seq(Slots) /\ Len(Known(box)) = n
  BY <1>1, <1>3, <1>4
<1>6. \A i \in 1 .. n : Known(box)[i].uid = box[i].uid /\ Known(box)[i].msg = box[i].msg
  BY <1>4
<1> QED BY <1>5, <1>6 DEF n, Attached

LEMMA LearnFacts ==
    ASSUME NEW known \in Seq(Slots), NEW old, NEW box \in Seq(Rows), NEW u,
           Attached(known, u), Attached(box, u)
    PROVE  LearnFromNoop(known, old, box) \in Seq(Slots) /\ Attached(LearnFromNoop(known, old, box), u)
<1> DEFINE k == Known(box)
           more == SubSeq(k, Len(known) + 1, Len(box))
           new == known \o more
           fewer == SubSeq(known, 1, Len(box))
<1>1. k \in Seq(Slots) /\ Len(k) = Len(box) /\ Attached(k, u)
  BY KnownFacts
<1>2. Len(known) \in Nat /\ Len(box) \in Nat
  OBVIOUS
<1> HIDE DEF k
<1>3. CASE Len(box) >= Len(known)
  <2>1. /\ more \in Seq(Slots) /\ Len(more) = Len(box) - Len(known)
        /\ \A i \in 1 .. Len(box) - Len(known) : more[i] = k[Len(known) + i]
    BY <1>1, <1>2, <1>3
  <2>2. \A i \in 1 .. Len(more) : Len(known) + i \in 1 .. Len(k) /\ more[i] = k[Len(known) + i]
    BY <1>1, <1>2, <1>3, <2>1
  <2> HIDE DEF more
  <2>3. Attached(more, u)
    BY <1>1, <2>2 DEF Attached
  <2>4. /\ new \in Seq(Slots) /\ Len(new) = Len(known) + Len(more)
        /\ \A i \in 1 .. Len(known) + Len(more) :
              new[i] = IF i <= Len(known) THEN known[i] ELSE more[i - Len(known)]
    BY <2>1, ConcatFacts
  <2> HIDE DEF new
  <2>5. Attached(new, u)
    <3> SUFFICES ASSUME NEW i \in 1 .. Len(new) PROVE new[i].uid = u[new[i].msg]
      BY DEF Attached
    <3>1. Len(more) \in Nat
      BY <2>1
    <3>2. CASE i <= Len(known)
      BY <1>2, <2>4, <3>1, <3>2 DEF Attached
    <3>3. CASE ~(i <= Len(known))
      <4>1. i - Len(known) \in 1 .. Len(more) /\ new[i] = more[i - Len(known)]
        BY <1>2, <2>4, <3>1, <3>3
      <4> QED BY <2>3, <4>1 DEF Attached
    <3> QED BY <3>2, <3>3
  <2>6. Learn(known, box) = new
    BY <1>3 DEF Learn, new, more, k
  <2> QED BY <2>4, <2>5, <2>6 DEF LearnFromNoop
<1>4. CASE ~(Len(box) >= Len(known))
  <2>1. /\ fewer \in Seq(Slots) /\ Len(fewer) = Len(box)
        /\ \A i \in 1 .. Len(box) : fewer[i] = known[i] /\ i \in 1 .. Len(known)
    BY <1>2, <1>4
  <2> HIDE DEF fewer
  <2>2. Attached(fewer, u)
    BY <2>1 DEF Attached
  <2>3. Learn(known, box) = fewer
    BY <1>4 DEF Learn, fewer
  <2> QED BY <2>1, <2>2, <2>3 DEF LearnFromNoop
<1> QED BY <1>3, <1>4

LEMMA ReplyKeeps ==
    ASSUME IInv, R!IInv, NEW s \in Sessions, Reply(s)
    PROVE  SessionsInv(session', view', cache'.uid, marked)
<1> DEFINE ses == session[s]
           ids == [i \in DOMAIN ses.list |-> ses.list[i].msg]
           u == cache'.uid
           box == Numbered(ses.list, u)
<1>1. SessionsInv(session, view, cache.uid, marked)
  BY DEF IInv
<1>2. SessionInv(ses, view[s], cache.uid, marked)
  BY <1>1 DEF SessionsInv
<1>3. /\ ses \in SessionType /\ ses.list \in Seq(ListedRows) /\ ses.box \in Seq(Rows) /\ ses.selected \in BOOLEAN
      /\ Distinct(ses.list) /\ Len(ses.list) <= Window /\ DeletedIn(ses.list, marked)
      /\ view[s] \in Seq(Slots)
  BY <1>2 DEF SessionInv, SessionType, ListInv, BoxInv
<1>4. ids \in Catalogues /\ ResolveListed(ids)
  BY <1>3, ListedIds DEF Reply
<1>5. /\ \A m \in Messages : u[m] \in 0 .. MaxUid
      /\ \A m \in Messages : cache.uid[m] # 0 => u[m] = cache.uid[m]
      /\ \A i \in 1 .. Len(ids) : u[ids[i]] # 0
      /\ \A m, n \in Messages : u[m] = u[n] /\ u[m] # 0 /\ u[m] # MaxUid => m = n
  BY <1>4, ResolvedFacts
<1>6. Len(ids) = Len(ses.list) /\ \A i \in 1 .. Len(ses.list) : ids[i] = ses.list[i].msg
  BY <1>3
<1> HIDE DEF u, ids
<1>7. box \in Seq(Rows) /\ Distinct(box) /\ Sorted(box) /\ Attached(box, u) /\ DeletedIn(box, marked)
  <2>1. \A i \in 1 .. Len(ses.list) : u[ses.list[i].msg] # 0
    BY <1>5, <1>6
  <2> QED BY <1>3, <1>5, <2>1, NumberedFacts
<1>8. SessionInv(ses, view[s], u, marked)
  BY <1>2, <1>5, SessionKept
<1>9. /\ Distinct(ses.box) /\ Sorted(ses.box) /\ Attached(ses.box, u) /\ DeletedIn(ses.box, marked)
      /\ Attached(view[s], u)
  BY <1>8 DEF SessionInv, BoxInv
<1> HIDE DEF box
<1>10. session \in [Sessions -> SessionType] /\ view \in [Sessions -> Seq(Slots)]
  BY <1>1 DEF SessionsInv
<1>11. CASE ses.cmd = "SELECT"
  <2> DEFINE x == [Done(ses) EXCEPT !.selected = TRUE, !.box = box]
  <2>1. session' = [session EXCEPT ![s] = x] /\ view' = [view EXCEPT ![s] = Known(box)]
    BY <1>11 DEF Reply, box, u
  <2>2. Known(box) \in Seq(Slots) /\ Attached(Known(box), u)
    BY <1>7, KnownFacts
  <2>3. SessionInv(x, Known(box), u, marked)
    BY <1>3, <1>7, <2>2, DoneFacts
  <2> HIDE DEF x
  <2> QED BY <1>1, <1>5, <2>1, <2>3, OneMoves DEF u
<1>12. CASE ses.cmd = "NOOP"
  <2> DEFINE x == [Done(ses) EXCEPT !.box = box]
             y == LearnFromNoop(view[s], ses.box, box)
  <2>1. session' = [session EXCEPT ![s] = x] /\ view' = [view EXCEPT ![s] = y]
    BY <1>10, <1>12 DEF Reply, box, u
  <2>2. y \in Seq(Slots) /\ Attached(y, u)
    BY <1>3, <1>7, <1>9, LearnFacts
  <2> HIDE DEF y
  <2>3. x = [Done(ses) EXCEPT !.selected = ses.selected, !.box = box]
    BY <1>3 DEF Done, SessionType
  <2>4. SessionInv(x, y, u, marked)
    BY <1>3, <1>7, <2>2, <2>3, DoneFacts
  <2> HIDE DEF x
  <2> QED BY <1>1, <1>5, <2>1, <2>4, OneMoves DEF u
<1>13. CASE ses.cmd = "STATUS"
  <2> DEFINE x == Done(ses)
  <2>1. session' = [session EXCEPT ![s] = x] /\ view' = view
    BY <1>13 DEF Reply
  <2>2. x = [Done(ses) EXCEPT !.selected = ses.selected, !.box = ses.box]
    BY <1>3 DEF Done, SessionType
  <2>3. SessionInv(x, view[s], u, marked)
    BY <1>3, <1>9, <2>2, DoneFacts
  <2>4. view' = [view EXCEPT ![s] = view[s]]
    BY <1>10, <2>1
  <2> HIDE DEF x
  <2>5. SessionsInv([session EXCEPT ![s] = x], [view EXCEPT ![s] = view[s]], u, marked)
    BY <1>1, <1>5, <2>3, OneMoves
  <2> QED BY <2>1, <2>4, <2>5 DEF u
<1>14. ses.cmd \in {"SELECT", "NOOP", "STATUS"}
  BY <1>2 DEF Reply, SessionInv, SessionType, ListInv
<1> QED BY <1>11, <1>12, <1>13, <1>14

\* A step of one session that leaves the registry alone.
LEMMA SessionMoves ==
    ASSUME IInv, NEW s \in Sessions, NEW x, NEW y, ServerInv', MarkInv', marked \subseteq marked',
           cache' = cache, session' = [session EXCEPT ![s] = x],
           view' = [view EXCEPT ![s] = y] \/ (view' = view /\ y = view[s]),
           SessionInv(x, y, cache.uid, marked')
    PROVE  IInv'
<1>1. SessionsInv(session, view, cache.uid, marked)
  BY DEF IInv
<1>2. view' = [view EXCEPT ![s] = y]
  BY <1>1 DEF SessionsInv
<1>3. SessionsInv(session', view', cache.uid, marked')
  BY <1>1, <1>2, OneMoves
<1> QED BY <1>3 DEF IInv

LEMMA SessionStepKeeps ==
    ASSUME IInv, R!IInv, NEW s \in Sessions, SessionStep(s)
    PROVE  IInv'
<1> DEFINE ses == session[s]
<1>1. SessionInv(ses, view[s], cache.uid, marked) /\ ServerInv /\ MarkInv
  BY DEF IInv, SessionsInv
<1>2. session \in [Sessions -> SessionType] /\ view \in [Sessions -> Seq(Slots)]
  BY DEF IInv, SessionsInv
<1>3. ASSUME UNCHANGED mailVars PROVE ServerInv' /\ MarkInv' /\ marked \subseteq marked'
  BY <1>1, <1>3 DEF mailVars, ServerInv, MarkInv
<1>4. CASE Login(s)
  <2> DEFINE x == [ses EXCEPT !.at = "idle"]
  <2>1. SessionInv(x, view[s], cache.uid, marked)
    BY <1>1, <1>4, LoginKeeps DEF Login
  <2>2. session' = [session EXCEPT ![s] = x]
    BY <1>2, <1>4 DEF Login
  <2> HIDE DEF x
  <2> QED BY <1>3, <1>4, <2>1, <2>2, SessionMoves DEF Login, mailVars, registryVars
<1>5. CASE Logout(s)
  <2>1. SessionInv(LoggedOut, <<>>, cache.uid, marked)
    BY OutFacts
  <2> QED BY <1>3, <1>5, <2>1, SessionMoves DEF Logout, mailVars, registryVars
<1>6. ASSUME NEW cmd \in {"SELECT", "NOOP", "STATUS"}, List(s, cmd) PROVE IInv'
  <2> DEFINE x == [ses EXCEPT !.at = "listed", !.cmd = cmd, !.list = Listing]
  <2>1. SessionInv(x, view[s], cache.uid, marked)
    BY <1>1, <1>6, ListKeeps, ListingFacts DEF List
  <2>2. session' = [session EXCEPT ![s] = x]
    BY <1>2, <1>6 DEF List
  <2> HIDE DEF x
  <2> QED BY <1>3, <1>6, <2>1, <2>2, SessionMoves DEF List, mailVars, registryVars
<1>7. CASE Reply(s)
  <2>1. SessionsInv(session', view', cache'.uid, marked)
    BY <1>7, ReplyKeeps
  <2> QED BY <1>1, <1>7, <2>1 DEF Reply, IInv, mailVars, ServerInv, MarkInv
<1>8. ASSUME NEW i \in DOMAIN ses.box, NEW mode \in StoreModes, NEW fs \in SUBSET Flags \ {{}},
             Store(s, i, mode, fs) \/ StoreUnanswered(s, i, mode, fs)
      PROVE  IInv'
  <2>1. ses.box \in Seq(Rows)
    BY <1>2 DEF SessionType
  <2>2. ses.box[i] \in Rows
    BY <2>1
  <2>3. ses.box[i].msg \in Messages /\ fs \in SUBSET Flags
    BY <2>2 DEF Rows
  <2>4. StoreOnServer(ses.box[i].msg, mode, fs)
    BY <1>8 DEF Store, StoreUnanswered
  <2>5. /\ ServerInv' /\ MarkInv' /\ marked \subseteq marked'
        /\ mode # "remove" /\ "deleted" \in fs => ses.box[i].msg \in marked'
    BY <1>1, <2>3, <2>4, ApplyKeepsServer
  <2>6. CASE Store(s, i, mode, fs)
    <3> DEFINE x == [ses EXCEPT !.box[i].flags = Stored(mode, fs, ses.box[i].flags)]
    <3>1. ses.at = "idle"
      BY <2>6 DEF Store
    <3>2. SessionInv(x, view[s], cache.uid, marked')
      BY <1>1, <2>3, <2>5, <3>1, StoreKeeps
    <3>3. session' = [session EXCEPT ![s] = x]
      BY <1>2, <2>6 DEF Store
    <3> HIDE DEF x
    <3> QED BY <2>5, <2>6, <3>2, <3>3, SessionMoves DEF Store, registryVars
  <2>7. CASE StoreUnanswered(s, i, mode, fs)
    <3>1. SessionsInv(session, view, cache.uid, marked')
      BY <2>5, NoneMoves DEF IInv
    <3> QED BY <2>5, <2>7, <3>1 DEF StoreUnanswered, IInv
  <2> QED BY <1>8, <2>6, <2>7
<1>9. CASE BeginExpunge(s)
  <2> DEFINE x == [ses EXCEPT !.at = "expunge", !.todo = ToExpunge(ses.box)]
  <2>1. SessionInv(x, view[s], cache.uid, marked)
    BY <1>1, <1>9, BeginKeeps DEF BeginExpunge
  <2>2. session' = [session EXCEPT ![s] = x]
    BY <1>2, <1>9 DEF BeginExpunge
  <2> HIDE DEF x
  <2> QED BY <1>3, <1>9, <2>1, <2>2, SessionMoves DEF BeginExpunge, mailVars, registryVars
<1>10. ASSUME ses.todo # <<>> PROVE ses.box[Head(ses.todo)].msg \in marked
  <2>1. ses \in SessionType /\ TodoInv(ses) /\ DeletedIn(ses.box, marked)
    BY <1>1 DEF SessionInv, BoxInv
  <2>2. Head(ses.todo) \in 1 .. Len(ses.box) /\ "deleted" \in ses.box[Head(ses.todo)].flags
    BY <1>10, <2>1, NextFacts
  <2> QED BY <2>1, <2>2 DEF DeletedIn
<1>11. ASSUME ses.todo # <<>>, Delete(ses.box[Head(ses.todo)].msg)
       PROVE  ServerInv' /\ MarkInv' /\ marked' = marked
  BY <1>1, <1>10, <1>11, DeleteKeepsServer DEF Delete
<1>12. ASSUME ses.todo # <<>>
       PROVE  SessionInv(Accepted(ses), view[s], cache.uid, marked) /\ SessionInv(Refused(ses), view[s], cache.uid, marked)
  BY <1>1, <1>12, AcceptedKeeps, RefusedKeeps
<1>13. CASE ExpungeOne(s)
  <2>1. ses.todo # <<>> /\ UNCHANGED <<view, registryVars>>
    BY <1>13 DEF ExpungeOne
  <2>2. CASE Delete(ses.box[Head(ses.todo)].msg) /\ session' = [session EXCEPT ![s] = Accepted(@)]
    <3>1. session' = [session EXCEPT ![s] = Accepted(ses)]
      BY <2>2
    <3> QED BY <1>11, <1>12, <2>1, <2>2, <3>1, SessionMoves DEF registryVars
  <2>3. CASE UNCHANGED mailVars /\ session' = [session EXCEPT ![s] = Refused(@)]
    <3>1. session' = [session EXCEPT ![s] = Refused(ses)]
      BY <2>3
    <3> QED BY <1>3, <1>12, <2>1, <2>3, <3>1, SessionMoves DEF registryVars, mailVars
  <2> QED BY <1>13, <2>2, <2>3 DEF ExpungeOne
<1>14. CASE ExpungeOneFails(s)
  <2>1. ses.todo # <<>> /\ UNCHANGED <<view, cache>> /\ session' = [session EXCEPT ![s] = Refused(ses)]
    BY <1>14 DEF ExpungeOneFails
  <2>2. ServerInv' /\ MarkInv' /\ marked' = marked
    BY <1>3, <1>11, <1>14, <2>1 DEF ExpungeOneFails, mailVars
  <2> QED BY <1>12, <2>1, <2>2, SessionMoves
<1>15. CASE EndExpunge(s)
  <2> DEFINE x == [Done(ses) EXCEPT !.box = Without(Done(ses).box, ses.gone)]
             y == AfterExpunges(view[s], ses.lines)
  <2>1. SessionInv(x, y, cache.uid, marked)
    BY <1>1, EndKeeps
  <2>2. session' = [session EXCEPT ![s] = x] /\ view' = [view EXCEPT ![s] = y]
    BY <1>15 DEF EndExpunge
  <2> HIDE DEF x, y
  <2> QED BY <1>3, <1>15, <2>1, <2>2, SessionMoves DEF EndExpunge, mailVars, registryVars
<1> QED BY <1>4, <1>5, <1>6, <1>7, <1>8, <1>9, <1>13, <1>14, <1>15 DEF SessionStep

LEMMA NextKeepsInv == IInv /\ R!IInv /\ [Next]_vars => IInv' /\ R!IInv'
<1> SUFFICES ASSUME IInv, R!IInv, [Next]_vars PROVE IInv' /\ R!IInv'
  OBVIOUS
<1>1. R!IInv'
  BY RegistryKept
<1>2. SessionsInv(session, view, cache.uid, marked)
  BY DEF IInv
<1>7. ASSUME UNCHANGED mailVars PROVE ServerInv' /\ MarkInv' /\ marked' = marked
  <2>1. ServerInv /\ MarkInv
    BY DEF IInv
  <2> QED BY <1>7, <2>1 DEF mailVars, ServerInv, MarkInv
<1>3. ASSUME NEW m \in Messages, Arrive(m) PROVE IInv'
  BY <1>2, <1>3, ArriveKeepsServer DEF IInv, Arrive, registryVars
<1>4. CASE RestartBridge
  <2>1. SessionsInv(session', view', cache'.uid, marked)
    BY <1>4, AllOut DEF RestartBridge
  <2>2. UNCHANGED mailVars
    BY <1>4 DEF RestartBridge
  <2>3. ServerInv' /\ MarkInv' /\ marked' = marked
    BY <1>7, <2>2
  <2> QED BY <1>1, <2>1, <2>3 DEF IInv
<1>5. CASE RegistryStep
  <2>1. cache' = cache
    BY <1>5 DEF RegistryStep, Registry!FileDamaged, Registry!Tick
  <2>2. UNCHANGED mailVars /\ UNCHANGED <<session, view>>
    BY <1>5 DEF RegistryStep
  <2>3. ServerInv' /\ MarkInv' /\ marked' = marked
    BY <1>7, <2>2
  <2> QED BY <1>1, <1>2, <2>1, <2>2, <2>3 DEF IInv
<1>6. CASE UNCHANGED vars
  <2>1. UNCHANGED mailVars /\ UNCHANGED <<session, view, cache>>
    BY <1>6 DEF vars, registryVars
  <2>2. ServerInv' /\ MarkInv' /\ marked' = marked
    BY <1>7, <2>1
  <2> QED BY <1>1, <1>2, <2>1, <2>2 DEF IInv
<1> QED BY <1>1, <1>3, <1>4, <1>5, <1>6, SessionStepKeeps DEF Next

----------------------------------------------------------------------------
(* The theorems *)

\* The registry inside the composition keeps its invariant, and so do server
\* and sessions, in every reachable state (run_imap_session, resolve).
THEOREM Invariance == Spec => [](IInv /\ R!IInv)
<1>1. Init => IInv /\ R!IInv
  BY InitInv
<1>2. (IInv /\ R!IInv) /\ [Next]_vars => (IInv /\ R!IInv)'
  BY NextKeepsInv
<1> QED BY <1>1, <1>2, PTL DEF Spec

\* Every variable keeps its type; an announced EXPUNGE number is never zero.
THEOREM TypeCorrectness == Spec => []TypeOK
<1>1. IInv => TypeOK
  <2> SUFFICES ASSUME IInv PROVE TypeOK
    OBVIOUS
  <2>1. /\ catalogue \in Seq(Messages) /\ IsInjective(catalogue) /\ flags \in [Messages -> SUBSET Flags]
        /\ marked \subseteq Messages /\ purged \subseteq Messages /\ view \in [Sessions -> Seq(Slots)]
    BY DEF IInv, ServerInv, SessionsInv
  <2>2. ASSUME NEW s \in Sessions
        PROVE  /\ session[s].at \in {"out", "idle", "listed", "expunge"}
               /\ session[s].box \in Seq(Rows)
               /\ session[s].todo \in Seq(DOMAIN session[s].box)
               /\ session[s].gone \in Seq(DOMAIN session[s].box)
               /\ session[s].lines \in Seq(Nat \ {0})
    <3> DEFINE ses == session[s]
    <3>1. ses \in SessionType /\ TodoInv(ses)
      BY DEF IInv, SessionsInv, SessionInv
    <3> HIDE DEF ses
    <3>2. /\ ses.at \in {"out", "idle", "listed", "expunge"} /\ ses.box \in Seq(Rows)
          /\ ses.todo \in Seq(Nat) /\ ses.gone \in Seq(Nat) /\ ses.lines \in Seq(Nat \ {0})
      BY <3>1 DEF SessionType
    <3>3. DOMAIN ses.box = 1 .. Len(ses.box)
      BY <3>2
    <3>4. \A k \in 1 .. Len(ses.todo) : ses.todo[k] \in DOMAIN ses.box
      BY <3>1, <3>3 DEF TodoInv
    <3>5. \A k \in 1 .. Len(ses.gone) : ses.gone[k] \in DOMAIN ses.box
      BY <3>1, <3>3 DEF TodoInv
    <3>6. ses.todo \in Seq(DOMAIN ses.box)
      BY <3>2, <3>4, MembersMakeSeq
    <3>7. ses.gone \in Seq(DOMAIN ses.box)
      BY <3>2, <3>5, MembersMakeSeq
    <3> QED BY <3>2, <3>6, <3>7 DEF ses
  <2> QED BY <2>1, <2>2 DEF TypeOK
<1> QED BY <1>1, Invariance, PTL

\* The numbers of a box follow its UIDs, and a UID a client knows is, in its
\* session, the UID of the same message or of none: UID FETCH and UID STORE
\* never act on another message (cmd_store, cmd_fetch).
THEOREM UidsNeverCross == Spec => []UidsAgree
<1>1. IInv /\ R!IInv => UidsAgree
  <2> SUFFICES ASSUME IInv, R!IInv PROVE UidsAgree
    OBVIOUS
  <2>1. ASSUME NEW s \in Sessions
        PROVE  /\ session[s].box \in Seq(Rows) /\ view[s] \in Seq(Slots) /\ Sorted(session[s].box)
               /\ Attached(session[s].box, cache.uid) /\ Attached(view[s], cache.uid)
    BY DEF IInv, SessionsInv, SessionInv, SessionType, BoxInv
  <2>2. UidsIncrease
    BY <2>1 DEF UidsIncrease, Sorted
  <2>3. ASSUME NEW s \in Sessions, NEW i \in DOMAIN session[s].box, NEW j \in DOMAIN view[s],
               session[s].box[i].uid = view[s][j].uid, view[s][j].uid # MaxUid
        PROVE  session[s].box[i].msg = view[s][j].msg
    <3> DEFINE row == session[s].box[i]
               slot == view[s][j]
               u == cache.uid
    <3>0. i \in 1 .. Len(session[s].box) /\ j \in 1 .. Len(view[s])
      BY <2>1
    <3>1. row \in Rows /\ slot \in Slots /\ row.uid = u[row.msg] /\ slot.uid = u[slot.msg]
      BY <2>1, <3>0 DEF Attached
    <3>2. row.uid = slot.uid /\ slot.uid # MaxUid
      BY <2>3
    <3> HIDE DEF row, slot
    <3>3. row.msg \in Messages /\ slot.msg \in Messages /\ slot.uid # 0
      BY <3>1 DEF Rows, Slots
    <3>4. cache # R!NoState
      BY <3>1, <3>3 DEF R!NoState
    <3>5. \A m, n \in Messages : u[m] = u[n] /\ u[m] # 0 /\ u[m] # MaxUid => m = n
      BY <3>4 DEF R!IInv, R!Good, R!OneOwner
    <3> HIDE DEF u
    <3>6. row.msg = slot.msg
      BY <3>1, <3>2, <3>3, <3>5
    <3> QED BY <3>6 DEF row, slot
  <2> QED BY <2>2, <2>3 DEF UidsAgree
<1> QED BY <1>1, Invariance, PTL

\* Only messages a client marked \Deleted are ever removed, whatever the other
\* sessions do and however old the box is (cmd_expunge).
THEOREM PurgesWereMarked == Spec => []PurgedWasMarked
<1>1. IInv => PurgedWasMarked
  BY DEF IInv, MarkInv, PurgedWasMarked
<1> QED BY <1>1, Invariance, PTL

\* What UidRegistry promises its clients holds of the UIDs the sessions tell.
THEOREM RegistryPromise == Spec => [](R!UidNamesOneMessage /\ R!MessageKeepsUid)
<1>1. R!IInv => R!UidNamesOneMessage /\ R!MessageKeepsUid
  BY DEF R!IInv
<1> QED BY <1>1, Invariance, PTL

----------------------------------------------------------------------------
(* Numbers after EXPUNGE *)

\* The ith element that stays has k removed ones before it, of the n that
\* follow the first b.
Fits(gone, b, n, i, k) ==
    /\ k # 0 => gone[b + k] - k < i
    /\ k # n => i <= gone[b + (k + 1)] - (k + 1)

\* rest is seq without its elements number gone[b + 1], ..., gone[b + n].
IsRest(rest, seq, gone, b, n) ==
    /\ Len(rest) = Len(seq) - n
    /\ \A i \in 1 .. Len(seq) - n, k \in 0 .. n :
          Fits(gone, b, n, i, k) => i + k \in 1 .. Len(seq) /\ rest[i] = seq[i + k]

\* Of ascending numbers the later ones leave more room.
Steady(gone) == \A j, k \in 1 .. Len(gone) : j <= k => gone[j] - j <= gone[k] - k

LEMMA AscendingIsSteady ==
    ASSUME NEW gone \in Seq(Nat), Ascending(gone)
    PROVE  Steady(gone)
<1> DEFINE n == Len(gone)
<1>1. n \in Nat /\ \A j \in 1 .. n : gone[j] \in Nat
  OBVIOUS
<1>2. \A i, j \in 1 .. n : i < j => gone[i] < gone[j]
  BY DEF Ascending
<1> HIDE DEF n
<1> SUFFICES ASSUME NEW j \in 1 .. n, NEW l \in 1 .. n, j <= l PROVE gone[j] - j <= gone[l] - l
  BY DEF Steady, n
<1> DEFINE S == {d \in 0 .. n - j : gone[j] - j <= gone[j + d] - (j + d)}
<1>3. n - j \in Nat
  BY <1>1
<1>4. 0 \in S
  BY <1>1, <1>3
<1>5. ASSUME NEW d \in 0 .. (n - j) - 1, d \in S PROVE d + 1 \in S
  <2>1. j + d \in 1 .. n /\ j + (d + 1) \in 1 .. n /\ j + d < j + (d + 1) /\ d + 1 \in 0 .. n - j
    BY <1>1
  <2>2. gone[j + d] < gone[j + (d + 1)] /\ gone[j + d] \in Nat /\ gone[j + (d + 1)] \in Nat /\ gone[j] \in Nat
    BY <1>1, <1>2, <2>1
  <2>3. gone[j] - j <= gone[j + d] - (j + d)
    BY <1>5
  <2>4. gone[j] - j <= gone[j + (d + 1)] - (j + (d + 1))
    <3> DEFINE x == gone[j]
               y == gone[j + d]
               z == gone[j + (d + 1)]
    <3>1. x \in Nat /\ y \in Nat /\ z \in Nat /\ y < z /\ x - j <= y - (j + d) /\ d \in Nat /\ j \in Nat
      BY <1>1, <2>2, <2>3
    <3> HIDE DEF x, y, z
    <3>2. x - j <= z - (j + (d + 1))
      BY <3>1
    <3> QED BY <3>2 DEF x, z
  <2> QED BY <2>1, <2>4
<1>6. 0 .. n - j \subseteq S
  <2> HIDE DEF S
  <2> QED BY <1>3, <1>4, <1>5, BoundedInduction
<1>7. l - j \in 0 .. n - j /\ j + (l - j) = l
  BY <1>1
<1>8. l - j \in S
  BY <1>6, <1>7
<1> QED BY <1>7, <1>8

\* The next removed element in ascending order, counted in what is left.
LEMMA RestNext ==
    ASSUME NEW S, NEW seq \in Seq(S), NEW rest \in Seq(S), NEW gone \in Seq(Nat), Steady(gone),
           NEW n \in 0 .. Len(gone) - 1, IsRest(rest, seq, gone, 0, n), NEW p \in 1 .. Len(rest),
           p = gone[n + 1] - n
    PROVE  IsRest(RemoveAt(rest, p), seq, gone, 0, n + 1)
<1> DEFINE new == RemoveAt(rest, p)
<1>1. /\ Len(seq) \in Nat /\ Len(gone) \in Nat /\ n \in Nat /\ n + 1 \in 1 .. Len(gone)
      /\ Len(rest) \in Nat /\ p \in Nat
  <2>1. Len(seq) \in Nat /\ Len(gone) \in Nat /\ Len(rest) \in Nat
    OBVIOUS
  <2> QED BY <2>1
<1>2. \A j \in 1 .. Len(gone) : gone[j] \in Nat
  <2>1. gone \in Seq(Nat)
    OBVIOUS
  <2> QED BY ONLY <2>1
<1>3. Len(rest) = Len(seq) - n
  BY DEF IsRest
<1>4. Len(new) = Len(rest) - 1 /\ \A j \in 1 .. Len(rest) - 1 : new[j] = IF j < p THEN rest[j] ELSE rest[j + 1]
  BY RemoveAtFacts
<1> HIDE DEF new
<1>5. ASSUME NEW i \in 1 .. Len(seq) - (n + 1), NEW k \in 0 .. n + 1, Fits(gone, 0, n + 1, i, k)
      PROVE  i + k \in 1 .. Len(seq) /\ new[i] = seq[i + k]
  <2>1. i \in 1 .. Len(rest) - 1 /\ i \in Nat /\ k \in Nat /\ gone[n + 1] \in Nat
    BY <1>1, <1>2, <1>3
  <2>2. CASE i < p
    <3>1. k # n + 1
      <4> SUFFICES ASSUME k = n + 1 PROVE FALSE
        OBVIOUS
      <4>1. gone[0 + (n + 1)] - (n + 1) < i
        BY <1>1, <1>5 DEF Fits
      <4> DEFINE x == gone[n + 1]
      <4>2. x \in Nat /\ x - (n + 1) < i /\ p = x - n
        BY <1>1, <2>1, <4>1
      <4> HIDE DEF x
      <4> QED BY <1>1, <2>1, <2>2, <4>2
    <3>2. k \in 0 .. n /\ i \in 1 .. Len(seq) - n
      BY <1>1, <2>1, <3>1
    <3>3. Fits(gone, 0, n, i, k)
      BY <1>5, <3>1 DEF Fits
    <3>4. i + k \in 1 .. Len(seq) /\ rest[i] = seq[i + k]
      BY <3>2, <3>3 DEF IsRest
    <3> QED BY <1>4, <2>1, <2>2, <3>4
  <2>3. CASE ~(i < p)
    <3>1. k = n + 1
      <4> SUFFICES ASSUME k # n + 1 PROVE FALSE
        OBVIOUS
      <4>1. k + 1 \in 1 .. Len(gone) /\ k + 1 <= n + 1 /\ 0 + (k + 1) = k + 1
        BY <1>1
      <4>2. i <= gone[k + 1] - (k + 1)
        BY <1>5, <4>1 DEF Fits
      <4>3. gone[k + 1] - (k + 1) <= gone[n + 1] - (n + 1)
        BY <1>1, <4>1 DEF Steady
      <4>4. gone[k + 1] \in Nat
        BY <1>2, <4>1
      <4> DEFINE x == gone[k + 1]
                 y == gone[n + 1]
      <4>5. /\ x \in Nat /\ y \in Nat /\ i <= x - (k + 1) /\ x - (k + 1) <= y - (n + 1) /\ ~(i < y - n)
            /\ k \in Nat /\ n \in Nat /\ i \in Nat
        BY <1>1, <2>1, <2>3, <4>2, <4>3, <4>4
      <4> HIDE DEF x, y
      <4> QED BY <4>5
    <3>2. n \in 0 .. n /\ i + 1 \in 1 .. Len(seq) - n
      BY <1>1, <2>1
    <3>3. Fits(gone, 0, n, i + 1, n)
      <4> SUFFICES ASSUME n # 0 PROVE gone[0 + n] - n < i + 1
        BY DEF Fits
      <4>1. n \in 1 .. Len(gone) /\ n <= n + 1 /\ 0 + n = n
        BY <1>1
      <4>2. gone[n] - n <= gone[n + 1] - (n + 1) /\ gone[n] \in Nat
        BY <1>1, <1>2, <4>1 DEF Steady
      <4> DEFINE x == gone[n]
                 y == gone[n + 1]
      <4>3. /\ x \in Nat /\ y \in Nat /\ x - n <= y - (n + 1) /\ ~(i < y - n)
            /\ n \in Nat /\ i \in Nat
        BY <1>1, <2>1, <2>3, <4>2
      <4> HIDE DEF x, y
      <4>4. x - n < i + 1
        BY <4>3
      <4> QED BY <4>1, <4>4 DEF x
    <3>4. (i + 1) + n \in 1 .. Len(seq) /\ rest[i + 1] = seq[(i + 1) + n]
      BY <3>2, <3>3 DEF IsRest
    <3>5. (i + 1) + n = i + k
      BY <1>1, <2>1, <3>1
    <3>6. new[i] = rest[i + 1]
      BY <1>4, <2>1, <2>3
    <3> QED BY <3>4, <3>5, <3>6
  <2> QED BY <2>2, <2>3
<1>6. Len(new) = Len(seq) - (n + 1)
  BY <1>1, <1>3, <1>4
<1>7. IsRest(new, seq, gone, 0, n + 1)
  BY <1>5, <1>6 DEF IsRest
<1> QED BY <1>7 DEF new

\* The next removed element in descending order.
LEMMA RestPrevious ==
    ASSUME NEW S, NEW seq \in Seq(S), NEW rest \in Seq(S), NEW gone \in Seq(Nat), Ascending(gone), Steady(gone),
           NEW b \in 1 .. Len(gone), NEW n \in Nat, b + n = Len(gone),
           IsRest(rest, seq, gone, b, n), gone[b] \in 1 .. Len(rest)
    PROVE  IsRest(RemoveAt(rest, gone[b]), seq, gone, b - 1, n + 1)
<1> DEFINE p == gone[b]
           new == RemoveAt(rest, p)
<1>1. /\ Len(seq) \in Nat /\ Len(gone) \in Nat /\ Len(rest) \in Nat /\ p \in Nat /\ p \in 1 .. Len(rest)
      /\ b \in Nat
  OBVIOUS
<1>2. \A j \in 1 .. Len(gone) : gone[j] \in Nat
  OBVIOUS
<1>3. Len(rest) = Len(seq) - n
  BY DEF IsRest
<1>4. Len(new) = Len(rest) - 1 /\ \A j \in 1 .. Len(rest) - 1 : new[j] = IF j < p THEN rest[j] ELSE rest[j + 1]
  BY <1>1, RemoveAtFacts
<1> HIDE DEF new
<1>5. ASSUME NEW i \in 1 .. Len(seq) - (n + 1), NEW k \in 0 .. n + 1, Fits(gone, b - 1, n + 1, i, k)
      PROVE  i + k \in 1 .. Len(seq) /\ new[i] = seq[i + k]
  <2>1. i \in 1 .. Len(rest) - 1 /\ i \in Nat /\ k \in Nat
    BY <1>1, <1>3
  <2>2. k # 0 => gone[(b - 1) + k] - k < i
    BY <1>5 DEF Fits
  <2>3. k # n + 1 => i <= gone[(b - 1) + (k + 1)] - (k + 1)
    BY <1>5 DEF Fits
  <2>4. CASE i < p
    <3>1. k = 0
      <4> SUFFICES ASSUME k # 0 PROVE FALSE
        OBVIOUS
      <4>1. (b - 1) + k \in 1 .. Len(gone) /\ b <= (b - 1) + k
        BY <1>1, <2>1
      <4>2. gone[b] - b <= gone[(b - 1) + k] - ((b - 1) + k)
        BY <4>1 DEF Steady
      <4>3. gone[(b - 1) + k] \in Nat /\ gone[(b - 1) + k] - k < i
        BY <1>2, <2>2, <4>1
      <4> DEFINE x == gone[(b - 1) + k]
      <4>4. x \in Nat /\ p - b <= x - ((b - 1) + k) /\ x - k < i /\ i < p
        BY <2>4, <4>2, <4>3
      <4> HIDE DEF x, p
      <4> QED BY <1>1, <2>1, <4>4
    <3>2. 0 \in 0 .. n /\ i \in 1 .. Len(seq) - n
      BY <1>1, <2>1
    <3>3. Fits(gone, b, n, i, 0)
      <4> SUFFICES ASSUME n # 0 PROVE i <= gone[b + (0 + 1)] - (0 + 1)
        BY DEF Fits
      <4>1. b + 1 \in 1 .. Len(gone) /\ b < b + 1 /\ b + (0 + 1) = b + 1
        BY <1>1
      <4>2. gone[b] < gone[b + 1] /\ gone[b + 1] \in Nat
        BY <1>2, <4>1 DEF Ascending
      <4> DEFINE x == gone[b + 1]
      <4>3. x \in Nat /\ gone[b] < x /\ gone[b + (0 + 1)] = x
        BY <4>1, <4>2
      <4> HIDE DEF x
      <4> QED BY <1>1, <2>1, <2>4, <4>3
    <3>4. i + 0 \in 1 .. Len(seq) /\ rest[i] = seq[i + 0]
      BY <3>2, <3>3 DEF IsRest
    <3> QED BY <1>4, <2>1, <2>4, <3>1, <3>4
  <2>5. CASE ~(i < p)
    <3>1. k # 0
      <4> SUFFICES ASSUME k = 0 PROVE FALSE
        OBVIOUS
      <4>1. (b - 1) + (k + 1) = b /\ k # n + 1 /\ k + 1 = 1
        BY <1>1
      <4>2. i <= gone[b] - 1
        BY <2>3, <4>1
      <4> QED BY <1>1, <2>1, <2>5, <4>2
    <3> DEFINE j == k - 1
    <3>2. j \in 0 .. n /\ j \in Nat /\ i + 1 \in 1 .. Len(seq) - n /\ k = j + 1
      BY <1>1, <2>1, <3>1
    <3> HIDE DEF j
    <3>3. Fits(gone, b, n, i + 1, j)
      <4>1. ASSUME j # 0 PROVE gone[b + j] - j < i + 1
        <5>1. (b - 1) + k = b + j /\ b + j \in 1 .. Len(gone)
          BY <1>1, <3>2
        <5> DEFINE x == gone[b + j]
        <5>2. x - k < i /\ x \in Nat
          BY <1>2, <2>2, <3>1, <5>1
        <5> HIDE DEF x
        <5>3. x - j < i + 1
          BY <2>1, <3>2, <5>2
        <5> QED BY <5>3 DEF x
      <4>2. ASSUME j # n PROVE i + 1 <= gone[b + (j + 1)] - (j + 1)
        <5>1. (b - 1) + (k + 1) = b + (j + 1) /\ b + (j + 1) \in 1 .. Len(gone) /\ k # n + 1
          BY <1>1, <3>2, <4>2
        <5> DEFINE x == gone[b + (j + 1)]
        <5>2. i <= x - (k + 1) /\ x \in Nat
          BY <1>2, <2>3, <5>1
        <5> HIDE DEF x
        <5>3. i + 1 <= x - (j + 1)
          BY <2>1, <3>2, <5>2
        <5> QED BY <5>3 DEF x
      <4> QED BY <4>1, <4>2 DEF Fits
    <3>4. (i + 1) + j \in 1 .. Len(seq) /\ rest[i + 1] = seq[(i + 1) + j]
      BY <3>2, <3>3 DEF IsRest
    <3>5. (i + 1) + j = i + k
      BY <2>1, <3>2
    <3>6. new[i] = rest[i + 1]
      BY <1>1, <1>4, <2>1, <2>5
    <3> QED BY <3>4, <3>5, <3>6
  <2> QED BY <2>4, <2>5
<1>6. Len(new) = Len(seq) - (n + 1)
  BY <1>1, <1>3, <1>4
<1>7. IsRest(new, seq, gone, b - 1, n + 1)
  BY <1>5, <1>6 DEF IsRest
<1> QED BY <1>7 DEF new

\* What the session keeps.
LEMMA WithoutIsRest ==
    ASSUME NEW S, NEW seq \in Seq(S), NEW gone \in Seq(Nat), Ascending(gone),
           \A k \in 1 .. Len(gone) : gone[k] \in 1 .. Len(seq)
    PROVE  Without(seq, gone) \in Seq(S) /\ IsRest(Without(seq, gone), seq, gone, 0, Len(gone))
<1> DEFINE L == Len(gone)
           f == Left(seq, gone)
           N == {n \in 0 .. L : f[n] \in Seq(S) /\ IsRest(f[n], seq, gone, L - n, n)}
<1>1. L \in Nat /\ Len(seq) \in Nat /\ Steady(gone)
  BY AscendingIsSteady
<1>2. /\ Without(seq, gone) = f[L] /\ f[0] = seq
      /\ \A i \in 1 .. L : f[i] = RemoveAt(f[i - 1], gone[L + 1 - i])
  BY LeftFacts
<1> HIDE DEF f
<1>3. 0 \in N
  <2>1. IsRest(seq, seq, gone, L - 0, 0)
    BY <1>1 DEF IsRest
  <2> QED BY <1>1, <1>2, <2>1
<1>4. ASSUME NEW n \in 0 .. L - 1, n \in N PROVE n + 1 \in N
  <2> DEFINE b == L - n
             r == f[n]
  <2>1. /\ n \in Nat /\ n + 1 \in 1 .. L /\ n + 1 \in 0 .. L /\ (n + 1) - 1 = n /\ L + 1 - (n + 1) = b
        /\ b \in 1 .. L /\ b + n = L /\ L - (n + 1) = b - 1
    BY <1>1
  <2>2. r \in Seq(S) /\ IsRest(r, seq, gone, b, n)
    BY <1>4
  <2>3. f[n + 1] = RemoveAt(r, gone[b])
    BY <1>2, <2>1
  <2> HIDE DEF b, r
  <2>4. gone[b] \in 1 .. Len(r)
    <3> DEFINE x == gone[b]
               y == gone[L]
    <3>1. L \in 1 .. L /\ b <= L
      BY <1>1, <2>1
    <3>2. x - b <= y - L
      BY <1>1, <2>1, <3>1 DEF Steady
    <3>3. x \in 1 .. Len(seq) /\ y \in 1 .. Len(seq)
      BY <2>1, <3>1
    <3>4. Len(r) = Len(seq) - n
      BY <2>2 DEF IsRest
    <3> HIDE DEF x, y, L
    <3>5. x \in 1 .. Len(r)
      BY <1>1, <2>1, <3>2, <3>3, <3>4
    <3> QED BY <3>5 DEF x
  <2>5. RemoveAt(r, gone[b]) \in Seq(S)
    BY <2>2, <2>4, RemoveAtFacts
  <2>6. IsRest(RemoveAt(r, gone[b]), seq, gone, b - 1, n + 1)
    BY <1>1, <2>1, <2>2, <2>4, RestPrevious
  <2> QED BY <2>1, <2>3, <2>5, <2>6
<1>5. 0 .. L \subseteq N
  <2> HIDE DEF N, L
  <2> QED BY <1>1, <1>3, <1>4, BoundedInduction
<1>6. L \in N /\ L - L = 0
  <2> HIDE DEF N, L
  <2> QED BY <1>1, <1>5
<1> QED BY <1>2, <1>6

\* What a client keeps that follows the numbers announced.
LEMMA AfterIsRest ==
    ASSUME NEW S, NEW known \in Seq(S), NEW gone \in Seq(Nat), NEW lines \in Seq(Nat \ {0}),
           Ascending(gone), Announced(gone, lines),
           \A k \in 1 .. Len(gone) : gone[k] \in 1 .. Len(known)
    PROVE  /\ AfterExpunges(known, lines) \in Seq(S)
           /\ IsRest(AfterExpunges(known, lines), known, gone, 0, Len(gone))
<1> DEFINE L == Len(gone)
           f == After(known, lines)
           N == {n \in 0 .. L : f[n] \in Seq(S) /\ IsRest(f[n], known, gone, 0, n)}
<1>1. L \in Nat /\ Len(known) \in Nat /\ Steady(gone) /\ Len(lines) = L
  BY AscendingIsSteady DEF Announced
<1>2. /\ AfterExpunges(known, lines) = f[L] /\ f[0] = known
      /\ \A i \in 1 .. L : f[i] = Struck(f[i - 1], lines[i])
  BY <1>1, AfterFacts
<1> HIDE DEF f
<1>3. 0 \in N
  <2>1. IsRest(known, known, gone, 0, 0)
    BY <1>1 DEF IsRest
  <2> QED BY <1>1, <1>2, <2>1
<1>4. ASSUME NEW n \in 0 .. L - 1, n \in N PROVE n + 1 \in N
  <2> DEFINE p == gone[n + 1] - n
             r == f[n]
  <2>1. n \in Nat /\ n + 1 \in 1 .. L /\ n + 1 \in 0 .. L /\ (n + 1) - 1 = n
    BY <1>1
  <2>2. r \in Seq(S) /\ IsRest(r, known, gone, 0, n)
    BY <1>4
  <2>3. lines[n + 1] = p
    BY <2>1 DEF Announced
  <2>4. f[n + 1] = Struck(r, p)
    BY <1>2, <2>1, <2>3
  <2>5. p \in 1 .. Len(r)
    <3> DEFINE x == gone[n + 1]
    <3>1. x \in 1 .. Len(known)
      BY <2>1
    <3>2. x - n \in Nat \ {0}
      BY <1>1, <2>1, <2>3
    <3>3. Len(r) = Len(known) - n
      BY <2>2 DEF IsRest
    <3> HIDE DEF x, r
    <3>4. x - n \in 1 .. Len(r)
      BY <1>1, <2>1, <3>1, <3>2, <3>3
    <3> QED BY <3>4 DEF x
  <2>6. p = gone[n + 1] - n
    OBVIOUS
  <2> HIDE DEF p, r
  <2>7. Struck(r, p) = RemoveAt(r, p)
    <3>1. Len(r) \in Nat /\ p <= Len(r)
      BY <2>2, <2>5
    <3> QED BY <3>1 DEF Struck
  <2>8. RemoveAt(r, p) \in Seq(S)
    BY <2>2, <2>5, RemoveAtFacts
  <2>9. IsRest(RemoveAt(r, p), known, gone, 0, n + 1)
    BY <1>1, <2>1, <2>2, <2>5, <2>6, RestNext
  <2> QED BY <2>1, <2>4, <2>7, <2>8, <2>9
<1>5. 0 .. L \subseteq N
  <2> HIDE DEF N, L
  <2> QED BY <1>1, <1>3, <1>4, BoundedInduction
<1>6. L \in N
  <2> HIDE DEF N, L
  <2> QED BY <1>1, <1>5
<1> QED BY <1>2, <1>6

\* Every element that stays has a number of removed ones before it.
LEMMA FitExists ==
    ASSUME NEW gone \in Seq(Nat), NEW i \in Nat
    PROVE  \E k \in 0 .. Len(gone) : Fits(gone, 0, Len(gone), i, k)
<1> DEFINE L == Len(gone)
           N == {n \in 0 .. L : \E k \in 0 .. n : Fits(gone, 0, n, i, k)}
<1>1. L \in Nat /\ \A j \in 1 .. L : gone[j] \in Nat
  OBVIOUS
<1>2. 0 \in N
  <2>1. Fits(gone, 0, 0, i, 0)
    BY DEF Fits
  <2> QED BY <1>1, <2>1
<1>3. ASSUME NEW n \in 0 .. L - 1, n \in N PROVE n + 1 \in N
  <2>1. n \in Nat /\ n + 1 \in 1 .. L /\ n + 1 \in 0 .. L /\ 0 + (n + 1) = n + 1
    BY <1>1
  <2> DEFINE x == gone[n + 1]
  <2>2. x \in Nat
    BY <1>1, <2>1
  <2>3. CASE x - (n + 1) < i
    <3>1. Fits(gone, 0, n + 1, i, n + 1)
      BY <2>1, <2>3 DEF Fits
    <3>2. n + 1 \in 0 .. n + 1
      BY <2>1
    <3> QED BY <2>1, <3>1, <3>2
  <2>4. CASE ~(x - (n + 1) < i)
    <3>1. i <= x - (n + 1)
      <4> HIDE DEF x
      <4> QED BY <2>1, <2>2, <2>4
    <3>2. PICK k \in 0 .. n : Fits(gone, 0, n, i, k)
      BY <1>3
    <3>3. k # n + 1 /\ k \in 0 .. n + 1
      BY <2>1
    <3>4. k = n => i <= gone[0 + (k + 1)] - (k + 1)
      BY <2>1, <3>1
    <3>5. Fits(gone, 0, n + 1, i, k)
      BY <3>2, <3>3, <3>4 DEF Fits
    <3> QED BY <2>1, <3>3, <3>5
  <2> QED BY <2>3, <2>4
<1>4. 0 .. L \subseteq N
  <2> HIDE DEF N, L
  <2> QED BY <1>1, <1>2, <1>3, BoundedInduction
<1>5. L \in N
  <2> HIDE DEF N, L
  <2> QED BY <1>1, <1>4
<1> QED BY <1>5

LEMMA SameSequence ==
    ASSUME NEW S, NEW s \in Seq(S), NEW t \in Seq(S), Len(s) = Len(t),
           \A i \in 1 .. Len(s) : s[i] = t[i]
    PROVE  s = t
  OBVIOUS

\* Client and session remove the same messages, one by the numbers announced
\* in ascending order, the other by its own numbers in descending order.
LEMMA ExpungesAgree ==
    ASSUME NEW box \in Seq(Rows), NEW gone \in Seq(Nat), NEW lines \in Seq(Nat \ {0}),
           Ascending(gone), Announced(gone, lines),
           \A k \in 1 .. Len(gone) : gone[k] \in 1 .. Len(box)
    PROVE  Known(Without(box, gone)) = AfterExpunges(Known(box), lines)
<1> DEFINE w == Without(box, gone)
           known == Known(box)
           a == AfterExpunges(known, lines)
           n == Len(gone)
<1>1. /\ known \in Seq(Slots) /\ Len(known) = Len(box)
      /\ \A i \in 1 .. Len(box) : known[i] = [uid |-> box[i].uid, msg |-> box[i].msg]
  <2>1. DOMAIN box = 1 .. Len(box)
    OBVIOUS
  <2> QED BY <2>1, KnownFacts DEF Known
<1>2. w \in Seq(Rows) /\ IsRest(w, box, gone, 0, n)
  BY WithoutIsRest
<1> HIDE DEF known, w
<1>3. a \in Seq(Slots) /\ IsRest(a, known, gone, 0, n)
  BY <1>1, AfterIsRest
<1> HIDE DEF a
<1>4. /\ Known(w) \in Seq(Slots) /\ Len(Known(w)) = Len(w)
      /\ \A i \in 1 .. Len(w) : Known(w)[i] = [uid |-> w[i].uid, msg |-> w[i].msg]
  <2>1. DOMAIN w = 1 .. Len(w)
    BY <1>2
  <2> QED BY <1>2, <2>1, KnownFacts DEF Known
<1>5. Len(w) = Len(box) - n /\ Len(a) = Len(box) - n /\ Len(w) \in Nat
  BY <1>1, <1>2, <1>3 DEF IsRest
<1>6. ASSUME NEW i \in 1 .. Len(w) PROVE Known(w)[i] = a[i]
  <2>1. i \in Nat
    BY <1>5
  <2>2. PICK k \in 0 .. n : Fits(gone, 0, n, i, k)
    BY <2>1, FitExists
  <2>3. i + k \in 1 .. Len(box) /\ w[i] = box[i + k]
    BY <1>2, <1>5, <2>2 DEF IsRest
  <2>4. a[i] = known[i + k]
    BY <1>1, <1>3, <1>5, <2>2 DEF IsRest
  <2> QED BY <1>1, <1>4, <2>3, <2>4
<1> QED BY <1>3, <1>4, <1>5, <1>6, SameSequence DEF w, a, known

LEMMA ExpungeStep ==
    ASSUME IInv, [Next]_vars, NEW s \in Sessions, ExpungeEnds(s), ~session[s].refused, InStep(s)
    PROVE  InStep(s)'
<1> DEFINE ses == session[s]
<1>1. session \in [Sessions -> SessionType] /\ view \in [Sessions -> Seq(Slots)]
  BY DEF IInv, SessionsInv
<1>2. ses \in SessionType /\ TodoInv(ses) /\ LinesInv(ses)
  BY DEF IInv, SessionsInv, SessionInv
<1>3. ses.at = "expunge" /\ ses.todo = <<>> /\ session'[s].at = "idle"
  BY DEF ExpungeEnds
<1>4. session' # session
  BY <1>3
<1>5. PICK t \in Sessions : SessionStep(t)
  <2>1. ASSUME NEW m, Arrive(m) PROVE FALSE
    BY <1>4, <2>1 DEF Arrive
  <2>2. ~RegistryStep
    BY <1>4 DEF RegistryStep
  <2>3. ~RestartBridge
    BY <1>3 DEF RestartBridge, LoggedOut
  <2>4. ~UNCHANGED vars
    BY <1>4 DEF vars
  <2> QED BY <2>1, <2>2, <2>3, <2>4 DEF Next
<1>6. t = s
  <2> SUFFICES ASSUME t # s PROVE session'[s] = session[s]
    BY <1>3
  <2>1. \E x : session' = [session EXCEPT ![t] = x]
    <3>1. CASE Login(t) \/ Logout(t) \/ BeginExpunge(t) \/ EndExpunge(t)
      BY <1>1, <3>1 DEF Login, Logout, BeginExpunge, EndExpunge
    <3>2. ASSUME NEW cmd, List(t, cmd) PROVE \E x : session' = [session EXCEPT ![t] = x]
      BY <1>1, <3>2 DEF List
    <3>3. CASE Reply(t)
      <4>1. session[t].at = "listed" /\ session[t].cmd \in {"SELECT", "NOOP", "STATUS"}
        BY <3>3 DEF Reply, IInv, SessionsInv, SessionInv, SessionType, ListInv
      <4>2. CASE session[t].cmd = "SELECT"
        BY <3>3, <4>2 DEF Reply
      <4>3. CASE session[t].cmd = "NOOP"
        BY <3>3, <4>3 DEF Reply
      <4>4. CASE session[t].cmd = "STATUS"
        BY <3>3, <4>4 DEF Reply
      <4> QED BY <4>1, <4>2, <4>3, <4>4
    <3>4. ASSUME NEW i, NEW mode, NEW fs, Store(t, i, mode, fs) \/ StoreUnanswered(t, i, mode, fs)
          PROVE  \E x : session' = [session EXCEPT ![t] = x]
      BY <1>4, <3>4 DEF Store, StoreUnanswered
    <3>5. CASE ExpungeOne(t) \/ ExpungeOneFails(t)
      BY <3>5 DEF ExpungeOne, ExpungeOneFails
    <3> QED BY <1>5, <3>1, <3>2, <3>3, <3>4, <3>5 DEF SessionStep
  <2> QED BY <1>1, <2>1
<1>7. EndExpunge(s)
  BY <1>3, <1>5, <1>6
  DEF SessionStep, Login, Logout, List, Reply, Store, StoreUnanswered, BeginExpunge, ExpungeOne, ExpungeOneFails
<1>8. session'[s].box = Without(ses.box, ses.gone) /\ view'[s] = AfterExpunges(view[s], ses.lines)
  <2>1. session'[s] = [Done(ses) EXCEPT !.box = Without(Done(ses).box, ses.gone)]
    BY <1>1, <1>7 DEF EndExpunge
  <2>2. view'[s] = AfterExpunges(view[s], ses.lines)
    BY <1>1, <1>7 DEF EndExpunge
  <2>3. session'[s].box = Without(ses.box, ses.gone)
    BY <1>2, <2>1 DEF Done, SessionType
  <2> QED BY <2>2, <2>3
<1>9. /\ ses.box \in Seq(Rows) /\ ses.gone \in Seq(Nat) /\ ses.lines \in Seq(Nat \ {0})
      /\ Ascending(ses.gone) /\ Announced(ses.gone, ses.lines)
      /\ \A k \in 1 .. Len(ses.gone) : ses.gone[k] \in 1 .. Len(ses.box)
  BY <1>2 DEF SessionType, TodoInv, LinesInv
<1>10. Known(Without(ses.box, ses.gone)) = AfterExpunges(Known(ses.box), ses.lines)
  BY <1>9, ExpungesAgree
<1> QED BY <1>8, <1>10 DEF InStep

\* The numbers EXPUNGE announces leave client and session in step, when no
\* delete of the command failed: the corrections for the messages removed
\* before are exact (cmd_expunge).
THEOREM ExpungeNumbersHold == Spec => ExpungeKeepsStep
<1>1. IInv /\ [Next]_vars =>
        [\A s \in Sessions :
            ExpungeEnds(s) /\ ~ session[s].refused /\ InStep(s) => InStep(s)']_vars
  BY ExpungeStep
<1> QED BY <1>1, Invariance, PTL DEF Spec, ExpungeKeepsStep

----------------------------------------------------------------------------
(* One session: its copy of the flags *)

LEMMA FaultsGrow ==
    ASSUME [Next]_vars
    PROVE  faults' = faults \/ Fault
<1>1. ASSUME NEW ids, ResolveListed(ids) PROVE faults' = faults \/ Fault
  BY <1>1 DEF ResolveListed, Registry!Resolve, Registry!ResolveUnsaved, Registry!ResolveTorn,
              Registry!ResolveUnread, Fault
<1>2. ASSUME NEW s \in Sessions, SessionStep(s) PROVE faults' = faults \/ Fault
  <2>1. CASE Reply(s)
    BY <1>1, <2>1 DEF Reply
  <2> QED BY <1>2, <2>1
          DEF SessionStep, Login, Logout, List, Store, StoreUnanswered, BeginExpunge, ExpungeOne,
              ExpungeOneFails, EndExpunge, registryVars
<1>3. CASE RestartBridge
  BY <1>3 DEF RestartBridge, Registry!Restart, Registry!CrashInPersist, Fault
<1>4. CASE RegistryStep
  BY <1>4 DEF RegistryStep, Registry!FileDamaged, Registry!Tick, Fault
<1>5. ASSUME NEW m, Arrive(m) PROVE faults' = faults
  BY <1>5 DEF Arrive, registryVars
<1> QED BY <1>2, <1>3, <1>4, <1>5 DEF Next, vars, registryVars

\* As long as nothing failed there was no failure before either.
LEMMA FaultlessBefore ==
    ASSUME R!IInv, [Next]_vars, faults' = 0
    PROVE  faults = 0 /\ faults' = faults /\ ~Fault
<1>1. faults \in Nat
  BY NumbersAssumption DEF R!IInv, R!TypeOK
<1> QED BY <1>1, FaultsGrow DEF Fault, Registry!Fault

\* What holds of every row of a box holds of every row EXPUNGE leaves.
LEMMA WithoutMirrors ==
    ASSUME NEW box \in Seq(Rows), NEW gone \in Seq(Nat), Ascending(gone), NEW f, Mirrors(box, f),
           \A k \in 1 .. Len(gone) : gone[k] \in 1 .. Len(box)
    PROVE  Mirrors(Without(box, gone), f)
<1> DEFINE w == Without(box, gone)
<1>1. w \in Seq(Rows) /\ IsRest(w, box, gone, 0, Len(gone))
  BY WithoutIsRest
<1> HIDE DEF w
<1>2. Len(w) = Len(box) - Len(gone) /\ Len(w) \in Nat
  BY <1>1 DEF IsRest
<1>3. ASSUME NEW i \in 1 .. Len(w) PROVE w[i].flags = f[w[i].msg]
  <2>1. i \in Nat
    BY <1>2
  <2>2. PICK k \in 0 .. Len(gone) : Fits(gone, 0, Len(gone), i, k)
    BY <2>1, FitExists
  <2>3. i + k \in 1 .. Len(box) /\ w[i] = box[i + k]
    BY <1>1, <1>2, <2>2 DEF IsRest
  <2> QED BY <2>3 DEF Mirrors
<1>4. Mirrors(w, f)
  BY <1>3 DEF Mirrors
<1> QED BY <1>4 DEF w

\* STORE, as the session computes it and as the server applies it.
LEMMA StoreMirrors ==
    ASSUME NEW box \in Seq(Rows), Distinct(box), NEW f \in [Messages -> SUBSET Flags], Mirrors(box, f),
           NEW i \in 1 .. Len(box), NEW mode \in {"add", "remove"}, NEW fs \in SUBSET Flags, NEW g,
           g = [f EXCEPT ![box[i].msg] = IF mode = "remove" THEN f[box[i].msg] \ fs ELSE f[box[i].msg] \cup fs]
    PROVE  Mirrors([box EXCEPT ![i].flags = Stored(mode, fs, box[i].flags)], g)
<1> DEFINE new == Stored(mode, fs, box[i].flags)
           b == [box EXCEPT ![i].flags = new]
           m == box[i].msg
<1>1. \A j \in 1 .. Len(box) : box[j] \in Rows
  OBVIOUS
<1>2. \A j \in 1 .. Len(box) : box[j].msg \in Messages /\ box[j].flags = f[box[j].msg]
  BY <1>1 DEF Rows, Mirrors
<1>3. new = IF mode = "remove" THEN f[m] \ fs ELSE f[m] \cup fs
  BY <1>2 DEF Stored
<1> HIDE DEF new
<1>4. Len(b) = Len(box)
  BY <1>1 DEF Rows
<1>5. \A j \in 1 .. Len(box) : b[j].msg = box[j].msg /\ b[j].flags = IF j = i THEN new ELSE box[j].flags
  <2> SUFFICES ASSUME NEW j \in 1 .. Len(box)
               PROVE  b[j].msg = box[j].msg /\ b[j].flags = IF j = i THEN new ELSE box[j].flags
    OBVIOUS
  <2>1. j \in DOMAIN box /\ box[j] \in Rows
    BY <1>1
  <2> QED BY <1>1, <2>1 DEF Rows
<1> HIDE DEF b
<1>6. m \in Messages /\ g[m] = new /\ \A n \in Messages : n # m => g[n] = f[n]
  BY <1>2, <1>3
<1>7. ASSUME NEW j \in 1 .. Len(box) PROVE b[j].flags = g[b[j].msg]
  <2>1. CASE j = i
    BY <1>5, <1>6, <2>1
  <2>2. CASE j # i
    <3>1. box[j].msg # m
      BY <2>2 DEF Distinct
    <3> QED BY <1>2, <1>5, <1>6, <2>2, <3>1
  <2> QED BY <2>1, <2>2
<1> QED BY <1>4, <1>7 DEF Mirrors, b, new

Copies(ses, f) == Mirrors(ses.box, f) /\ Mirrors(ses.list, f)

LEMMA CopyStep ==
    ASSUME IInv, R!IInv, CopyInv, [Next]_vars, \A s, t \in Sessions : s = t, StoreModes \subseteq {"add", "remove"}
    PROVE  CopyInv'
<1> SUFFICES ASSUME faults' = 0, NEW s \in Sessions PROVE Copies(session'[s], flags')
  BY DEF CopyInv, Copies
<1> DEFINE ses == session[s]
<1>1. faults = 0 /\ ~Fault /\ faults' = faults
  BY FaultlessBefore
<1>2. /\ ses \in SessionType /\ ListInv(ses) /\ TodoInv(ses) /\ Distinct(ses.box)
      /\ session \in [Sessions -> SessionType] /\ flags \in [Messages -> SUBSET Flags]
  BY DEF IInv, SessionsInv, SessionInv, BoxInv, ServerInv
<1>3. Copies(ses, flags) /\ Mirrors(ses.box, flags)
  BY <1>1 DEF CopyInv, Copies
<1>4. /\ ses.box \in Seq(Rows) /\ ses.selected \in BOOLEAN /\ ses.gone \in Seq(Nat)
  BY <1>2 DEF SessionType
<1>5. ASSUME NEW x, session' = [session EXCEPT ![s] = x], flags' = flags, x.box = ses.box, x.list = ses.list
      PROVE  Copies(session'[s], flags')
  BY <1>2, <1>3, <1>5 DEF Copies
<1>6. Copies(LoggedOut, flags)
  BY DEF Copies, LoggedOut, Mirrors
<1>7. CASE SessionStep(s)
  <2>1. CASE Login(s)
    <3>1. session' = [session EXCEPT ![s] = [ses EXCEPT !.at = "idle"]] /\ flags' = flags
      BY <1>2, <2>1 DEF Login, mailVars
    <3> QED BY <1>2, <1>5, <3>1 DEF SessionType
  <2>2. CASE Logout(s)
    BY <1>2, <1>6, <2>2 DEF Logout, mailVars
  <2>3. ASSUME NEW cmd, List(s, cmd) PROVE Copies(session'[s], flags')
    <3>1. session' = [session EXCEPT ![s] = [ses EXCEPT !.at = "listed", !.cmd = cmd, !.list = Listing]] /\ flags' = flags
      BY <1>2, <2>3 DEF List, mailVars
    <3>2. Mirrors(Listing, flags)
      BY ListingFacts DEF IInv
    <3>3. session'[s].box = ses.box /\ session'[s].list = Listing
      BY <1>2, <3>1 DEF SessionType
    <3> QED BY <1>3, <3>1, <3>2, <3>3 DEF Copies
  <2>4. CASE Reply(s)
    <3> DEFINE box == Numbered(ses.list, cache'.uid)
               ids == [i \in DOMAIN ses.list |-> ses.list[i].msg]
    <3>1. ses.list \in Seq(ListedRows) /\ Distinct(ses.list) /\ Len(ses.list) <= Window
      BY <1>2 DEF SessionType, ListInv
    <3>2. ids \in Catalogues /\ ResolveListed(ids)
      BY <2>4, <3>1, ListedIds DEF Reply
    <3>3. Len(ids) = Len(ses.list) /\ \A i \in 1 .. Len(ses.list) : ids[i] = ses.list[i].msg
      BY <3>1
    <3> HIDE DEF ids
    <3>4. \A i \in 1 .. Len(ses.list) : cache'.uid[ses.list[i].msg] # 0
      BY <3>2, <3>3, ResolvedFacts
    <3>5. box \in Seq(Rows) /\ Mirrors(box, flags)
      BY <1>3, <3>1, <3>2, <3>4, ResolvedFacts, NumberedFacts DEF Copies
    <3>6. flags' = flags
      BY <2>4 DEF Reply, mailVars
    <3>7. ses.cmd \in {"SELECT", "NOOP", "STATUS"}
      BY <1>2, <2>4 DEF Reply, ListInv, SessionType
    <3>8. CASE ses.cmd = "SELECT"
      <4>1. session'[s] = [Done(ses) EXCEPT !.selected = TRUE, !.box = box]
        BY <1>2, <2>4, <3>8 DEF Reply
      <4>2. session'[s].box = box /\ session'[s].list = <<>>
        BY <1>2, <4>1 DEF Done, SessionType
      <4> HIDE DEF box
      <4> QED BY <3>5, <3>6, <4>2 DEF Copies, Mirrors
    <3>9. CASE ses.cmd = "NOOP"
      <4>1. session'[s] = [Done(ses) EXCEPT !.box = box]
        BY <1>2, <2>4, <3>9 DEF Reply
      <4>2. session'[s].box = box /\ session'[s].list = <<>>
        BY <1>2, <4>1 DEF Done, SessionType
      <4> HIDE DEF box
      <4> QED BY <3>5, <3>6, <4>2 DEF Copies, Mirrors
    <3>10. CASE ses.cmd = "STATUS"
      <4>1. session'[s] = Done(ses)
        BY <1>2, <2>4, <3>10 DEF Reply
      <4>2. session'[s].box = ses.box /\ session'[s].list = <<>>
        BY <1>2, <4>1 DEF Done, SessionType
      <4> QED BY <1>3, <3>6, <4>2 DEF Copies, Mirrors
    <3> QED BY <3>7, <3>8, <3>9, <3>10
  <2>5. ASSUME NEW i \in DOMAIN ses.box, NEW mode \in StoreModes, NEW fs \in SUBSET Flags \ {{}}, Store(s, i, mode, fs)
        PROVE  Copies(session'[s], flags')
    <3> DEFINE new == Stored(mode, fs, ses.box[i].flags)
               b == [ses.box EXCEPT ![i].flags = new]
               m == ses.box[i].msg
    <3>1. i \in 1 .. Len(ses.box) /\ mode \in {"add", "remove"} /\ fs \in SUBSET Flags
      BY <1>4
    <3>2. ses.box[i] \in Rows
      BY <1>4
    <3>3. m \in Messages
      BY <3>2 DEF Rows
    <3>4. flags' = [flags EXCEPT ![m] = IF mode = "remove" THEN flags[m] \ fs ELSE flags[m] \cup fs]
      <4>1. StoreOnServer(m, mode, fs)
        BY <2>5 DEF Store
      <4>2. CASE mode = "remove"
        <5>1. flags' = [flags EXCEPT ![m] = (flags[m] \cup {}) \ fs]
          BY <4>1, <4>2 DEF StoreOnServer, Apply
        <5> QED BY <4>2, <5>1
      <4>3. CASE mode # "remove"
        <5>1. flags' = [flags EXCEPT ![m] = (flags[m] \cup fs) \ {}]
          BY <4>1, <4>3 DEF StoreOnServer, Apply
        <5> QED BY <4>3, <5>1
      <4> QED BY <4>2, <4>3
    <3>5. Mirrors(b, flags')
      BY <1>2, <1>3, <1>4, <3>1, <3>4, StoreMirrors
    <3>6. session' = [session EXCEPT ![s] = [ses EXCEPT !.box[i].flags = new]] /\ ses.at = "idle"
      BY <1>2, <2>5 DEF Store
    <3>7. session'[s].box = b /\ session'[s].list = ses.list
      BY <1>2, <1>4, <3>6 DEF SessionType
    <3>8. ses.list = <<>>
      BY <1>2, <3>6 DEF ListInv
    <3>9. Mirrors(ses.list, flags')
      BY <3>8 DEF Mirrors
    <3> HIDE DEF b, new
    <3> QED BY <3>5, <3>7, <3>9 DEF Copies
  <2>6. ASSUME NEW i, NEW mode, NEW fs, StoreUnanswered(s, i, mode, fs) PROVE FALSE
    BY <1>1, <2>6 DEF StoreUnanswered
  <2>7. CASE BeginExpunge(s)
    <3>1. session' = [session EXCEPT ![s] = [ses EXCEPT !.at = "expunge", !.todo = ToExpunge(ses.box)]] /\ flags' = flags
      BY <1>2, <2>7 DEF BeginExpunge, mailVars
    <3> QED BY <1>2, <1>5, <3>1 DEF SessionType
  <2>8. CASE ExpungeOne(s)
    <3>1. flags' = flags
      BY <2>8 DEF ExpungeOne, Delete, mailVars
    <3>2. Accepted(ses).box = ses.box /\ Accepted(ses).list = ses.list
          /\ Refused(ses).box = ses.box /\ Refused(ses).list = ses.list
      BY <1>2 DEF Accepted, Refused, SessionType
    <3>3. session' = [session EXCEPT ![s] = Accepted(ses)] \/ session' = [session EXCEPT ![s] = Refused(ses)]
      BY <2>8 DEF ExpungeOne
    <3> QED BY <1>5, <3>1, <3>2, <3>3
  <2>9. ~ExpungeOneFails(s)
    BY <1>1 DEF ExpungeOneFails
  <2>10. CASE EndExpunge(s)
    <3> DEFINE w == Without(ses.box, ses.gone)
    <3>1. flags' = flags /\ session'[s] = [Done(ses) EXCEPT !.box = Without(Done(ses).box, ses.gone)]
      BY <1>2, <2>10 DEF EndExpunge, mailVars
    <3>2. session'[s].box = w /\ session'[s].list = <<>>
      <4>1. Done(ses).box = ses.box
        BY <1>2 DEF Done, SessionType
      <4>2. session'[s] = [Done(ses) EXCEPT !.box = w]
        BY <3>1, <4>1
      <4> HIDE DEF w
      <4> QED BY <1>2, <4>2 DEF Done, SessionType
    <3>3. w \in Seq(Rows) /\ Mirrors(w, flags)
      BY <1>2, <1>3, <1>4, WithoutIsRest, WithoutMirrors DEF TodoInv
    <3> HIDE DEF w
    <3> QED BY <3>1, <3>2, <3>3 DEF Copies, Mirrors
  <2> QED BY <1>7, <2>1, <2>2, <2>3, <2>4, <2>5, <2>6, <2>7, <2>8, <2>9, <2>10 DEF SessionStep
<1>8. ASSUME UNCHANGED <<flags, session>> PROVE Copies(session'[s], flags')
  BY <1>3, <1>8
<1>9. CASE RestartBridge
  BY <1>6, <1>9 DEF RestartBridge, mailVars
<1> QED BY <1>7, <1>8, <1>9 DEF Next, Arrive, RegistryStep, vars, mailVars

\* With one session, whose clients add and remove flags, the copy STORE tells
\* the client and EXPUNGE and FETCH use is what the server holds, as long as no
\* call failed (cmd_store).
THEOREM CopyHolds ==
    ASSUME \A s, t \in Sessions : s = t, StoreModes \subseteq {"add", "remove"}
    PROVE  Spec => []CopyIsServer
<1>1. Init => CopyInv
  BY DEF Init, CopyInv, LoggedOut, Mirrors
<1>2. (IInv /\ R!IInv) /\ CopyInv /\ [Next]_vars => CopyInv'
  BY CopyStep
<1>3. IInv /\ CopyInv => CopyIsServer
  <2> SUFFICES ASSUME IInv, CopyInv, faults = 0, NEW s \in Sessions, NEW i \in DOMAIN session[s].box
               PROVE  session[s].box[i].flags = flags[session[s].box[i].msg]
    BY DEF CopyIsServer
  <2>1. session[s].box \in Seq(Rows)
    BY DEF IInv, SessionsInv, SessionInv, SessionType
  <2>2. i \in 1 .. Len(session[s].box)
    BY <2>1
  <2> QED BY <2>2 DEF CopyInv, Mirrors
<1> QED BY <1>1, <1>2, <1>3, Invariance, PTL DEF Spec

----------------------------------------------------------------------------
(* One session: the numbers its client knows *)

LEMMA ArriveCatalogued ==
    ASSUME ServerInv, NEW m \in Messages, Arrive(m)
    PROVE  Catalogued' = Catalogued \cup {m} /\ m \notin Catalogued \cup purged /\ purged' = purged
<1> DEFINE n == Len(catalogue)
<1>1. PICK i \in 1 .. n + 1 : catalogue' = InsertAt(catalogue, i, m)
  BY DEF Arrive
<1>2. n \in Nat /\ catalogue \in Seq(Messages)
  BY DEF ServerInv
<1>3. /\ catalogue' \in Seq(Messages) /\ Len(catalogue') = n + 1
      /\ \A j \in 1 .. n + 1 :
            catalogue'[j] = IF j < i THEN catalogue[j] ELSE IF j = i THEN m ELSE catalogue[j - 1]
  <2>1. /\ InsertAt(catalogue, i, m) \in Seq(Messages)
        /\ Len(InsertAt(catalogue, i, m)) = Len(catalogue) + 1
        /\ \A j \in 1 .. Len(catalogue) + 1 :
              InsertAt(catalogue, i, m)[j] =
                  IF j < i THEN catalogue[j] ELSE IF j = i THEN m ELSE catalogue[j - 1]
    BY <1>2, InsertAtFacts
  <2> QED BY <1>1, <2>1
<1>4. Catalogued = {catalogue[j] : j \in 1 .. n} /\ Catalogued' = {catalogue'[j] : j \in 1 .. n + 1}
  <2>1. DOMAIN catalogue = 1 .. n
    BY <1>2
  <2>2. DOMAIN catalogue' = 1 .. n + 1
    <3> HIDE DEF n
    <3> QED BY <1>2, <1>3
  <2> HIDE DEF n
  <2> QED BY <2>1, <2>2 DEF Catalogued, ToSet
<1> HIDE DEF n
<1>5. ASSUME NEW j \in 1 .. n + 1 PROVE catalogue'[j] \in Catalogued \cup {m}
  <2>1. (j < i => j \in 1 .. n) /\ (j > i => j - 1 \in 1 .. n) /\ (j < i \/ j = i \/ j > i)
    BY <1>2
  <2> QED BY <1>2, <1>3, <1>4, <2>1
<1>6. ASSUME NEW j \in 1 .. n PROVE catalogue[j] \in Catalogued'
  <2>1. CASE j < i
    BY <1>2, <1>3, <1>4, <2>1
  <2>2. CASE ~(j < i)
    <3>1. j + 1 \in 1 .. n + 1 /\ ~(j + 1 < i) /\ j + 1 # i /\ (j + 1) - 1 = j
      BY <1>2, <2>2
    <3>2. catalogue'[j + 1] = catalogue[j]
      BY <1>3, <3>1
    <3> QED BY <1>4, <3>1, <3>2
  <2> QED BY <2>1, <2>2
<1>7. m \in Catalogued'
  <2>1. i \in 1 .. n + 1 /\ ~(i < i)
    BY <1>2
  <2>2. catalogue'[i] = m
    BY <1>3, <2>1
  <2> QED BY <1>4, <2>1, <2>2
<1>8. Catalogued' = Catalogued \cup {m}
  BY <1>4, <1>5, <1>6, <1>7
<1> QED BY <1>8 DEF Arrive

LEMMA DeleteCatalogued ==
    ASSUME ServerInv, NEW m, Delete(m)
    PROVE  Catalogued' = Catalogued \ {m} /\ purged' = purged \cup {m} /\ m \in Catalogued
<1> DEFINE n == Len(catalogue)
<1>1. PICK i \in DOMAIN catalogue : catalogue[i] = m /\ catalogue' = RemoveAt(catalogue, i)
  BY DEF Delete
<1>2. n \in Nat /\ catalogue \in Seq(Messages) /\ i \in 1 .. n
  BY DEF ServerInv
<1>3. /\ catalogue' \in Seq(Messages) /\ Len(catalogue') = n - 1
      /\ \A j \in 1 .. n - 1 : catalogue'[j] = IF j < i THEN catalogue[j] ELSE catalogue[j + 1]
  BY <1>1, <1>2, RemoveAtFacts
<1>4. Catalogued = {catalogue[j] : j \in 1 .. n} /\ Catalogued' = {catalogue'[j] : j \in 1 .. n - 1}
  BY <1>2, <1>3 DEF Catalogued, ToSet
<1>5. \A j, k \in 1 .. n : catalogue[j] = catalogue[k] => j = k
  BY <1>2 DEF ServerInv, IsInjective
<1> HIDE DEF n
<1>6. ASSUME NEW j \in 1 .. n - 1 PROVE catalogue'[j] \in Catalogued \ {m}
  <2>1. j \in 1 .. n /\ j + 1 \in 1 .. n /\ (j < i => j # i) /\ (~(j < i) => j + 1 # i)
    BY <1>2
  <2> QED BY <1>1, <1>2, <1>3, <1>4, <1>5, <2>1
<1>7. ASSUME NEW j \in 1 .. n, j # i PROVE catalogue[j] \in Catalogued'
  <2>1. CASE j < i
    <3>1. j \in 1 .. n - 1
      BY <1>2, <2>1
    <3> QED BY <1>3, <1>4, <2>1, <3>1
  <2>2. CASE ~(j < i)
    <3>1. j - 1 \in 1 .. n - 1 /\ ~(j - 1 < i) /\ (j - 1) + 1 = j
      BY <1>2, <1>7, <2>2
    <3>2. catalogue'[j - 1] = catalogue[j]
      BY <1>3, <3>1
    <3> QED BY <1>4, <3>1, <3>2
  <2> QED BY <2>1, <2>2
<1>8. Catalogued' = Catalogued \ {m}
  BY <1>1, <1>4, <1>6, <1>7
<1> QED BY <1>1, <1>2, <1>4, <1>8 DEF Delete

\* A mailbox that fits the window is listed whole.
LEMMA ListsAll ==
    ASSUME ServerInv, Cardinality(Messages) <= Window
    PROVE  Msgs(Listing) = Catalogued
<1> DEFINE n == Len(catalogue)
<1>1. n \in Nat /\ catalogue \in [1 .. n -> Messages] /\ Window \in Nat
  BY NumbersAssumption DEF ServerInv
<1>2. \A j, k \in 1 .. n : catalogue[j] = catalogue[k] => j = k
  BY <1>1 DEF ServerInv, IsInjective
<1>3. DOMAIN catalogue = 1 .. n
  BY <1>1
<1> HIDE DEF n
<1>4. n <= Cardinality(Messages) /\ Cardinality(Messages) \in Nat
  <2>1. IsFiniteSet(1 .. n) /\ Cardinality(1 .. n) = n
    <3>1. 1 \in Int /\ n \in Int
      BY <1>1
    <3>2. IsFiniteSet(1 .. n) /\ Cardinality(1 .. n) = IF 1 > n THEN 0 ELSE n - 1 + 1
      BY <3>1, FS_Interval
    <3> QED BY <1>1, <3>2
  <2>2. IsFiniteSet(Messages) /\ Cardinality(Messages) \in Nat
    BY NumbersAssumption, FS_CardinalityType
  <2>3. CASE Cardinality(Messages) < Cardinality(1 .. n)
    <3>1. \E x, y \in 1 .. n : x # y /\ catalogue[x] = catalogue[y]
      BY <1>1, <2>1, <2>2, <2>3, FS_PigeonHole
    <3> QED BY <1>2, <3>1
  <2> QED BY <1>1, <2>1, <2>2, <2>3
<1>5. ~(n > Window)
  BY <1>1, <1>4
<1>6. Recent = catalogue
  BY <1>5 DEF Recent, n
<1>7. Listing = [i \in 1 .. n |-> [msg |-> catalogue[i], flags |-> flags[catalogue[i]]]]
  BY <1>3, <1>6 DEF Listing
<1>8. Len(Listing) = n
  BY <1>1, <1>7
<1>9. \A i \in 1 .. n : Listing[i].msg = catalogue[i]
  BY <1>7
<1> QED BY <1>3, <1>8, <1>9 DEF Msgs, Catalogued, ToSet

Room(rows) == \A i \in 1 .. Len(rows) : rows[i].uid # MaxUid

\* A box that holds the old one, and higher UIDs otherwise, starts with it.
LEMMA StartsWithOld ==
    ASSUME NEW old \in Seq(Rows), NEW box \in Seq(Rows), Sorted(old), Sorted(box), Room(old), Room(box),
           \A i \in 1 .. Len(old) : \E j \in 1 .. Len(box) :
              box[j].msg = old[i].msg /\ box[j].uid = old[i].uid,
           \A j \in 1 .. Len(box) : \/ \E i \in 1 .. Len(old) : box[j].uid = old[i].uid
                                    \/ \A i \in 1 .. Len(old) : old[i].uid < box[j].uid
    PROVE  /\ Len(old) <= Len(box)
           /\ \A i \in 1 .. Len(old) : box[i].msg = old[i].msg /\ box[i].uid = old[i].uid
<1> DEFINE a == Len(old)
           b == Len(box)
           u(i) == old[i].uid
           v(i) == box[i].uid
           S == {n \in 0 .. a : n <= b /\ \A i \in 1 .. n : box[i].msg = old[i].msg /\ v(i) = u(i)}
<1>1. a \in Nat /\ b \in Nat
  OBVIOUS
<1>2. (\A i \in 1 .. a : old[i] \in Rows) /\ \A i \in 1 .. b : box[i] \in Rows
  OBVIOUS
<1>3. (\A i \in 1 .. a : u(i) \in Nat) /\ \A i \in 1 .. b : v(i) \in Nat
  <2>1. \A row \in Rows : row.uid \in Nat
    BY NumbersAssumption DEF Rows
  <2> QED BY <1>2, <2>1
<1>4. /\ \A i, j \in 1 .. a : i < j => u(i) < u(j)
      /\ \A i, j \in 1 .. b : i < j => v(i) < v(j)
  BY DEF Sorted, Room
<1>5. \A i \in 1 .. a : \E j \in 1 .. b : box[j].msg = old[i].msg /\ v(j) = u(i)
  OBVIOUS
<1>6. \A j \in 1 .. b : (\E i \in 1 .. a : v(j) = u(i)) \/ \A i \in 1 .. a : u(i) < v(j)
  OBVIOUS
<1> HIDE DEF a, b, u, v
<1>7. 0 \in S
  BY <1>1
<1>8. ASSUME NEW n \in 0 .. a - 1, n \in S PROVE n + 1 \in S
  <2>1. n \in Nat /\ n + 1 \in 1 .. a /\ n + 1 \in 0 .. a
    BY <1>1
  <2>2. n <= b /\ \A i \in 1 .. n : box[i].msg = old[i].msg /\ v(i) = u(i)
    BY <1>8
  <2>3. PICK j \in 1 .. b : box[j].msg = old[n + 1].msg /\ v(j) = u(n + 1)
    BY <1>5, <2>1
  <2>4. ~(j < n + 1)
    <3> SUFFICES ASSUME j < n + 1 PROVE FALSE
      OBVIOUS
    <3>1. j \in 1 .. n /\ j \in 1 .. a
      BY <1>1, <2>1
    <3>2. u(j) < u(n + 1)
      BY <1>4, <2>1, <3>1
    <3>3. u(j) = u(n + 1)
      BY <2>2, <2>3, <3>1
    <3> QED BY <1>3, <2>1, <3>2, <3>3
  <2>5. ~(n + 1 < j)
    <3> SUFFICES ASSUME n + 1 < j PROVE FALSE
      OBVIOUS
    <3>1. n + 1 \in 1 .. b
      BY <1>1, <2>1
    <3>2. v(n + 1) < u(n + 1)
      BY <1>4, <2>3, <3>1
    <3>3. v(n + 1) \in Nat /\ u(n + 1) \in Nat
      BY <1>3, <2>1, <3>1
    <3>4. PICK i \in 1 .. a : v(n + 1) = u(i)
      <4>1. ~(u(n + 1) < v(n + 1))
        BY <3>2, <3>3
      <4> QED BY <1>6, <2>1, <3>1, <4>1
    <3>5. i < n + 1
      <4>1. CASE n + 1 < i
        <5>1. u(n + 1) < u(i) /\ u(i) \in Nat
          BY <1>3, <1>4, <2>1, <4>1
        <5> QED BY <3>2, <3>3, <3>4, <5>1
      <4>2. CASE i = n + 1
        BY <3>2, <3>3, <3>4, <4>2
      <4> QED BY <1>1, <2>1, <4>1, <4>2
    <3>6. i \in 1 .. n /\ i \in 1 .. b
      BY <1>1, <2>1, <2>2, <3>5
    <3>7. v(i) < v(n + 1) /\ v(i) = u(i)
      BY <1>4, <2>2, <3>1, <3>5, <3>6
    <3> QED BY <3>3, <3>4, <3>7
  <2>6. j = n + 1
    BY <1>1, <2>1, <2>4, <2>5
  <2>7. n + 1 <= b
    BY <1>1, <2>6
  <2>8. ASSUME NEW i \in 1 .. n + 1 PROVE box[i].msg = old[i].msg /\ v(i) = u(i)
    <3>1. i \in 1 .. n \/ i = n + 1
      BY <2>1
    <3> QED BY <2>2, <2>3, <2>6, <3>1
  <2> QED BY <2>1, <2>7, <2>8
<1>9. 0 .. a \subseteq S
  <2> HIDE DEF S
  <2> QED BY <1>1, <1>7, <1>8, BoundedInduction
<1>10. a \in S
  <2> HIDE DEF S
  <2> QED BY <1>1, <1>9
<1> QED BY <1>10 DEF a, b, u, v

\* EXISTS, and the fetch that follows it, bring the client up to such a box.
LEMMA LearnAgrees ==
    ASSUME NEW old \in Seq(Rows), NEW box \in Seq(Rows), Len(old) <= Len(box),
           \A i \in 1 .. Len(old) : box[i].msg = old[i].msg /\ box[i].uid = old[i].uid
    PROVE  LearnFromNoop(Known(old), old, box) = Known(box)
<1> DEFINE known == Known(old)
           k == Known(box)
           a == Len(old)
           b == Len(box)
<1>1. a \in Nat /\ b \in Nat /\ DOMAIN old = 1 .. a /\ DOMAIN box = 1 .. b /\ a <= b
  OBVIOUS
<1>2. /\ known \in Seq(Slots) /\ Len(known) = a
      /\ \A i \in 1 .. a : known[i] = [uid |-> old[i].uid, msg |-> old[i].msg]
  BY <1>1, KnownFacts DEF Known
<1>3. /\ k \in Seq(Slots) /\ Len(k) = b
      /\ \A i \in 1 .. b : k[i] = [uid |-> box[i].uid, msg |-> box[i].msg]
  BY <1>1, KnownFacts DEF Known
<1>4. ASSUME NEW i \in 1 .. a PROVE known[i] = k[i]
  <2>1. i \in 1 .. b
    BY <1>1
  <2>2. known[i] = [uid |-> old[i].uid, msg |-> old[i].msg]
    BY <1>2
  <2>3. k[i] = [uid |-> box[i].uid, msg |-> box[i].msg]
    BY <1>3, <2>1
  <2> HIDE DEF known, k
  <2> QED BY <2>2, <2>3
<1>5. CASE a = b
  <2>1. known = k
    <3> HIDE DEF known, k, a, b
    <3> QED BY <1>2, <1>3, <1>4, <1>5, SameSequence
  <2> QED BY <1>5, <2>1 DEF LearnFromNoop
<1>6. CASE a # b
  <2> DEFINE more == SubSeq(k, a + 1, b)
  <2>1. LearnFromNoop(known, old, box) = known \o more
    <3>1. LearnFromNoop(known, old, box) = Learn(known, box)
      BY <1>6 DEF LearnFromNoop
    <3>2. Len(box) >= Len(known)
      BY <1>1, <1>2
    <3> QED BY <1>2, <3>1, <3>2 DEF Learn
  <2> HIDE DEF known, k, a, b
  <2>2. more \in Seq(Slots) /\ Len(more) = b - a /\ \A i \in 1 .. b - a : more[i] = k[a + i]
    BY <1>1, <1>3, <1>6
  <2> HIDE DEF more
  <2>3. /\ known \o more \in Seq(Slots) /\ Len(known \o more) = Len(known) + Len(more)
        /\ \A j \in 1 .. Len(known) + Len(more) :
              (known \o more)[j] = IF j <= Len(known) THEN known[j] ELSE more[j - Len(known)]
    <3>1. known \in Seq(Slots) /\ more \in Seq(Slots)
      BY <1>2, <2>2
    <3> QED BY <3>1, ConcatFacts
  <2>4. Len(known \o more) = b
    BY <1>1, <1>2, <2>2, <2>3
  <2>5. ASSUME NEW j \in 1 .. b PROVE (known \o more)[j] = k[j]
    <3>1. (known \o more)[j] = IF j <= a THEN known[j] ELSE more[j - a]
      BY <1>1, <1>2, <2>2, <2>3
    <3>2. CASE j <= a
      BY <1>1, <1>4, <3>1, <3>2
    <3>3. CASE ~(j <= a)
      <4>1. j - a \in 1 .. b - a /\ a + (j - a) = j
        BY <1>1, <3>3
      <4>2. more[j - a] = k[a + (j - a)]
        BY <2>2, <4>1
      <4> QED BY <3>1, <3>3, <4>1, <4>2
    <3> QED BY <3>2, <3>3
  <2>6. known \o more = k
    BY <1>3, <2>3, <2>4, <2>5, SameSequence
  <2> QED BY <2>1, <2>6 DEF known, k
<1> QED BY <1>5, <1>6

\* Of the first m removed numbers the first k are below p.
Parts(gone, m, p, k) == (k # 0 => gone[k] < p) /\ (k # m => p < gone[k + 1])

\* What EXPUNGE leaves are the messages it did not remove, and all of these.
LEMMA Survivors ==
    ASSUME NEW box \in Seq(Rows), NEW gone \in Seq(Nat), Ascending(gone),
           \A k \in 1 .. Len(gone) : gone[k] \in 1 .. Len(box)
    PROVE  LET w == Without(box, gone) IN
           /\ \A i \in 1 .. Len(w) : \E p \in 1 .. Len(box) :
                 w[i] = box[p] /\ \A k \in 1 .. Len(gone) : gone[k] # p
           /\ \A p \in 1 .. Len(box) : (\A k \in 1 .. Len(gone) : gone[k] # p) =>
                 \E i \in 1 .. Len(w) : w[i] = box[p]
<1> DEFINE w == Without(box, gone)
           L == Len(gone)
           n == Len(box)
<1>1. w \in Seq(Rows) /\ IsRest(w, box, gone, 0, L)
  BY WithoutIsRest
<1> HIDE DEF w
<1>2. Steady(gone) /\ L \in Nat /\ n \in Nat /\ \A k \in 1 .. L : gone[k] \in Nat /\ gone[k] \in 1 .. n
  BY AscendingIsSteady
<1>3. \A j, k \in 1 .. L : j <= k => gone[j] - j <= gone[k] - k
  BY <1>2 DEF Steady
<1>4. Len(w) = n - L /\ Len(w) \in Nat
  BY <1>1 DEF IsRest
<1>5. \A i \in 1 .. n - L, k \in 0 .. L :
          Fits(gone, 0, L, i, k) => i + k \in 1 .. n /\ w[i] = box[i + k]
  BY <1>1 DEF IsRest
<1>6. \A k \in 1 .. L : gone[k] >= k
  <2>1. gone \in Seq(Nat \ {0})
    <3>1. \A k \in 1 .. Len(gone) : gone[k] \in Nat \ {0}
      BY <1>2
    <3> QED BY <3>1, MembersMakeSeq
  <2> QED BY <2>1, AscendingReaches
<1>7. ASSUME NEW i \in 1 .. Len(w)
      PROVE  \E p \in 1 .. n : w[i] = box[p] /\ \A k \in 1 .. L : gone[k] # p
  <2>1. i \in Nat
    BY <1>4
  <2>2. PICK k \in 0 .. L : Fits(gone, 0, L, i, k)
    BY <2>1, FitExists
  <2>3. i + k \in 1 .. n /\ w[i] = box[i + k]
    BY <1>4, <1>5, <2>2
  <2>4. ASSUME NEW j \in 1 .. L PROVE gone[j] # i + k
    <3> DEFINE x == gone[j]
    <3>1. x \in Nat /\ j \in Nat /\ k \in Nat
      BY <1>2
    <3>2. CASE j <= k
      <4> DEFINE y == gone[k]
      <4>1. k \in 1 .. L /\ k # 0 /\ 0 + k = k
        BY <1>2, <3>2
      <4>2. y - k < i /\ x - j <= y - k /\ y \in Nat
        BY <1>2, <1>3, <2>2, <3>2, <4>1 DEF Fits
      <4> HIDE DEF x, y
      <4>3. x # i + k
        BY <2>1, <3>1, <3>2, <4>2
      <4> QED BY <4>3 DEF x
    <3>3. CASE ~(j <= k)
      <4> DEFINE y == gone[k + 1]
      <4>1. k + 1 \in 1 .. L /\ k # L /\ 0 + (k + 1) = k + 1 /\ k + 1 <= j
        BY <1>2, <3>3
      <4>2. i <= y - (k + 1) /\ y - (k + 1) <= x - j /\ y \in Nat
        BY <1>2, <1>3, <2>2, <4>1 DEF Fits
      <4> HIDE DEF x, y
      <4>3. x # i + k
        BY <2>1, <3>1, <4>1, <4>2
      <4> QED BY <4>3 DEF x
    <3> QED BY <3>2, <3>3
  <2> QED BY <2>3, <2>4
<1>8. ASSUME NEW p \in 1 .. n, \A k \in 1 .. L : gone[k] # p
      PROVE  \E i \in 1 .. Len(w) : w[i] = box[p]
  <2> DEFINE N == {m \in 0 .. L : \E k \in 0 .. m : Parts(gone, m, p, k)}
  <2>1. p \in Nat
    BY <1>2
  <2>2. 0 \in N
    BY <1>2 DEF Parts
  <2>3. ASSUME NEW m \in 0 .. L - 1, m \in N PROVE m + 1 \in N
    <3>1. m \in Nat /\ m + 1 \in 1 .. L /\ m + 1 \in 0 .. L
      BY <1>2
    <3>2. gone[m + 1] \in Nat /\ gone[m + 1] # p
      BY <1>2, <1>8, <3>1
    <3>3. CASE gone[m + 1] < p
      <4>1. m + 1 \in 0 .. m + 1
        BY <3>1
      <4>2. Parts(gone, m + 1, p, m + 1)
        BY <3>3 DEF Parts
      <4> QED BY <3>1, <4>1, <4>2
    <3>4. CASE ~(gone[m + 1] < p)
      <4> DEFINE x == gone[m + 1]
      <4>1. p < gone[m + 1]
        <5>1. x \in Nat /\ x # p /\ ~(x < p)
          BY <3>2, <3>4
        <5> HIDE DEF x
        <5>2. p < x
          BY <2>1, <5>1
        <5> QED BY <5>2 DEF x
      <4>2. PICK k \in 0 .. m : Parts(gone, m, p, k)
        BY <2>3
      <4>3. k \in 0 .. m + 1
        BY <3>1
      <4>4. Parts(gone, m + 1, p, k)
        BY <4>1, <4>2 DEF Parts
      <4> QED BY <3>1, <4>3, <4>4
    <3> QED BY <3>3, <3>4
  <2>4. 0 .. L \subseteq N
    <3> HIDE DEF N, L
    <3> QED BY <1>2, <2>2, <2>3, BoundedInduction
  <2>5. L \in N
    <3> HIDE DEF N, L
    <3> QED BY <1>2, <2>4
  <2>6. PICK k \in 0 .. L : Parts(gone, L, p, k)
    BY <2>5
  <2>7. (k # 0 => gone[k] < p) /\ (k # L => p < gone[k + 1])
    BY <2>6 DEF Parts
  <2>8. k \in Nat /\ 0 + k = k /\ 0 + (k + 1) = k + 1
    BY <1>2
  <2>9. Fits(gone, 0, L, p - k, k)
    <3>1. ASSUME k # 0 PROVE gone[0 + k] - k < p - k
      <4> DEFINE x == gone[k]
      <4>1. x \in Nat /\ x < p
        <5>1. k \in 1 .. L
          BY <1>2, <2>8, <3>1
        <5> QED BY <1>2, <2>7, <3>1, <5>1
      <4> HIDE DEF x
      <4>2. x - k < p - k
        BY <2>1, <2>8, <4>1
      <4> QED BY <2>8, <4>2 DEF x
    <3>2. ASSUME k # L PROVE p - k <= gone[0 + (k + 1)] - (k + 1)
      <4> DEFINE x == gone[k + 1]
      <4>1. x \in Nat /\ p < x
        <5>1. k + 1 \in 1 .. L
          BY <1>2, <2>8, <3>2
        <5> QED BY <1>2, <2>7, <3>2, <5>1
      <4> HIDE DEF x
      <4>2. p - k <= x - (k + 1)
        BY <2>1, <2>8, <4>1
      <4> QED BY <2>8, <4>2 DEF x
    <3> QED BY <3>1, <3>2 DEF Fits
  <2>10. p - k \in 1 .. n - L
    <3>1. p - k >= 1
      <4>1. CASE k = 0
        BY <1>2, <2>1, <4>1
      <4>2. CASE k # 0
        <5> DEFINE x == gone[k]
        <5>1. k \in 1 .. L
          BY <1>2, <2>8, <4>2
        <5>2. x \in Nat /\ x >= k /\ x < p
          BY <1>2, <1>6, <2>7, <4>2, <5>1
        <5> HIDE DEF x
        <5> QED BY <2>1, <2>8, <5>2
      <4> QED BY <4>1, <4>2
    <3>2. p - k <= n - L
      <4>1. CASE k = L
        BY <1>2, <2>1, <4>1
      <4>2. CASE k # L
        <5> DEFINE x == gone[k + 1]
                   y == gone[L]
        <5>1. k + 1 \in 1 .. L /\ L \in 1 .. L /\ k + 1 <= L
          BY <1>2, <2>8, <4>2
        <5>2. x \in Nat /\ y \in Nat /\ p < x /\ x - (k + 1) <= y - L /\ y <= n
          BY <1>2, <1>3, <2>7, <4>2, <5>1
        <5> HIDE DEF x, y
        <5> QED BY <1>2, <2>1, <2>8, <5>2
      <4> QED BY <4>1, <4>2
    <3> QED BY <1>2, <2>1, <2>8, <3>1, <3>2
  <2>11. (p - k) + k = p
    BY <2>1, <2>8
  <2>12. w[p - k] = box[p]
    BY <1>5, <2>9, <2>10, <2>11
  <2> QED BY <1>4, <2>10, <2>12
<1> QED BY <1>7, <1>8 DEF w

LEMMA ListedMessages ==
    ASSUME NEW list \in Seq(ListedRows), NEW ids, ids = [i \in DOMAIN list |-> list[i].msg]
    PROVE  /\ Msgs(list) \subseteq Messages
           /\ \A m : (\E i \in 1 .. Len(ids) : ids[i] = m) <=> m \in Msgs(list)
<1>1. DOMAIN list = 1 .. Len(list) /\ Len(list) \in Nat
  OBVIOUS
<1>2. \A i \in 1 .. Len(list) : list[i] \in ListedRows
  OBVIOUS
<1>3. Len(ids) = Len(list) /\ \A i \in 1 .. Len(list) : ids[i] = list[i].msg
  BY <1>1
<1> QED BY <1>2, <1>3 DEF Msgs, ListedRows

\* Counting, as the registry does.
LEMMA SameCardinality == R!Cardinality(Messages) = Cardinality(Messages)
  BY DEF R!Cardinality, Cardinality

\* What the UIDs of a listing are when nothing fails.
LEMMA ReplyFacts ==
    ASSUME IInv, R!IInv, NumberedInv, faults = 0, ~Fault, Cardinality(Messages) < MaxUid,
           NEW s \in Sessions, Reply(s)
    PROVE  LET list == session[s].list
               box == Numbered(list, cache'.uid)
           IN
           /\ R!Counted(cache') /\ (R!IsCoherent(disk') => R!Counted(disk'))
           /\ \A m \in Messages : cache'.uid[m] # 0 \/ disk'.uid[m] # 0 =>
                 cache.uid[m] # 0 \/ disk.uid[m] # 0 \/ m \in Msgs(list)
           /\ \A m, n \in Messages :
                 cache.uid[n] # 0 /\ cache.uid[m] = 0 /\ cache'.uid[m] # 0 => cache.uid[n] < cache'.uid[m]
           /\ \A m \in Messages : cache.uid[m] # 0 => cache'.uid[m] = cache.uid[m]
           /\ \A m \in Messages : cache'.uid[m] # MaxUid
           /\ box \in Seq(Rows) /\ Sorted(box) /\ Attached(box, cache'.uid) /\ Msgs(box) = Msgs(list)
<1> DEFINE list == session[s].list
           ids == [i \in DOMAIN list |-> list[i].msg]
           box == Numbered(list, cache'.uid)
<1>1. list \in Seq(ListedRows) /\ Distinct(list) /\ Len(list) <= Window
  BY DEF IInv, SessionsInv, SessionInv, SessionType, ListInv
<1>2. ids \in Catalogues /\ ResolveListed(ids)
  BY <1>1, ListedIds DEF Reply
<1>3. \A m : (\E i \in 1 .. Len(ids) : ids[i] = m) <=> m \in Msgs(list)
  <2>1. list \in Seq(ListedRows) /\ ids = [i \in DOMAIN list |-> list[i].msg]
    BY <1>1
  <2> HIDE DEF ids, list
  <2> QED BY <2>1, ListedMessages
<1>4. Len(ids) = Len(list) /\ \A i \in 1 .. Len(list) : ids[i] = list[i].msg
  BY <1>1
<1> HIDE DEF ids, list
<1>5. R!Resolve(ids)
  <2>1. ~R!Fault
    BY DEF R!Fault, Fault, Registry!Fault
  <2> QED BY <1>2, <2>1, ResolvedIsStep DEF R!ResolveUnsaved, R!ResolveTorn, R!ResolveUnread
<1>6. R!Cardinality(Messages) < MaxUid
  BY SameCardinality
<1>7. R!Counted(cache) /\ (R!IsCoherent(disk) => R!Counted(disk))
  BY DEF NumberedInv
<1>8. /\ R!Counted(cache') /\ (R!IsCoherent(disk') => R!Counted(disk'))
      /\ \A m \in Messages : cache'.uid[m] # 0 \/ disk'.uid[m] # 0 =>
            cache.uid[m] # 0 \/ disk.uid[m] # 0 \/ \E i \in 1 .. Len(ids) : ids[i] = m
      /\ \A m, n \in Messages :
            cache.uid[n] # 0 /\ cache.uid[m] = 0 /\ cache'.uid[m] # 0 => cache.uid[n] < cache'.uid[m]
  BY <1>2, <1>5, <1>6, <1>7, R!ResolveCounts, RegistryAssumptions
<1>9. /\ \A m \in Messages : cache'.uid[m] \in 0 .. MaxUid
      /\ \A m \in Messages : cache.uid[m] # 0 => cache'.uid[m] = cache.uid[m]
      /\ \A i \in 1 .. Len(ids) : ids[i] \in Messages /\ cache'.uid[ids[i]] # 0
      /\ \A m, n \in Messages :
            cache'.uid[m] = cache'.uid[n] /\ cache'.uid[m] # 0 /\ cache'.uid[m] # MaxUid => m = n
  BY <1>2, ResolvedFacts
<1>10. \A i \in 1 .. Len(list) : cache'.uid[list[i].msg] # 0
  BY <1>4, <1>9
<1>11. /\ box \in Seq(Rows) /\ Sorted(box) /\ Attached(box, cache'.uid) /\ Msgs(box) = Msgs(list)
  BY <1>1, <1>9, <1>10, NumberedFacts
<1>12. ASSUME NEW m \in Messages PROVE cache'.uid[m] # MaxUid
  <2> DEFINE x == cache'.uid[m]
  <2>1. cache'.next \in 1 .. MaxUid
    <3>1. R!IInv'
      BY RegistryKept DEF Next, SessionStep
    <3> QED BY <3>1 DEF R!IInv, R!TypeOK, R!States
  <2>2. x < cache'.next /\ x \in 0 .. MaxUid
    BY <1>8, <1>9 DEF R!Counted
  <2> HIDE DEF x
  <2>3. x # MaxUid
    BY <2>1, <2>2, NumbersAssumption
  <2> QED BY <2>3 DEF x
<1> HIDE DEF box
<1> QED BY <1>3, <1>8, <1>9, <1>11, <1>12 DEF box, list

\* No message is forgotten: it is in the catalogue or purged, for ever.
LEMMA NoneForgotten ==
    ASSUME IInv, [Next]_vars
    PROVE  Catalogued \cup purged \subseteq Catalogued' \cup purged'
<1>1. ASSUME UNCHANGED <<catalogue, purged>> PROVE Catalogued' = Catalogued /\ purged' = purged
  BY <1>1 DEF Catalogued
<1>2. ASSUME NEW m \in Messages, Arrive(m) PROVE Catalogued \cup purged \subseteq Catalogued' \cup purged'
  BY <1>2, ArriveCatalogued DEF IInv
<1>3. ASSUME NEW m, Delete(m) PROVE Catalogued \cup purged \subseteq Catalogued' \cup purged'
  BY <1>3, DeleteCatalogued DEF IInv
<1>4. ASSUME NEW s \in Sessions, SessionStep(s)
      PROVE  UNCHANGED <<catalogue, purged>> \/ \E m : Delete(m)
  <2>1. CASE ExpungeOne(s)
    <3>1. UNCHANGED mailVars \/ Delete(session[s].box[Head(session[s].todo)].msg)
      BY <2>1 DEF ExpungeOne
    <3> QED BY <3>1 DEF mailVars
  <2>2. CASE \E i \in DOMAIN session[s].box, mode \in StoreModes, fs \in SUBSET Flags \ {{}} :
                 Store(s, i, mode, fs) \/ StoreUnanswered(s, i, mode, fs)
    <3>1. PICK m, mode, fs : StoreOnServer(m, mode, fs)
      BY <2>2 DEF Store, StoreUnanswered
    <3> QED BY <3>1 DEF StoreOnServer, Apply
  <2>3. CASE \/ Login(s) \/ Logout(s) \/ Reply(s)
             \/ \E cmd \in {"SELECT", "NOOP", "STATUS"} : List(s, cmd)
    BY <2>3 DEF Login, Logout, List, Reply, mailVars
  <2>4. CASE BeginExpunge(s) \/ ExpungeOneFails(s) \/ EndExpunge(s)
    BY <2>4 DEF BeginExpunge, ExpungeOneFails, EndExpunge, mailVars
  <2> QED BY <1>4, <2>1, <2>2, <2>3, <2>4 DEF SessionStep
<1> QED BY <1>1, <1>2, <1>3, <1>4 DEF Next, RestartBridge, RegistryStep, vars, mailVars

\* What a session has listed stays in the catalogue, or is purged.
LEMMA ListedStay ==
    ASSUME IInv, [Next]_vars, \A s \in Sessions : Msgs(session[s].list) \subseteq Catalogued \cup purged
    PROVE  \A s \in Sessions : Msgs(session'[s].list) \subseteq Catalogued \cup purged
<1> DEFINE C == Catalogued \cup purged
<1>1. session \in [Sessions -> SessionType] /\ \A s \in Sessions : session[s] \in SessionType
  BY DEF IInv, SessionsInv
<1>2. Msgs(<<>>) = {} /\ Msgs(Listing) \subseteq C
  BY ListingFacts DEF IInv, Msgs
<1> HIDE DEF C
<1>3. ASSUME NEW s \in Sessions, NEW x, session' = [session EXCEPT ![s] = x], Msgs(x.list) \subseteq C
      PROVE  \A t \in Sessions : Msgs(session'[t].list) \subseteq C
  BY <1>1, <1>3 DEF C
<1>4. ASSUME NEW s \in Sessions, SessionStep(s)
      PROVE  \A t \in Sessions : Msgs(session'[t].list) \subseteq C
  <2> DEFINE ses == session[s]
  <2>1. ses \in SessionType /\ Msgs(ses.list) \subseteq C
    BY <1>1 DEF C
  <2>2. Done(ses).list = <<>>
    BY <2>1 DEF Done, SessionType
  <2>3. CASE Login(s)
    <3>1. session' = [session EXCEPT ![s] = [ses EXCEPT !.at = "idle"]]
      BY <1>1, <2>3 DEF Login
    <3>2. [ses EXCEPT !.at = "idle"].list = ses.list
      BY <2>1 DEF SessionType
    <3> QED BY <1>3, <2>1, <3>1, <3>2
  <2>4. CASE Logout(s)
    BY <1>2, <1>3, <2>4 DEF Logout, LoggedOut
  <2>5. ASSUME NEW cmd, List(s, cmd) PROVE \A t \in Sessions : Msgs(session'[t].list) \subseteq C
    <3> DEFINE x == [ses EXCEPT !.at = "listed", !.cmd = cmd, !.list = Listing]
    <3>1. session' = [session EXCEPT ![s] = x]
      BY <1>1, <2>5 DEF List
    <3>2. x.list = Listing
      BY <2>1 DEF SessionType
    <3> HIDE DEF x
    <3> QED BY <1>2, <1>3, <3>1, <3>2
  <2>6. CASE Reply(s)
    <3> DEFINE box == Numbered(ses.list, cache'.uid)
    <3>1. ses.cmd \in {"SELECT", "NOOP", "STATUS"} /\ ses.at = "listed"
      BY <2>6 DEF Reply, IInv, SessionsInv, SessionInv, SessionType, ListInv
    <3>2. \E x : session' = [session EXCEPT ![s] = x] /\ x.list = <<>>
      <4>1. CASE ses.cmd = "SELECT"
        <5> DEFINE x == [Done(ses) EXCEPT !.selected = TRUE, !.box = box]
        <5>1. session' = [session EXCEPT ![s] = x]
          BY <2>6, <4>1 DEF Reply
        <5>2. x.list = <<>>
          BY <2>1 DEF Done, SessionType
        <5> QED BY <5>1, <5>2
      <4>2. CASE ses.cmd = "NOOP"
        <5> DEFINE x == [Done(ses) EXCEPT !.box = box]
        <5>1. session' = [session EXCEPT ![s] = x]
          BY <2>6, <4>2 DEF Reply
        <5>2. x.list = <<>>
          BY <2>1 DEF Done, SessionType
        <5> QED BY <5>1, <5>2
      <4>3. CASE ses.cmd = "STATUS"
        BY <2>2, <2>6, <4>3 DEF Reply
      <4> QED BY <3>1, <4>1, <4>2, <4>3
    <3> QED BY <1>2, <1>3, <3>2
  <2>7. ASSUME NEW i \in DOMAIN ses.box, NEW mode, NEW fs, Store(s, i, mode, fs)
        PROVE  \A t \in Sessions : Msgs(session'[t].list) \subseteq C
    <3> DEFINE x == [ses EXCEPT !.box[i].flags = Stored(mode, fs, ses.box[i].flags)]
    <3>1. session' = [session EXCEPT ![s] = x]
      BY <1>1, <2>7 DEF Store
    <3>2. x.list = ses.list
      BY <2>1 DEF SessionType
    <3> HIDE DEF x
    <3> QED BY <1>3, <2>1, <3>1, <3>2
  <2>8. ASSUME NEW i, NEW mode, NEW fs, StoreUnanswered(s, i, mode, fs)
        PROVE  \A t \in Sessions : Msgs(session'[t].list) \subseteq C
    BY <2>8 DEF StoreUnanswered, C
  <2>9. CASE BeginExpunge(s)
    <3> DEFINE x == [ses EXCEPT !.at = "expunge", !.todo = ToExpunge(ses.box)]
    <3>1. session' = [session EXCEPT ![s] = x]
      BY <1>1, <2>9 DEF BeginExpunge
    <3>2. x.list = ses.list
      BY <2>1 DEF SessionType
    <3> HIDE DEF x
    <3> QED BY <1>3, <2>1, <3>1, <3>2
  <2>10. CASE ExpungeOne(s) \/ ExpungeOneFails(s)
    <3>1. Accepted(ses).list = ses.list /\ Refused(ses).list = ses.list
      BY <2>1 DEF Accepted, Refused, SessionType
    <3>2. session' = [session EXCEPT ![s] = Accepted(ses)] \/ session' = [session EXCEPT ![s] = Refused(ses)]
      BY <2>10 DEF ExpungeOne, ExpungeOneFails
    <3> QED BY <1>3, <2>1, <3>1, <3>2
  <2>11. CASE EndExpunge(s)
    <3> DEFINE x == [Done(ses) EXCEPT !.box = Without(Done(ses).box, ses.gone)]
    <3>1. session' = [session EXCEPT ![s] = x]
      BY <1>1, <2>11 DEF EndExpunge
    <3>2. x.list = <<>>
      BY <2>1 DEF Done, SessionType
    <3> HIDE DEF x
    <3> QED BY <1>2, <1>3, <3>1, <3>2
  <2> QED BY <1>4, <2>3, <2>4, <2>5, <2>6, <2>7, <2>8, <2>9, <2>10, <2>11 DEF SessionStep
<1>5. CASE UNCHANGED session
  BY <1>5 DEF C
<1>6. CASE RestartBridge
  BY <1>2, <1>6 DEF RestartBridge, LoggedOut
<1> QED BY <1>4, <1>5, <1>6 DEF Next, Arrive, RegistryStep, vars, C

LEMMA NumberedStep ==
    ASSUME IInv, R!IInv, NumberedInv, [Next]_vars, Cardinality(Messages) < MaxUid
    PROVE  NumberedInv'
<1> SUFFICES ASSUME faults' = 0 PROVE NumberedInv'
  BY DEF NumberedInv
<1>1. faults = 0 /\ ~Fault
  BY FaultlessBefore
<1>2. /\ R!Counted(cache) /\ (R!IsCoherent(disk) => R!Counted(disk))
      /\ \A m \in Messages : cache.uid[m] # 0 \/ disk.uid[m] # 0 => m \in Catalogued \cup purged
      /\ \A s \in Sessions : Msgs(session[s].list) \subseteq Catalogued \cup purged
  BY <1>1 DEF NumberedInv
<1>3. Catalogued \cup purged \subseteq Catalogued' \cup purged'
  BY NoneForgotten
<1>4. \A s \in Sessions : Msgs(session'[s].list) \subseteq Catalogued' \cup purged'
  BY <1>2, <1>3, ListedStay
<1>5. /\ R!Counted(cache') /\ (R!IsCoherent(disk') => R!Counted(disk'))
      /\ \A m \in Messages : cache'.uid[m] # 0 \/ disk'.uid[m] # 0 => m \in Catalogued \cup purged
  <2>1. CASE UNCHANGED <<cache, disk>>
    BY <1>2, <2>1
  <2>2. ASSUME NEW s \in Sessions, Reply(s)
        PROVE  /\ R!Counted(cache') /\ (R!IsCoherent(disk') => R!Counted(disk'))
               /\ \A m \in Messages : cache'.uid[m] # 0 \/ disk'.uid[m] # 0 => m \in Catalogued \cup purged
    <3>1. /\ R!Counted(cache') /\ (R!IsCoherent(disk') => R!Counted(disk'))
          /\ \A m \in Messages : cache'.uid[m] # 0 \/ disk'.uid[m] # 0 =>
                cache.uid[m] # 0 \/ disk.uid[m] # 0 \/ m \in Msgs(session[s].list)
      BY <1>1, <2>2, ReplyFacts
    <3> QED BY <1>2, <3>1
  <2>3. CASE RestartBridge
    <3>1. ~\E ids : Registry!CrashInPersist(ids)
      BY <1>1 DEF Registry!CrashInPersist, Fault, Registry!Fault
    <3>2. cache' = R!NoState /\ disk' = disk
      BY <2>3, <3>1 DEF RestartBridge, Registry!Restart, Registry!NoState, R!NoState
    <3>3. R!NoState.next = 1 /\ \A m \in Messages : R!NoState.uid[m] = 0
      BY DEF R!NoState
    <3>4. R!Counted(R!NoState)
      BY <3>3, R!EmptyCounts, RegistryAssumptions
    <3> QED BY <1>2, <3>2, <3>3, <3>4
  <2>4. CASE RegistryStep
    BY <1>1, <2>1, <2>4 DEF RegistryStep, Registry!FileDamaged, Registry!Tick, Fault, Registry!Fault
  <2>5. ASSUME NEW m, Arrive(m) PROVE UNCHANGED <<cache, disk>>
    BY <2>5 DEF Arrive, registryVars
  <2>6. ASSUME NEW s \in Sessions, SessionStep(s), ~Reply(s) PROVE UNCHANGED <<cache, disk>>
    BY <2>6 DEF SessionStep, Login, Logout, List, Store, StoreUnanswered, BeginExpunge, ExpungeOne,
                ExpungeOneFails, EndExpunge, registryVars
  <2> QED BY <2>1, <2>2, <2>3, <2>4, <2>5, <2>6 DEF Next, vars, registryVars
<1> QED BY <1>3, <1>4, <1>5 DEF NumberedInv, R!IsCoherent, R!Counted

LEMMA OutAgrees ==
    ASSUME NEW cat, NEW prg, NEW u, NEW d
    PROVE  Agrees(LoggedOut, <<>>, cat, prg, u, d)
<1> DEFINE x == LoggedOut
<1>1. x.box = <<>> /\ x.gone = <<>> /\ ~x.refused /\ x.at = "out"
  BY DEF LoggedOut
<1>2. Known(<<>>) = <<>>
  <2>1. <<>> \in Seq(Rows) /\ <<>> \in Seq(Slots) /\ Len(<<>>) = 0
    OBVIOUS
  <2>2. Known(<<>>) \in Seq(Slots) /\ Len(Known(<<>>)) = 0
    BY <2>1, KnownFacts
  <2> QED BY <2>1, <2>2, SameSequence
<1> HIDE DEF x
<1>3. Follows(x.box, x.gone, cat, prg, u)
  BY <1>1 DEF Follows
<1> QED BY <1>1, <1>2, <1>3 DEF Agrees, x

\* A step that changes no message of the box.
LEMMA SameBoxAgrees ==
    ASSUME NEW ses, NEW known, NEW cat, NEW prg, NEW u, NEW d, Agrees(ses, known, cat, prg, u, d),
           NEW x, Known(x.box) = Known(ses.box), Len(x.box) = Len(ses.box),
           \A i \in 1 .. Len(ses.box) : x.box[i].msg = ses.box[i].msg /\ x.box[i].uid = ses.box[i].uid,
           \A k \in 1 .. Len(ses.gone) : ses.gone[k] \in 1 .. Len(ses.box),
           x.gone = ses.gone, ~x.refused, x.at = "listed" => ListFollows(x, cat, u, d)
    PROVE  Agrees(x, known, cat, prg, u, d)
<1>1. Msgs(x.box) = Msgs(ses.box)
  BY DEF Msgs
<1>2. Follows(x.box, x.gone, cat, prg, u)
  BY <1>1 DEF Agrees, Follows
<1> QED BY <1>2 DEF Agrees

\* A box that was just loaded.
LEMMA LoadedAgrees ==
    ASSUME NEW box, NEW cat, NEW prg, NEW u, NEW d, Msgs(box) \subseteq cat,
           \A m \in cat \ Msgs(box) : u[m] = 0,
           NEW x, x.box = box, x.gone = <<>>, ~x.refused, x.at = "idle"
    PROVE  Agrees(x, Known(box), cat, prg, u, d)
  BY DEF Agrees, Follows, Msgs

\* A message arrives.
LEMMA ArrivalAgrees ==
    ASSUME NEW ses, NEW known, NEW cat, NEW prg, NEW u, NEW d, Agrees(ses, known, cat, prg, u, d),
           NEW m, m \notin prg, u[m] = 0, d[m] = 0
    PROVE  Agrees(ses, known, cat \cup {m}, prg, u, d)
<1>1. Follows(ses.box, ses.gone, cat, prg, u)
  BY DEF Agrees
<1>2. Follows(ses.box, ses.gone, cat \cup {m}, prg, u)
  BY <1>1 DEF Follows
<1>3. ses.at = "listed" => ListFollows(ses, cat \cup {m}, u, d)
  BY DEF Agrees, ListFollows
<1> QED BY <1>2, <1>3 DEF Agrees

\* EXPUNGE removes a message from the server.
LEMMA RemovalAgrees ==
    ASSUME NEW ses \in SessionType, NEW known, NEW cat, NEW prg, NEW u, NEW d, Agrees(ses, known, cat, prg, u, d),
           Distinct(ses.box), TodoInv(ses), ses.todo # <<>>,
           NEW m, m = ses.box[Head(ses.todo)].msg
    PROVE  Agrees(Accepted(ses), known, cat \ {m}, prg \cup {m}, u, d)
<1> DEFINE h == Head(ses.todo)
           x == Accepted(ses)
           g == Append(ses.gone, h)
<1>1. ses.at = "expunge" /\ h \in 1 .. Len(ses.box) /\ \A k \in 1 .. Len(ses.gone) : ses.gone[k] < h
  BY NextFacts
<1>2. /\ ses.box \in Seq(Rows) /\ ses.gone \in Seq(Nat) /\ h \in Nat
      /\ \A k \in 1 .. Len(ses.gone) : ses.gone[k] \in 1 .. Len(ses.box)
  BY <1>1 DEF SessionType, TodoInv
<1>3. x.box = ses.box /\ x.gone = g /\ x.refused = ses.refused /\ x.at = ses.at
  BY DEF Accepted, SessionType
<1>4. /\ Len(g) = Len(ses.gone) + 1 /\ Len(ses.gone) \in Nat /\ g[Len(ses.gone) + 1] = h
      /\ \A j \in 1 .. Len(ses.gone) : g[j] = ses.gone[j]
  BY <1>2, AppendFacts
<1> HIDE DEF x, h, g
<1>5. Follows(ses.box, ses.gone, cat, prg, u)
  BY DEF Agrees
<1>6. m = ses.box[h].msg
  BY DEF h
<1>7. ASSUME NEW i \in 1 .. Len(ses.box)
      PROVE  ses.box[i].msg \in cat \ {m} \/ \E k \in 1 .. Len(g) : g[k] = i
  <2>1. CASE ses.box[i].msg = m
    <3>1. i = h
      BY <1>1, <1>6, <2>1 DEF Distinct
    <3>2. Len(ses.gone) + 1 \in 1 .. Len(g)
      BY <1>4
    <3> QED BY <1>4, <3>1, <3>2
  <2>2. CASE ses.box[i].msg # m
    <3>1. ses.box[i].msg \in cat \/ \E k \in 1 .. Len(ses.gone) : ses.gone[k] = i
      BY <1>5 DEF Follows
    <3>2. \A k \in 1 .. Len(ses.gone) : k \in 1 .. Len(g)
      BY <1>4
    <3> QED BY <1>4, <2>2, <3>1, <3>2
  <2> QED BY <2>1, <2>2
<1>8. ASSUME NEW k \in 1 .. Len(g) PROVE ses.box[g[k]].msg \in (prg \cup {m}) \ (cat \ {m})
  <2>1. CASE k \in 1 .. Len(ses.gone)
    BY <1>4, <1>5, <2>1 DEF Follows
  <2>2. CASE k \notin 1 .. Len(ses.gone)
    <3>1. k = Len(ses.gone) + 1
      BY <1>4, <2>2
    <3> QED BY <1>4, <1>6, <3>1
  <2> QED BY <2>1, <2>2
<1>9. Follows(ses.box, g, cat \ {m}, prg \cup {m}, u)
  BY <1>5, <1>7, <1>8 DEF Follows
<1>10. x.at # "listed"
  BY <1>1, <1>3
<1> QED BY <1>3, <1>9, <1>10 DEF Agrees, x

\* The box without the messages EXPUNGE removed.
LEMMA EndAgrees ==
    ASSUME NEW ses \in SessionType, NEW known, NEW cat, NEW prg, NEW u, NEW d, Agrees(ses, known, cat, prg, u, d),
           TodoInv(ses), LinesInv(ses), NEW x, x.box = Without(ses.box, ses.gone), x.gone = <<>>,
           ~x.refused, x.at = "idle"
    PROVE  Agrees(x, AfterExpunges(known, ses.lines), cat, prg, u, d)
<1> DEFINE w == Without(ses.box, ses.gone)
<1>1. /\ ses.box \in Seq(Rows) /\ ses.gone \in Seq(Nat) /\ ses.lines \in Seq(Nat \ {0})
      /\ Ascending(ses.gone) /\ Announced(ses.gone, ses.lines)
      /\ \A k \in 1 .. Len(ses.gone) : ses.gone[k] \in 1 .. Len(ses.box)
  BY DEF SessionType, TodoInv, LinesInv, Agrees
<1>2. Known(w) = AfterExpunges(known, ses.lines)
  BY <1>1, ExpungesAgree DEF Agrees
<1>3. /\ \A i \in 1 .. Len(w) : \E p \in 1 .. Len(ses.box) :
             w[i] = ses.box[p] /\ \A k \in 1 .. Len(ses.gone) : ses.gone[k] # p
      /\ \A p \in 1 .. Len(ses.box) : (\A k \in 1 .. Len(ses.gone) : ses.gone[k] # p) =>
             \E i \in 1 .. Len(w) : w[i] = ses.box[p]
  BY <1>1, Survivors
<1> HIDE DEF w
<1>4. Follows(ses.box, ses.gone, cat, prg, u)
  BY DEF Agrees
<1>5. \A i \in 1 .. Len(w) : w[i].msg \in cat
  BY <1>3, <1>4 DEF Follows
<1>6. ASSUME NEW m \in cat \ Msgs(w), NEW i \in 1 .. Len(w), u[m] # 0 PROVE w[i].uid < u[m]
  <2>1. m \notin Msgs(ses.box)
    <3> SUFFICES ASSUME NEW p \in 1 .. Len(ses.box), m = ses.box[p].msg PROVE FALSE
      BY DEF Msgs
    <3>1. \A k \in 1 .. Len(ses.gone) : ses.gone[k] # p
      BY <1>4 DEF Follows
    <3>2. PICK j \in 1 .. Len(w) : w[j] = ses.box[p]
      BY <1>3, <3>1
    <3> QED BY <3>2 DEF Msgs
  <2>2. PICK p \in 1 .. Len(ses.box) : w[i] = ses.box[p]
    BY <1>3
  <2> QED BY <1>4, <1>6, <2>1, <2>2 DEF Follows
<1>7. Follows(w, <<>>, cat, prg, u)
  BY <1>5, <1>6 DEF Follows
<1> QED BY <1>2, <1>7 DEF Agrees, w

\* UIDs u become v: new ones are above all those there were, and none is the last.
Grows(u, v) ==
    /\ \A m \in Messages : u[m] # 0 => v[m] = u[m]
    /\ \A m, n \in Messages : u[n] # 0 /\ u[m] = 0 /\ v[m] # 0 => u[n] < v[m]
    /\ \A m \in Messages : v[m] # MaxUid

LEMMA RowFacts ==
    ASSUME NEW box \in Seq(Rows), NEW u, Attached(box, u), NEW i \in 1 .. Len(box)
    PROVE  box[i].msg \in Messages /\ box[i].uid = u[box[i].msg] /\ box[i].uid # 0
<1>1. box[i] \in Rows
  OBVIOUS
<1> QED BY <1>1 DEF Rows, Attached

\* STATUS gives UIDs to messages the box lacks.
LEMMA StatusFollows ==
    ASSUME NEW box \in Seq(Rows), NEW gone, NEW cat \in SUBSET Messages, NEW prg, NEW u, NEW v,
           Attached(box, u), Grows(u, v), Follows(box, gone, cat, prg, u)
    PROVE  Follows(box, gone, cat, prg, v)
<1>1. ASSUME NEW m \in cat \ Msgs(box), NEW i \in 1 .. Len(box), v[m] # 0 PROVE box[i].uid < v[m]
  <2>1. box[i].msg \in Messages /\ box[i].uid = u[box[i].msg] /\ u[box[i].msg] # 0 /\ m \in Messages
    BY RowFacts
  <2>2. CASE u[m] # 0
    BY <2>1, <2>2 DEF Follows, Grows
  <2>3. CASE u[m] = 0
    BY <1>1, <2>1, <2>3 DEF Grows
  <2> QED BY <2>2, <2>3
<1> QED BY <1>1 DEF Follows

\* NOOP: the new box starts with the old one, so the client is brought up to it.
LEMMA NoopLearns ==
    ASSUME NEW old \in Seq(Rows), NEW box \in Seq(Rows), NEW gone, NEW cat \in SUBSET Messages, NEW prg,
           NEW u, NEW v, Attached(old, u), Sorted(old), Attached(box, v), Sorted(box), Grows(u, v),
           Follows(old, gone, cat, prg, u), Msgs(old) \subseteq Msgs(box), Msgs(box) \subseteq cat
    PROVE  LearnFromNoop(Known(old), old, box) = Known(box)
<1>1. \A i \in 1 .. Len(old) : /\ old[i].msg \in Messages /\ old[i].uid = u[old[i].msg]
                               /\ u[old[i].msg] # 0 /\ v[old[i].msg] = old[i].uid
  BY RowFacts DEF Grows
<1>2. \A j \in 1 .. Len(box) : /\ box[j].msg \in Messages /\ box[j].uid = v[box[j].msg]
                               /\ v[box[j].msg] # 0
  BY RowFacts
<1>3. Room(old) /\ Room(box)
  BY <1>1, <1>2 DEF Room, Grows
<1>4. ASSUME NEW i \in 1 .. Len(old)
      PROVE  \E j \in 1 .. Len(box) : box[j].msg = old[i].msg /\ box[j].uid = old[i].uid
  <2>1. PICK j \in 1 .. Len(box) : box[j].msg = old[i].msg
    BY DEF Msgs
  <2> QED BY <1>1, <1>2, <2>1
<1>5. ASSUME NEW j \in 1 .. Len(box)
      PROVE  \/ \E i \in 1 .. Len(old) : box[j].uid = old[i].uid
             \/ \A i \in 1 .. Len(old) : old[i].uid < box[j].uid
  <2> DEFINE m == box[j].msg
  <2>1. CASE m \in Msgs(old)
    <3>1. PICK i \in 1 .. Len(old) : old[i].msg = m
      BY <2>1 DEF Msgs
    <3> QED BY <1>1, <1>2, <3>1
  <2>2. CASE m \notin Msgs(old)
    <3>1. m \in cat \ Msgs(old) /\ m \in Messages /\ box[j].uid = v[m] /\ v[m] # 0
      BY <1>2, <2>2 DEF Msgs
    <3> HIDE DEF m
    <3>2. ASSUME NEW i \in 1 .. Len(old) PROVE old[i].uid < v[m]
      <4>1. CASE u[m] # 0
        BY <3>1, <4>1 DEF Follows, Grows
      <4>2. CASE u[m] = 0
        BY <1>1, <3>1, <4>2 DEF Grows
      <4> QED BY <4>1, <4>2
    <3> QED BY <3>1, <3>2
  <2> QED BY <2>1, <2>2
<1>6. /\ Len(old) <= Len(box)
      /\ \A i \in 1 .. Len(old) : box[i].msg = old[i].msg /\ box[i].uid = old[i].uid
  BY <1>3, <1>4, <1>5, StartsWithOld
<1> QED BY <1>6, LearnAgrees

\* The session answers SELECT, NOOP or STATUS.
LEMMA ReplyAgrees ==
    ASSUME IInv, R!IInv, NumberedInv, AgreeInv, faults = 0, ~Fault, Cardinality(Messages) < MaxUid,
           NEW s \in Sessions, Reply(s)
    PROVE  Agrees(session'[s], view'[s], Catalogued, purged, cache'.uid, disk'.uid)
<1> DEFINE ses == session[s]
           known == view[s]
           u == cache.uid
           v == cache'.uid
           box == Numbered(ses.list, v)
<1>1. /\ ses \in SessionType /\ ListInv(ses) /\ TodoInv(ses)
      /\ Sorted(ses.box) /\ Attached(ses.box, u) /\ ses.box \in Seq(Rows)
      /\ session \in [Sessions -> SessionType] /\ view \in [Sessions -> Seq(Slots)]
  BY DEF IInv, SessionsInv, SessionInv, BoxInv, SessionType
<1>2. ses.at = "listed" /\ ses.cmd \in {"SELECT", "NOOP", "STATUS"}
  BY <1>1 DEF Reply, ListInv, SessionType
<1>3. ses.gone = <<>> /\ ~ses.refused
  BY <1>1, <1>2 DEF TodoInv
<1>4. /\ known = Known(ses.box) /\ Follows(ses.box, ses.gone, Catalogued, purged, u)
      /\ ListFollows(ses, Catalogued, u, disk.uid)
  BY <1>2 DEF AgreeInv, Agrees
<1>5. Catalogued \in SUBSET Messages
  <2>1. \A i \in 1 .. Len(catalogue) : catalogue[i] \in Messages
    BY DEF IInv, ServerInv
  <2>2. DOMAIN catalogue = 1 .. Len(catalogue)
    BY DEF IInv, ServerInv
  <2> QED BY <2>1, <2>2 DEF Catalogued, ToSet
<1>6. /\ \A m \in Messages : v[m] # 0 \/ disk'.uid[m] # 0 =>
            u[m] # 0 \/ disk.uid[m] # 0 \/ m \in Msgs(ses.list)
      /\ Grows(u, v)
      /\ box \in Seq(Rows) /\ Sorted(box) /\ Attached(box, v) /\ Msgs(box) = Msgs(ses.list)
  BY ReplyFacts DEF Grows
<1>7. /\ Msgs(box) \subseteq Catalogued /\ Msgs(ses.box) \subseteq Msgs(box)
      /\ \A m \in Catalogued \ Msgs(box) : v[m] = 0
  BY <1>4, <1>5, <1>6 DEF ListFollows
<1>8. ASSUME NEW x, x.box = box, x.gone = <<>>, ~x.refused, x.at = "idle"
      PROVE  Agrees(x, Known(box), Catalogued, purged, v, disk'.uid)
  <2> HIDE DEF box, v
  <2> QED BY <1>7, <1>8, LoadedAgrees
<1>9. CASE ses.cmd = "SELECT"
  <2>1. session'[s] = [Done(ses) EXCEPT !.selected = TRUE, !.box = box] /\ view'[s] = Known(box)
    BY <1>1, <1>9 DEF Reply
  <2> HIDE DEF box
  <2>2. session'[s].box = box /\ session'[s].gone = <<>> /\ ~session'[s].refused /\ session'[s].at = "idle"
    BY <1>1, <2>1 DEF Done, SessionType
  <2> HIDE DEF v
  <2> QED BY <1>8, <2>1, <2>2 DEF v
<1>10. CASE ses.cmd = "NOOP"
  <2>1. session'[s] = [Done(ses) EXCEPT !.box = box] /\ view'[s] = LearnFromNoop(known, ses.box, box)
    BY <1>1, <1>10 DEF Reply
  <2> HIDE DEF box
  <2>2. session'[s].box = box /\ session'[s].gone = <<>> /\ ~session'[s].refused /\ session'[s].at = "idle"
    BY <1>1, <2>1 DEF Done, SessionType
  <2> HIDE DEF v
  <2>3. view'[s] = Known(box)
    BY <1>1, <1>4, <1>5, <1>6, <1>7, <2>1, NoopLearns
  <2> QED BY <1>8, <2>2, <2>3 DEF v
<1>11. CASE ses.cmd = "STATUS"
  <2>1. session'[s] = Done(ses) /\ view'[s] = known
    BY <1>1, <1>11 DEF Reply
  <2>2. /\ session'[s].box = ses.box /\ session'[s].gone = <<>> /\ ~session'[s].refused
        /\ session'[s].at = "idle"
    BY <1>1, <2>1 DEF Done, SessionType
  <2>3. Follows(ses.box, ses.gone, Catalogued, purged, v)
    <3> HIDE DEF v
    <3> QED BY <1>1, <1>4, <1>5, <1>6, StatusFollows
  <2> HIDE DEF v
  <2> QED BY <1>3, <1>4, <2>1, <2>2, <2>3 DEF Agrees, v
<1> QED BY <1>2, <1>9, <1>10, <1>11

\* A step of the session.
LEMMA OwnStepAgrees ==
    ASSUME IInv, R!IInv, NumberedInv, AgreeInv, faults = 0, ~Fault, Cardinality(Messages) < MaxUid,
           Cardinality(Messages) <= Window, NEW s \in Sessions, SessionStep(s)
    PROVE  /\ Agrees(session'[s], view'[s], Catalogued', purged', cache'.uid, disk'.uid)
           /\ purged' \cap Catalogued' = {}
<1> DEFINE ses == session[s]
           known == view[s]
           Now(x, y) == Agrees(x, y, Catalogued, purged, cache.uid, disk.uid)
           Kept == /\ UNCHANGED <<cache, disk>> /\ Catalogued' = Catalogued /\ purged' = purged
           Goal == Agrees(session'[s], view'[s], Catalogued', purged', cache'.uid, disk'.uid)
                   /\ purged' \cap Catalogued' = {}
<1>1. /\ ses \in SessionType /\ ListInv(ses) /\ TodoInv(ses) /\ LinesInv(ses) /\ Distinct(ses.box)
      /\ session \in [Sessions -> SessionType] /\ view \in [Sessions -> Seq(Slots)]
  BY DEF IInv, SessionsInv, SessionInv, BoxInv
<1>2. /\ ses.box \in Seq(Rows) /\ ~ses.refused
      /\ \A k \in 1 .. Len(ses.gone) : ses.gone[k] \in 1 .. Len(ses.box)
  BY <1>1 DEF SessionType, TodoInv, AgreeInv, Agrees
<1>3. Now(ses, known) /\ purged \cap Catalogued = {}
  BY DEF AgreeInv
<1>4. UNCHANGED <<mailVars, registryVars>> => Kept
  BY DEF mailVars, registryVars, Catalogued
<1>5. ASSUME Kept, view'[s] = known, session'[s].box = ses.box, session'[s].gone = ses.gone,
             ~session'[s].refused, session'[s].at # "listed"
      PROVE  Goal
  <2> DEFINE x == session'[s]
  <2>1. Now(x, known)
    <3> HIDE DEF x
    <3> QED BY <1>2, <1>3, <1>5, SameBoxAgrees DEF x
  <2> QED BY <1>3, <1>5, <2>1
<1> SUFFICES Goal
  OBVIOUS
<1> HIDE DEF Goal, Kept
<1>6. CASE Login(s)
  <2>1. session'[s] = [ses EXCEPT !.at = "idle"] /\ view'[s] = known /\ Kept
    BY <1>1, <1>4, <1>6 DEF Login
  <2>2. /\ session'[s].box = ses.box /\ session'[s].gone = ses.gone
        /\ session'[s].refused = ses.refused /\ session'[s].at = "idle"
    BY <1>1, <2>1 DEF SessionType
  <2> QED BY <1>2, <1>5, <2>1, <2>2 DEF Goal
<1>7. CASE Logout(s)
  <2>1. session'[s] = LoggedOut /\ view'[s] = <<>> /\ Kept
    BY <1>1, <1>4, <1>7 DEF Logout
  <2>2. Now(LoggedOut, <<>>)
    BY OutAgrees
  <2> QED BY <1>3, <2>1, <2>2 DEF Goal, Kept
<1>8. ASSUME NEW cmd, List(s, cmd) PROVE Goal
  <2> DEFINE x == [ses EXCEPT !.at = "listed", !.cmd = cmd, !.list = Listing]
  <2>1. session'[s] = x /\ view'[s] = known /\ Kept /\ ses.at = "idle"
    BY <1>1, <1>4, <1>8 DEF List
  <2>2. x.box = ses.box /\ x.gone = ses.gone /\ x.refused = ses.refused /\ x.list = Listing
    BY <1>1 DEF SessionType
  <2> HIDE DEF x
  <2>3. Msgs(Listing) = Catalogued
    BY ListsAll DEF IInv
  <2>4. ses.gone = <<>>
    BY <1>1, <2>1 DEF TodoInv
  <2>5. Msgs(ses.box) \subseteq Catalogued
    BY <1>3, <2>4 DEF Agrees, Follows, Msgs
  <2>6. ListFollows(x, Catalogued, cache.uid, disk.uid)
    BY <2>2, <2>3, <2>5 DEF ListFollows
  <2>7. Now(x, known)
    BY <1>2, <1>3, <2>2, <2>6, SameBoxAgrees
  <2> QED BY <1>3, <2>1, <2>7 DEF Goal, Kept
<1>9. CASE Reply(s)
  <2>1. Agrees(session'[s], view'[s], Catalogued, purged, cache'.uid, disk'.uid)
    BY <1>9, ReplyAgrees
  <2>2. Catalogued' = Catalogued /\ purged' = purged
    BY <1>9 DEF Reply, mailVars, Catalogued
  <2> QED BY <1>3, <2>1, <2>2 DEF Goal
<1>10. ASSUME NEW i \in DOMAIN ses.box, NEW mode, NEW fs, Store(s, i, mode, fs) PROVE Goal
  <2> DEFINE new == Stored(mode, fs, ses.box[i].flags)
             b == [ses.box EXCEPT ![i].flags = new]
  <2>1. /\ session'[s] = [ses EXCEPT !.box[i].flags = new] /\ view'[s] = known
        /\ ses.at = "idle" /\ Kept
    <3>1. StoreOnServer(ses.box[i].msg, mode, fs)
      BY <1>10 DEF Store
    <3>2. UNCHANGED <<catalogue, purged>>
      BY <3>1 DEF StoreOnServer, Apply
    <3>3. Kept
      BY <1>10, <3>2 DEF Store, registryVars, Kept, Catalogued
    <3> QED BY <1>1, <1>10, <3>3 DEF Store
  <2> HIDE DEF new
  <2>2. /\ session'[s].box = b /\ session'[s].gone = ses.gone /\ session'[s].refused = ses.refused
        /\ session'[s].at = ses.at
    BY <1>1, <2>1 DEF SessionType
  <2>3. i \in 1 .. Len(ses.box) /\ \A j \in 1 .. Len(ses.box) : ses.box[j] \in Rows
    BY <1>2
  <2>4. Len(b) = Len(ses.box) /\ DOMAIN b = DOMAIN ses.box
    BY <1>2
  <2>5. ASSUME NEW j \in 1 .. Len(ses.box) PROVE b[j].msg = ses.box[j].msg /\ b[j].uid = ses.box[j].uid
    <3>1. j \in DOMAIN ses.box /\ ses.box[j] \in Rows
      BY <1>2, <2>3
    <3> QED BY <3>1 DEF Rows
  <2> HIDE DEF b
  <2>6. Known(b) = Known(ses.box)
    <3>1. DOMAIN ses.box = 1 .. Len(ses.box)
      BY <1>2
    <3> QED BY <2>4, <2>5, <3>1 DEF Known
  <2> DEFINE x == session'[s]
  <2>7. Now(x, known)
    <3> HIDE DEF x
    <3>1. Len(x.box) = Len(ses.box) /\ Known(x.box) = Known(ses.box) /\ x.gone = ses.gone /\ ~x.refused
          /\ x.at # "listed"
      BY <1>2, <2>1, <2>2, <2>4, <2>6 DEF x
    <3>2. \A j \in 1 .. Len(ses.box) : x.box[j].msg = ses.box[j].msg /\ x.box[j].uid = ses.box[j].uid
      BY <2>2, <2>5 DEF x
    <3> QED BY <1>2, <1>3, <3>1, <3>2, SameBoxAgrees
  <2> QED BY <1>3, <2>1, <2>7 DEF Goal, Kept
<1>11. ASSUME NEW i, NEW mode, NEW fs, StoreUnanswered(s, i, mode, fs) PROVE FALSE
  BY <1>11 DEF StoreUnanswered
<1>12. CASE BeginExpunge(s)
  <2>1. session'[s] = [ses EXCEPT !.at = "expunge", !.todo = ToExpunge(ses.box)] /\ view'[s] = known /\ Kept
    BY <1>1, <1>4, <1>12 DEF BeginExpunge
  <2>2. /\ session'[s].box = ses.box /\ session'[s].gone = ses.gone
        /\ session'[s].refused = ses.refused /\ session'[s].at = "expunge"
    BY <1>1, <2>1 DEF SessionType
  <2> QED BY <1>2, <1>5, <2>1, <2>2 DEF Goal
<1>13. CASE ExpungeOne(s)
  <2> DEFINE h == Head(ses.todo)
             m == ses.box[h].msg
  <2>1. ses.todo # <<>> /\ view'[s] = known /\ UNCHANGED <<cache, disk>>
    BY <1>1, <1>13 DEF ExpungeOne, registryVars
  <2>2. h \in 1 .. Len(ses.box) /\ \A k \in 1 .. Len(ses.gone) : ses.gone[k] # h
    <3>1. h \in 1 .. Len(ses.box) /\ \A k \in 1 .. Len(ses.gone) : ses.gone[k] < h
      BY <1>1, <2>1, NextFacts
    <3>2. h \in Nat
      BY <3>1, <1>2
    <3> HIDE DEF h
    <3> QED BY <3>1, <3>2
  <2>3. m \in Catalogued
    BY <1>3, <2>2 DEF Agrees, Follows
  <2>4. Delete(m) /\ session'[s] = Accepted(ses)
    BY <1>1, <1>13, <2>3 DEF ExpungeOne
  <2>5. Catalogued' = Catalogued \ {m} /\ purged' = purged \cup {m}
    BY <2>4, DeleteCatalogued DEF IInv
  <2>6. Agrees(Accepted(ses), known, Catalogued \ {m}, purged \cup {m}, cache.uid, disk.uid)
    BY <1>1, <1>3, <2>1, RemovalAgrees
  <2> QED BY <1>3, <2>1, <2>4, <2>5, <2>6 DEF Goal
<1>14. ~ExpungeOneFails(s)
  BY DEF ExpungeOneFails
<1>15. CASE EndExpunge(s)
  <2> DEFINE w == Without(ses.box, ses.gone)
             after == AfterExpunges(known, ses.lines)
  <2>1. session'[s] = [Done(ses) EXCEPT !.box = Without(Done(ses).box, ses.gone)] /\ view'[s] = after /\ Kept
    BY <1>1, <1>4, <1>15 DEF EndExpunge
  <2>2. Done(ses).box = ses.box
    BY <1>1 DEF Done, SessionType
  <2>3. session'[s] = [Done(ses) EXCEPT !.box = w]
    BY <2>1, <2>2
  <2> HIDE DEF w, after
  <2>4. session'[s].box = w /\ session'[s].gone = <<>> /\ ~session'[s].refused /\ session'[s].at = "idle"
    BY <1>1, <2>3 DEF Done, SessionType
  <2> DEFINE x == session'[s]
  <2>5. Now(x, after)
    <3> HIDE DEF x
    <3> QED BY <1>1, <1>3, <2>4, EndAgrees DEF w, after, x
  <2> QED BY <1>3, <2>1, <2>5 DEF Goal, Kept
<1> QED BY <1>6, <1>7, <1>8, <1>9, <1>10, <1>11, <1>12, <1>13, <1>14, <1>15 DEF SessionStep

LEMMA AgreeStep ==
    ASSUME IInv, R!IInv, NumberedInv, AgreeInv, [Next]_vars, \A s, t \in Sessions : s = t,
           Cardinality(Messages) < MaxUid, Cardinality(Messages) <= Window
    PROVE  AgreeInv'
<1> SUFFICES ASSUME faults' = 0
             PROVE  /\ purged' \cap Catalogued' = {}
                    /\ \A s \in Sessions :
                          Agrees(session'[s], view'[s], Catalogued', purged', cache'.uid, disk'.uid)
  BY DEF AgreeInv
<1>1. faults = 0 /\ ~Fault
  BY FaultlessBefore
<1>2. /\ purged \cap Catalogued = {}
      /\ \A s \in Sessions : Agrees(session[s], view[s], Catalogued, purged, cache.uid, disk.uid)
  BY <1>1 DEF AgreeInv
<1>3. ASSUME UNCHANGED <<catalogue, purged, session, view, cache, disk>>
      PROVE  /\ purged' \cap Catalogued' = {}
             /\ \A s \in Sessions :
                   Agrees(session'[s], view'[s], Catalogued', purged', cache'.uid, disk'.uid)
  <2>1. Catalogued' = Catalogued
    BY <1>3 DEF Catalogued
  <2> QED BY <1>2, <1>3, <2>1
<1>4. ASSUME NEW m \in Messages, Arrive(m)
      PROVE  /\ purged' \cap Catalogued' = {}
             /\ \A s \in Sessions :
                   Agrees(session'[s], view'[s], Catalogued', purged', cache'.uid, disk'.uid)
  <2>1. Catalogued' = Catalogued \cup {m} /\ m \notin Catalogued \cup purged /\ purged' = purged
    BY <1>4, ArriveCatalogued DEF IInv
  <2>2. cache.uid[m] = 0 /\ disk.uid[m] = 0
    BY <1>1, <2>1 DEF NumberedInv
  <2>3. UNCHANGED <<session, view, cache, disk>>
    BY <1>4 DEF Arrive, registryVars
  <2> QED BY <1>2, <2>1, <2>2, <2>3, ArrivalAgrees
<1>5. ASSUME NEW t \in Sessions, SessionStep(t)
      PROVE  /\ purged' \cap Catalogued' = {}
             /\ \A s \in Sessions :
                   Agrees(session'[s], view'[s], Catalogued', purged', cache'.uid, disk'.uid)
  <2>1. /\ purged' \cap Catalogued' = {}
        /\ Agrees(session'[t], view'[t], Catalogued', purged', cache'.uid, disk'.uid)
    BY <1>1, <1>5, OwnStepAgrees
  <2>2. \A s \in Sessions : s = t
    OBVIOUS
  <2> QED BY <2>1, <2>2
<1>6. CASE RestartBridge
  <2>1. /\ session' = [s \in Sessions |-> LoggedOut] /\ view' = [s \in Sessions |-> <<>>]
        /\ Catalogued' = Catalogued /\ purged' = purged
    BY <1>6 DEF RestartBridge, mailVars, Catalogued
  <2> QED BY <1>2, <2>1, OutAgrees
<1>7. CASE RegistryStep
  BY <1>1, <1>3, <1>7 DEF RegistryStep, Registry!FileDamaged, Registry!Tick, Fault, Registry!Fault, mailVars
<1> QED BY <1>3, <1>4, <1>5, <1>6, <1>7 DEF Next, vars, mailVars, registryVars

\* With one session, a mailbox that fits the window and UIDs to spare, client and
\* session agree on every number between commands, as long as no call failed: NOOP
\* announces every message the session has loaded, and EXPUNGE every one it
\* removed (cmd_noop, cmd_expunge).
THEOREM NumbersHold ==
    ASSUME \A s, t \in Sessions : s = t, Cardinality(Messages) < MaxUid, Cardinality(Messages) <= Window
    PROVE  Spec => []NumbersAgree
<1>1. Init => NumberedInv /\ AgreeInv
  <2> SUFFICES ASSUME Init PROVE NumberedInv /\ AgreeInv
    OBVIOUS
  <2>1. cache = R!NoState /\ disk = R!NoState
    BY DEF Init, Registry!Init, Registry!NoState, R!NoState
  <2>2. R!NoState.next = 1 /\ \A m \in Messages : R!NoState.uid[m] = 0
    BY DEF R!NoState
  <2>3. R!Counted(R!NoState)
    BY <2>2, R!EmptyCounts, RegistryAssumptions
  <2>4. \A s \in Sessions : session[s] = LoggedOut /\ view[s] = <<>> /\ Msgs(session[s].list) = {}
    BY DEF Init, LoggedOut, Msgs
  <2>5. NumberedInv
    BY <2>1, <2>2, <2>3, <2>4 DEF NumberedInv
  <2>6. purged = {}
    BY DEF Init
  <2>7. AgreeInv
    BY <2>4, <2>6, OutAgrees DEF AgreeInv
  <2> QED BY <2>5, <2>7
<1>2. (IInv /\ R!IInv) /\ (NumberedInv /\ AgreeInv) /\ [Next]_vars => (NumberedInv /\ AgreeInv)'
  BY NumberedStep, AgreeStep
<1>3. NumberedInv /\ AgreeInv => NumbersAgree
  BY DEF AgreeInv, Agrees, NumbersAgree, InStep
<1> QED BY <1>1, <1>2, <1>3, Invariance, PTL DEF Spec

=============================================================================
