-------------------------- MODULE MailText_proofs --------------------------
(***************************************************************************)
(* What a text becomes between the servers, for texts of any characters    *)
(* and length and any bounds.                                              *)
(***************************************************************************)
EXTENDS MailText, FiniteSetTheorems, WellFoundedInduction, TLAPS

----------------------------------------------------------------------------
(* Induction, sequences *)

LEMMA NatInductionOnSet ==
    ASSUME NEW S, 0 \in S, \A n \in Nat : n \in S => n + 1 \in S
    PROVE  Nat \subseteq S
<1> DEFINE T == Nat \ S
           W == OpToRel(<, Nat)
<1> SUFFICES ASSUME T # {} PROVE FALSE
  OBVIOUS
<1>1. IsWellFoundedOn(W, Nat)
  BY NatLessThanWellFounded
<1>2. PICK m \in T : \A n \in T : <<n, m>> \notin W
  <2> HIDE DEF W
  <2>1. T \subseteq Nat
    OBVIOUS
  <2> HIDE DEF T
  <2> QED BY <1>1, <2>1, WFMin
<1>3. m \in Nat /\ m # 0 /\ m - 1 \in Nat /\ m - 1 < m
  OBVIOUS
<1>4. m - 1 \in S
  BY <1>2, <1>3 DEF OpToRel
<1> QED BY <1>3, <1>4

\* The greatest number of a bounded set.
LEMMA MaxFacts ==
    ASSUME NEW m \in Nat, NEW A, A \subseteq 0 .. m, A # {}
    PROVE  Max(A) \in A /\ \A y \in A : Max(A) >= y
<1> DEFINE Q == {n \in Nat : \A B \in SUBSET (0 .. n) :
                    B # {} => \E x \in B : \A y \in B : x >= y}
<1>1. 0 \in Q
  <2>1. ASSUME NEW B \in SUBSET (0 .. 0), B # {} PROVE \E x \in B : \A y \in B : x >= y
    <3>1. PICK x \in B : TRUE
      BY <2>1
    <3>2. \A y \in B : y = 0
      OBVIOUS
    <3> QED BY <3>1, <3>2
  <2> QED BY <2>1
<1>2. ASSUME NEW n \in Nat, n \in Q PROVE n + 1 \in Q
  <2>1. ASSUME NEW B \in SUBSET (0 .. n + 1), B # {} PROVE \E x \in B : \A y \in B : x >= y
    <3>1. CASE n + 1 \in B
      <4>1. \A y \in B : n + 1 >= y
        OBVIOUS
      <4> QED BY <3>1, <4>1
    <3>2. CASE n + 1 \notin B
      <4>1. B \in SUBSET (0 .. n)
        BY <3>2
      <4> QED BY <1>2, <2>1, <4>1
    <3> QED BY <3>1, <3>2
  <2> QED BY <2>1
<1>3. m \in Q
  <2> HIDE DEF Q
  <2> QED BY <1>1, <1>2, NatInductionOnSet
<1>4. \E x \in A : \A y \in A : x >= y
  BY <1>3
<1> QED BY <1>4 DEF Max

\* The least number of a bounded set.
LEMMA MinFacts ==
    ASSUME NEW m \in Nat, NEW A, A \subseteq 0 .. m, A # {}
    PROVE  Min(A) \in A /\ \A y \in A : Min(A) <= y
<1> DEFINE B == {y \in 0 .. m : m - y \in A}
<1>1. B \subseteq 0 .. m
  OBVIOUS
<1>2. \A x \in A : m - x \in 0 .. m /\ m - (m - x) = x
  OBVIOUS
<1>3. \A x \in A : m - x \in B
  BY <1>2
<1>4. B # {}
  BY <1>3
<1>5. Max(B) \in B /\ \A y \in B : Max(B) >= y
  <2> HIDE DEF B
  <2> QED BY <1>1, <1>4, MaxFacts
<1> DEFINE x == m - Max(B)
<1>6. x \in A /\ Max(B) \in 0 .. m
  BY <1>5
<1>7. ASSUME NEW y \in A PROVE x <= y
  <2>1. Max(B) >= m - y /\ y \in 0 .. m
    BY <1>3, <1>5
  <2> QED BY <1>6, <2>1
<1> QED BY <1>6, <1>7 DEF Min

LEMMA AppendFacts ==
    ASSUME NEW S, NEW s \in Seq(S), NEW x \in S
    PROVE  /\ Append(s, x) \in Seq(S) /\ Len(Append(s, x)) = Len(s) + 1
           /\ \A j \in 1 .. Len(s) : Append(s, x)[j] = s[j]
           /\ Append(s, x)[Len(s) + 1] = x
  OBVIOUS

LEMMA ConcatFacts ==
    ASSUME NEW S, NEW a \in Seq(S), NEW b \in Seq(S)
    PROVE  /\ a \o b \in Seq(S) /\ Len(a \o b) = Len(a) + Len(b)
           /\ \A j \in 1 .. Len(a) : (a \o b)[j] = a[j]
           /\ \A j \in 1 .. Len(b) : (a \o b)[Len(a) + j] = b[j]
  OBVIOUS

LEMMA SubSeqFacts ==
    ASSUME NEW S, NEW s \in Seq(S), NEW i \in Nat, NEW j \in Nat, 1 <= i, i <= j + 1, j <= Len(s)
    PROVE  /\ SubSeq(s, i, j) \in Seq(S) /\ Len(SubSeq(s, i, j)) = j - i + 1
           /\ \A k \in 1 .. j - i + 1 : SubSeq(s, i, j)[k] = s[i + k - 1]
  OBVIOUS

LEMMA SameSeq ==
    ASSUME NEW S, NEW a \in Seq(S), NEW b \in Seq(S), Len(a) = Len(b),
           \A j \in 1 .. Len(a) : a[j] = b[j]
    PROVE  a = b
  OBVIOUS

\* Names that keep the provers from taking a concatenation apart.
Plus(a, b) == a \o b
With(a, x) == Append(a, x)

LEMMA WithPlus ==
    ASSUME NEW S, NEW a \in Seq(S), NEW b \in Seq(S), NEW x \in S
    PROVE  With(Plus(a, b), x) = Plus(a, With(b, x))
  BY DEF With, Plus

LEMMA PlusPlus ==
    ASSUME NEW S, NEW a \in Seq(S), NEW b \in Seq(S), NEW c \in Seq(S)
    PROVE  Plus(Plus(a, b), c) = Plus(a, Plus(b, c))
  BY DEF Plus

LEMMA PlusWithType ==
    ASSUME NEW S, NEW a \in Seq(S)
    PROVE  /\ \A b \in Seq(S) : Plus(a, b) \in Seq(S) /\ Len(Plus(a, b)) = Len(a) + Len(b)
           /\ \A x \in S : With(a, x) \in Seq(S) /\ Len(With(a, x)) = Len(a) + 1
           /\ Plus(a, <<>>) = a /\ Plus(<<>>, a) = a
           /\ Len(a) \in Nat
  BY DEF With, Plus

LEMMA WholeSeq == ASSUME NEW S, NEW s \in Seq(S) PROVE SubSeq(s, 1, Len(s)) = s
  OBVIOUS

LEMMA Singleton ==
    ASSUME NEW x
    PROVE  /\ <<x>> \in Seq({x}) /\ Len(<<x>>) = 1 /\ <<x>>[1] = x
           /\ SubSeq(<<x>>, 1, 1) = <<x>> /\ Reverse(<<x>>) = <<x>>
<1>1. <<x>> \in Seq({x}) /\ Len(<<x>>) = 1 /\ <<x>>[1] = x
  OBVIOUS
<1>2. SubSeq(<<x>>, 1, 1) = <<x>>
  BY <1>1, WholeSeq
<1>3. Reverse(<<x>>) \in Seq({x}) /\ Len(Reverse(<<x>>)) = 1 /\ Reverse(<<x>>)[1] = x
  <2> DEFINE s == <<x>>
  <2>1. s \in Seq({x}) /\ Len(s) = 1 /\ s[1] = x
    BY <1>1
  <2> HIDE DEF s
  <2>2. Reverse(s) = [i \in 1 .. 1 |-> s[(1 - i) + 1]]
    BY <2>1 DEF Reverse
  <2>3. \A i \in 1 .. 1 : (1 - i) + 1 = 1
    OBVIOUS
  <2>4. Reverse(s) = [i \in 1 .. 1 |-> x]
    BY <2>1, <2>2, <2>3
  <2> DEFINE z == [i \in 1 .. 1 |-> x]
  <2>5. z \in [1 .. 1 -> {x}] /\ z[1] = x
    OBVIOUS
  <2> HIDE DEF z
  <2>6. z \in Seq({x}) /\ Len(z) = 1
    BY <2>5
  <2> QED BY <2>4, <2>5, <2>6 DEF s, z
<1>4. Reverse(<<x>>) = <<x>>
  <2>1. \A j \in 1 .. 1 : Reverse(<<x>>)[j] = <<x>>[j]
    BY <1>1, <1>3
  <2> QED BY <1>1, <1>3, <2>1, SameSeq
<1> QED BY <1>1, <1>2, <1>4

----------------------------------------------------------------------------
(* InOrder *)

\* s lists the members of A, the smallest first.
Ascends(s, A) ==
    /\ s \in Seq(Int) /\ Len(s) \in Nat
    /\ \A i, j \in 1 .. Len(s) : i < j => s[i] < s[j]
    /\ \A i \in 1 .. Len(s) : s[i] \in A
    /\ \A x \in A : \E i \in 1 .. Len(s) : s[i] = x

\* There is one such list, and it is InOrder.
LEMMA AscendsIsInOrder ==
    ASSUME NEW A, NEW s, Ascends(s, A)
    PROVE  InOrder(A) = s
<1> DEFINE n == Len(s)
           below(x) == {y \in A : y < x}
<1>0. /\ n \in Nat /\ \A i \in 1 .. n : s[i] \in Int /\ s[i] \in A
      /\ \A i, j \in 1 .. n : i < j => s[i] < s[j]
      /\ \A x \in A : \E i \in 1 .. n : s[i] = x
      /\ s = [i \in 1 .. n |-> s[i]]
  BY DEF Ascends
<1> HIDE DEF n
<1>1. ASSUME NEW B, NEW k \in 0 .. n, \A i \in 1 .. k : s[i] \in B,
             \A x \in B : \E i \in 1 .. k : s[i] = x
      PROVE  Cardinality(B) = k
  <2> DEFINE f == [i \in 1 .. k |-> s[i]]
  <2>1. k \in Nat
    BY <1>0
  <2>2. f \in [1 .. k -> B]
    BY <1>1
  <2>3. ASSUME NEW i \in 1 .. k, NEW j \in 1 .. k, i # j PROVE f[i] # f[j]
    <3>1. i \in 1 .. n /\ j \in 1 .. n /\ i \in Int /\ j \in Int /\ (i < j \/ j < i)
      BY <1>0, <2>3
    <3>2. s[i] \in Int /\ s[j] \in Int /\ (s[i] < s[j] \/ s[j] < s[i])
      BY <1>0, <3>1
    <3> QED BY <3>2
  <2>4. \A x \in B : \E i \in 1 .. k : f[i] = x
    BY <1>1
  <2> HIDE DEF f
  <2>5. f \in Bijection(1 .. k, B)
    BY <2>2, <2>3, <2>4 DEF Bijection, Injection, Surjection, IsInjective
  <2>6. ExistsBijection(1 .. k, B)
    BY <2>5 DEF ExistsBijection
  <2> QED BY <2>1, <2>6, FS_CountingElements
<1>2. Cardinality(A) = n
  BY <1>0, <1>1
<1>3. ASSUME NEW k \in 1 .. n PROVE Cardinality(below(s[k])) = k - 1
  <2>1. k - 1 \in 0 .. n /\ k \in Nat
    BY <1>0
  <2>2. \A i \in 1 .. k - 1 : s[i] \in below(s[k])
    BY <1>0
  <2>3. ASSUME NEW x \in below(s[k]) PROVE \E i \in 1 .. k - 1 : s[i] = x
    <3>1. x \in A /\ x < s[k]
      BY <2>3
    <3>2. PICK i \in 1 .. n : s[i] = x
      BY <1>0, <3>1
    <3>3. i < k
      <4>1. CASE i = k
        BY <1>0, <3>1, <3>2, <4>1
      <4>2. CASE k < i
        <5>1. s[k] < s[i] /\ s[k] \in Int /\ s[i] \in Int
          BY <1>0, <4>2
        <5> QED BY <3>1, <3>2, <5>1
      <4> QED BY <1>0, <4>1, <4>2
    <3> QED BY <1>0, <3>2, <3>3
  <2> HIDE DEF below
  <2> QED BY <1>1, <2>1, <2>2, <2>3
<1>4. ASSUME NEW k \in 1 .. n
      PROVE  (CHOOSE x \in A : Cardinality(below(x)) = k - 1) = s[k]
  <2>1. s[k] \in A /\ Cardinality(below(s[k])) = k - 1
    BY <1>0, <1>3
  <2>2. ASSUME NEW x \in A, Cardinality(below(x)) = k - 1 PROVE x = s[k]
    <3>1. PICK i \in 1 .. n : s[i] = x
      BY <1>0
    <3>2. Cardinality(below(x)) = i - 1
      <4> HIDE DEF below
      <4> QED BY <1>3, <3>1
    <3>3. i = k
      BY <1>0, <2>2, <3>2
    <3> QED BY <3>1, <3>3
  <2> HIDE DEF below
  <2> QED BY <2>1, <2>2
<1>5. InOrder(A) = [k \in 1 .. n |-> CHOOSE x \in A : Cardinality(below(x)) = k - 1]
  BY <1>2 DEF InOrder
<1> HIDE DEF below
<1>6. InOrder(A) = [k \in 1 .. n |-> s[k]]
  BY <1>4, <1>5
<1> QED BY <1>0, <1>6

LEMMA AscendsMore ==
    ASSUME NEW A, NEW s, Ascends(s, A), NEW x \in Int, \A y \in A : y < x
    PROVE  Ascends(Append(s, x), A \cup {x})
<1> DEFINE n == Len(s)
           t == Append(s, x)
<1>1. /\ s \in Seq(Int) /\ n \in Nat /\ \A i \in 1 .. n : s[i] \in A
      /\ \A i, j \in 1 .. n : i < j => s[i] < s[j]
      /\ \A y \in A : \E i \in 1 .. n : s[i] = y
  BY DEF Ascends
<1>2. /\ t \in Seq(Int) /\ Len(t) = n + 1 /\ t[n + 1] = x
      /\ \A i \in 1 .. n : t[i] = s[i]
  BY <1>1
<1> HIDE DEF t, n
<1>3. ASSUME NEW i \in 1 .. n + 1, NEW j \in 1 .. n + 1, i < j PROVE t[i] < t[j]
  <2>1. i \in 1 .. n
    BY <1>1, <1>3
  <2>2. CASE j \in 1 .. n
    BY <1>1, <1>2, <1>3, <2>1, <2>2
  <2>3. CASE j = n + 1
    BY <1>1, <1>2, <2>1, <2>3
  <2> QED BY <1>1, <2>2, <2>3
<1>4. ASSUME NEW i \in 1 .. n + 1 PROVE t[i] \in A \cup {x}
  <2>1. i \in 1 .. n \/ i = n + 1
    BY <1>1
  <2> QED BY <1>1, <1>2, <2>1
<1>5. ASSUME NEW y \in A \cup {x} PROVE \E i \in 1 .. n + 1 : t[i] = y
  <2>1. CASE y \in A
    <3>1. PICK i \in 1 .. n : s[i] = y
      BY <1>1, <2>1
    <3> QED BY <1>1, <1>2, <3>1
  <2>2. CASE y = x
    BY <1>1, <1>2, <2>2
  <2> QED BY <2>1, <2>2
<1> QED BY <1>1, <1>2, <1>3, <1>4, <1>5 DEF Ascends, t

\* Every bounded set has such a list.
LEMMA InOrderAscends ==
    ASSUME NEW m \in Nat, NEW A, A \subseteq 0 .. m
    PROVE  Ascends(InOrder(A), A)
<1> DEFINE Q == {n \in Nat : \A B \in SUBSET (0 .. n - 1) : Ascends(InOrder(B), B)}
<1>1. 0 \in Q
  <2>1. ASSUME NEW B \in SUBSET (0 .. 0 - 1) PROVE Ascends(InOrder(B), B)
    <3>1. 0 .. 0 - 1 = {}
      OBVIOUS
    <3>4. B = {}
      BY <3>1
    <3>2. << >> \in Seq(Int) /\ Len(<< >>) = 0
      OBVIOUS
    <3>3. Ascends(<< >>, B)
      BY <3>2, <3>4 DEF Ascends
    <3> QED BY <3>3, AscendsIsInOrder
  <2> QED BY <2>1
<1>2. ASSUME NEW n \in Nat, n \in Q PROVE n + 1 \in Q
  <2>1. ASSUME NEW B \in SUBSET (0 .. (n + 1) - 1) PROVE Ascends(InOrder(B), B)
    <3>1. CASE n \in B
      <4> DEFINE C == B \ {n}
      <4>1. C \in SUBSET (0 .. n - 1) /\ B = C \cup {n} /\ \A y \in C : y < n
        BY <3>1
      <4>4. n \in Int
        OBVIOUS
      <4>2. Ascends(InOrder(C), C)
        BY <1>2, <4>1
      <4> HIDE DEF C
      <4>3. Ascends(Append(InOrder(C), n), B)
        BY <4>1, <4>2, <4>4, AscendsMore
      <4> QED BY <4>3, AscendsIsInOrder
    <3>2. CASE n \notin B
      <4>1. B \in SUBSET (0 .. n - 1)
        BY <3>2
      <4> QED BY <1>2, <4>1
    <3> QED BY <3>1, <3>2
  <2> QED BY <2>1
<1>3. m + 1 \in Q
  <2> HIDE DEF Q
  <2>1. Nat \subseteq Q
    BY <1>1, <1>2, NatInductionOnSet
  <2> QED BY <2>1
<1>4. 0 .. m = 0 .. (m + 1) - 1
  OBVIOUS
<1> QED BY <1>3, <1>4

\* A number above the others comes last.
LEMMA InOrderMore ==
    ASSUME NEW m \in Nat, NEW A, A \subseteq 0 .. m, NEW x \in Nat, \A y \in A : y < x
    PROVE  InOrder(A \cup {x}) = Append(InOrder(A), x)
<1>1. Ascends(InOrder(A), A)
  BY InOrderAscends
<1>2. x \in Int
  OBVIOUS
<1>3. Ascends(Append(InOrder(A), x), A \cup {x})
  BY <1>1, <1>2, AscendsMore
<1> QED BY <1>3, AscendsIsInOrder

----------------------------------------------------------------------------
(* Split *)

Free(text, c) == \A i \in 1 .. Len(text) : text[i] # c

\* Every text has no c, or a last one.
LEMMA LastSeparator ==
    ASSUME NEW S, NEW text \in Seq(S), NEW c, ~Free(text, c)
    PROVE  \E t, l \in Seq(S) : text = Append(t, c) \o l /\ Free(l, c) /\ Len(t) < Len(text)
<1> DEFINE A == {i \in 1 .. Len(text) : text[i] = c}
           i == Max(A)
           t == SubSeq(text, 1, i - 1)
           l == SubSeq(text, i + 1, Len(text))
<1>0. Len(text) \in Nat
  OBVIOUS
<1>1. A \subseteq 0 .. Len(text) /\ A # {}
  BY <1>0 DEF Free
<1>2. i \in A /\ \A y \in A : i >= y
  <2> HIDE DEF A
  <2> QED BY <1>0, <1>1, MaxFacts
<1>3. i \in 1 .. Len(text) /\ text[i] = c
  BY <1>2
<1>4. \A k \in i + 1 .. Len(text) : text[k] # c
  <2>1. ASSUME NEW k \in i + 1 .. Len(text), text[k] = c PROVE FALSE
    <3>1. k \in A
      BY <1>0, <1>3, <2>1
    <3>2. i >= k
      BY <1>2, <3>1
    <3> QED BY <1>0, <1>3, <3>2
  <2> QED BY <2>1
<1> HIDE DEF i
<1>5. t \in Seq(S) /\ Len(t) = i - 1 /\ \A k \in 1 .. i - 1 : t[k] = text[k]
  BY <1>0, <1>3
<1>6. l \in Seq(S) /\ Len(l) = Len(text) - i /\ \A k \in 1 .. Len(text) - i : l[k] = text[i + k]
  BY <1>0, <1>3
<1> HIDE DEF t, l
<1>7. Free(l, c)
  <2>1. \A k \in 1 .. Len(l) : l[k] = text[i + k] /\ i + k \in i + 1 .. Len(text)
    BY <1>0, <1>3, <1>6
  <2> QED BY <1>4, <2>1 DEF Free
<1> DEFINE a == Append(t, c)
           b == a \o l
<1>8. c \in S
  BY <1>3
<1>9. a \in Seq(S) /\ Len(a) = i /\ (\A k \in 1 .. i - 1 : a[k] = text[k]) /\ a[i] = c
  BY <1>0, <1>3, <1>5, <1>8
<1> HIDE DEF a
<1>10. b \in Seq(S) /\ Len(b) = Len(text)
  BY <1>0, <1>3, <1>6, <1>9
<1>11. ASSUME NEW k \in 1 .. Len(text) PROVE b[k] = text[k]
  <2>1. CASE k <= i
    <3>1. k \in 1 .. Len(a) /\ (k \in 1 .. i - 1 \/ k = i)
      BY <1>0, <1>3, <1>9, <2>1
    <3>2. b[k] = a[k]
      BY <1>6, <1>9, <3>1, ConcatFacts
    <3> QED BY <1>3, <1>9, <3>1, <3>2
  <2>2. CASE k > i
    <3>1. k - i \in 1 .. Len(l) /\ k = Len(a) + (k - i) /\ k = i + (k - i)
      BY <1>0, <1>3, <1>6, <1>9, <2>2
    <3>3. (a \o l)[Len(a) + (k - i)] = l[k - i]
      BY <1>6, <1>9, <3>1, ConcatFacts
    <3>2. b[k] = l[k - i]
      BY <3>1, <3>3
    <3> QED BY <1>6, <3>1, <3>2
  <2>3. k \in Int /\ i \in Int
    BY <1>3
  <2>4. k <= i \/ k > i
    BY <2>3
  <2> QED BY <2>1, <2>2, <2>4
<1> HIDE DEF b
<1>12. b = text
  BY <1>10, <1>11, SameSeq
<1>13. Len(t) < Len(text)
  BY <1>0, <1>3, <1>5
<1> QED BY <1>5, <1>6, <1>7, <1>12, <1>13 DEF a, b

\* Induction over the pieces of a text.
LEMMA PieceInduction ==
    ASSUME NEW S, NEW c, NEW P,
           \A l \in Seq(S) : Free(l, c) => l \in P,
           \A t, l \in Seq(S) : t \in P /\ Free(l, c) => Append(t, c) \o l \in P
    PROVE  Seq(S) \subseteq P
<1> DEFINE Q == {n \in Nat : \A text \in Seq(S) : Len(text) < n => text \in P}
<1>1. 0 \in Q
  BY \A text \in Seq(S) : Len(text) \in Nat
<1>2. ASSUME NEW n \in Nat, n \in Q PROVE n + 1 \in Q
  <2>1. ASSUME NEW text \in Seq(S), Len(text) < n + 1 PROVE text \in P
    <3>1. CASE Free(text, c)
      BY <3>1
    <3>2. CASE ~Free(text, c)
      <4>1. PICK t, l \in Seq(S) : text = Append(t, c) \o l /\ Free(l, c) /\ Len(t) < Len(text)
        BY <3>2, LastSeparator
      <4>2. Len(t) < n
        <5>1. Len(t) \in Nat /\ Len(text) \in Nat
          OBVIOUS
        <5> QED BY <2>1, <4>1, <5>1
      <4> QED BY <1>2, <4>1, <4>2
    <3> QED BY <3>1, <3>2
  <2> QED BY <2>1
<1>3. Nat \subseteq Q
  <2> HIDE DEF Q
  <2> QED BY <1>1, <1>2, NatInductionOnSet
<1>4. ASSUME NEW text \in Seq(S) PROVE text \in P
  <2>1. Len(text) + 1 \in Nat /\ Len(text) < Len(text) + 1
    OBVIOUS
  <2> QED BY <1>3, <2>1
<1> QED BY <1>4

Cuts(text, c) == {i \in 0 .. Len(text) + 1 : i \in {0, Len(text) + 1} \/ text[i] = c}

\* The separators before the end.
Inner(text, c) == {i \in 0 .. Len(text) : i = 0 \/ text[i] = c}

LEMMA CutsFacts ==
    ASSUME NEW S, NEW text \in Seq(S), NEW c
    PROVE  /\ Inner(text, c) \subseteq 0 .. Len(text)
           /\ Cuts(text, c) = Inner(text, c) \cup {Len(text) + 1}
           /\ Cuts(text, c) \subseteq 0 .. Len(text) + 1
           /\ InOrder(Cuts(text, c)) = Append(InOrder(Inner(text, c)), Len(text) + 1)
           /\ Ascends(InOrder(Inner(text, c)), Inner(text, c))
           /\ Ascends(InOrder(Cuts(text, c)), Cuts(text, c))
           /\ 1 <= Len(InOrder(Inner(text, c)))
<1>0. Len(text) \in Nat /\ Len(text) + 1 \in Nat
  OBVIOUS
<1>1. Inner(text, c) \subseteq 0 .. Len(text) /\ Cuts(text, c) \subseteq 0 .. Len(text) + 1
  BY DEF Inner, Cuts
<1>2. Cuts(text, c) = Inner(text, c) \cup {Len(text) + 1}
  BY <1>0 DEF Inner, Cuts
<1>3. \A y \in Inner(text, c) : y < Len(text) + 1
  BY <1>0, <1>1
<1>4. InOrder(Cuts(text, c)) = Append(InOrder(Inner(text, c)), Len(text) + 1)
  BY <1>0, <1>1, <1>2, <1>3, InOrderMore
<1>5. Ascends(InOrder(Inner(text, c)), Inner(text, c)) /\ Ascends(InOrder(Cuts(text, c)), Cuts(text, c))
  BY <1>0, <1>1, InOrderAscends
<1>6. 1 <= Len(InOrder(Inner(text, c)))
  <2>1. 0 \in Inner(text, c)
    BY <1>0 DEF Inner
  <2>2. PICK i \in 1 .. Len(InOrder(Inner(text, c))) : InOrder(Inner(text, c))[i] = 0
    BY <1>5, <2>1 DEF Ascends
  <2> QED BY <1>5, <2>2 DEF Ascends
<1> QED BY <1>1, <1>2, <1>4, <1>5, <1>6

\* The pieces lie between two cuts.
\* The pieces of a text, by its cuts.
AreCut(S, text, cuts, pieces) ==
    /\ Len(cuts) \in Nat /\ Len(cuts) >= 2
    /\ pieces \in Seq(Seq(S)) /\ Len(pieces) = Len(cuts) - 1
    /\ \A n \in 1 .. Len(cuts) - 1 :
        /\ cuts[n] \in Nat /\ cuts[n + 1] \in Nat
        /\ cuts[n] < cuts[n + 1] /\ cuts[n + 1] <= Len(text) + 1
        /\ pieces[n] = SubSeq(text, cuts[n] + 1, cuts[n + 1] - 1)

LEMMA SplitFacts ==
    ASSUME NEW S, NEW text \in Seq(S), NEW c, NEW cuts, cuts = InOrder(Cuts(text, c)),
           NEW pieces, pieces = Split(text, c)
    PROVE  AreCut(S, text, cuts, pieces)
<1> DEFINE first == InOrder(Inner(text, c))
           piece(n) == SubSeq(text, cuts[n] + 1, cuts[n + 1] - 1)
<1>0. Len(text) \in Nat /\ Len(text) + 1 \in Nat
  OBVIOUS
<1>1. Ascends(cuts, Cuts(text, c)) /\ Ascends(first, Inner(text, c)) /\ 1 <= Len(first)
  BY CutsFacts
<1>2. cuts = Append(first, Len(text) + 1)
  BY CutsFacts
<1>3. Len(cuts) \in Nat /\ Len(cuts) >= 2
  <2>1. first \in Seq(Int) /\ Len(first) \in Nat /\ Len(text) + 1 \in Int
    BY <1>0, <1>1 DEF Ascends
  <2> HIDE DEF first
  <2>2. Len(cuts) = Len(first) + 1
    BY <1>2, <2>1, AppendFacts
  <2> QED BY <1>1, <2>1, <2>2
<1> HIDE DEF first
<1>4. \A i \in 1 .. Len(cuts) : cuts[i] \in 0 .. Len(text) + 1
  BY <1>1, CutsFacts DEF Ascends
<1>5. \A i, j \in 1 .. Len(cuts) : i < j => cuts[i] < cuts[j]
  BY <1>1 DEF Ascends
<1>6. ASSUME NEW n \in 1 .. Len(cuts) - 1
      PROVE  /\ cuts[n] \in Nat /\ cuts[n + 1] \in Nat
             /\ cuts[n] < cuts[n + 1] /\ cuts[n + 1] <= Len(text) + 1
             /\ piece(n) \in Seq(S)
  <2>1. n \in 1 .. Len(cuts) /\ n + 1 \in 1 .. Len(cuts) /\ n < n + 1
    BY <1>3
  <2>2. cuts[n] \in 0 .. Len(text) + 1 /\ cuts[n + 1] \in 0 .. Len(text) + 1 /\ cuts[n] < cuts[n + 1]
    BY <1>4, <1>5, <2>1
  <2> DEFINE lo == cuts[n] + 1
             hi == cuts[n + 1] - 1
  <2>3. /\ lo \in Nat /\ hi \in Nat /\ 1 <= lo /\ lo <= hi + 1 /\ hi <= Len(text)
        /\ cuts[n] \in Nat /\ cuts[n + 1] \in Nat /\ cuts[n + 1] <= Len(text) + 1
    BY <1>0, <2>2
  <2> HIDE DEF lo, hi
  <2>4. SubSeq(text, lo, hi) \in Seq(S)
    BY <2>3, SubSeqFacts
  <2> QED BY <2>2, <2>3, <2>4 DEF lo, hi
<1>7. pieces = [n \in 1 .. Len(cuts) - 1 |-> piece(n)]
  BY DEF Split, Cuts
<1> HIDE DEF piece
<1>8. pieces \in Seq(Seq(S)) /\ Len(pieces) = Len(cuts) - 1
  <2>1. Len(cuts) - 1 \in Nat /\ \A n \in 1 .. Len(cuts) - 1 : piece(n) \in Seq(S)
    BY <1>3, <1>6
  <2> DEFINE k == Len(cuts) - 1
  <2> HIDE DEF k
  <2>2. [n \in 1 .. k |-> piece(n)] \in Seq(Seq(S)) /\ Len([n \in 1 .. k |-> piece(n)]) = k
    BY <2>1 DEF k
  <2> QED BY <1>7, <2>2 DEF k
<1>9. \A n \in 1 .. Len(cuts) - 1 : pieces[n] = piece(n)
  BY <1>7
<1> QED BY <1>3, <1>6, <1>8, <1>9 DEF piece, AreCut

LEMMA SplitCuts ==
    ASSUME NEW S, NEW text \in Seq(S), NEW c
    PROVE  AreCut(S, text, InOrder(Cuts(text, c)), Split(text, c))
<1> DEFINE cuts == InOrder(Cuts(text, c))
           pieces == Split(text, c)
<1>1. cuts = InOrder(Cuts(text, c)) /\ pieces = Split(text, c)
  OBVIOUS
<1> HIDE DEF cuts, pieces
<1>2. AreCut(S, text, cuts, pieces)
  BY <1>1, SplitFacts
<1> QED BY <1>2 DEF cuts, pieces

LEMMA SplitFree ==
    ASSUME NEW S, NEW text \in Seq(S), NEW c, Free(text, c)
    PROVE  Split(text, c) = <<text>>
<1> DEFINE cuts == InOrder(Cuts(text, c))
           m == Len(text)
           pieces == Split(text, c)
<1>0. m \in Nat
  OBVIOUS
<1>1. Inner(text, c) = {0}
  BY <1>0 DEF Inner, Free
<1>2. Ascends(<<0>>, {0})
  BY DEF Ascends
<1>3. InOrder({0}) = <<0>>
  BY <1>2, AscendsIsInOrder
<1>4. cuts = Append(<<0>>, m + 1)
  BY <1>1, <1>3, CutsFacts
<1> HIDE DEF m, cuts
<1>5. Len(cuts) = 2 /\ cuts[1] = 0 /\ cuts[2] = m + 1
  BY <1>4
<1>6. /\ pieces \in Seq(Seq(S)) /\ Len(pieces) = Len(cuts) - 1
      /\ \A n \in 1 .. Len(cuts) - 1 : pieces[n] = SubSeq(text, cuts[n] + 1, cuts[n + 1] - 1)
  <2>1. AreCut(S, text, cuts, pieces)
    BY SplitCuts DEF cuts
  <2> HIDE DEF pieces
  <2> QED BY <2>1 DEF AreCut
<1> HIDE DEF pieces
<1>7. Len(pieces) = 1 /\ pieces[1] = SubSeq(text, 1, m)
  <2>1. 1 \in 1 .. Len(cuts) - 1 /\ cuts[1] + 1 = 1 /\ cuts[1 + 1] - 1 = m
    BY <1>0, <1>5
  <2> QED BY <1>5, <1>6, <2>1
<1>8. SubSeq(text, 1, m) = text
  BY DEF m
<1>9. pieces = <<text>>
  <2>1. <<text>> \in Seq(Seq(S)) /\ Len(<<text>>) = 1 /\ <<text>>[1] = text
    OBVIOUS
  <2>2. \A j \in 1 .. 1 : j = 1
    OBVIOUS
  <2>3. pieces[1] = text /\ Len(pieces) = 1 /\ pieces \in Seq(Seq(S))
    BY <1>6, <1>7, <1>8
  <2> QED BY <2>1, <2>2, <2>3, SameSeq
<1> QED BY <1>9 DEF pieces

\* A separator and what follows it make one piece more.
LEMMA SplitJoin ==
    ASSUME NEW S, NEW t \in Seq(S), NEW l \in Seq(S), NEW c \in S, Free(l, c),
           NEW text, text = Append(t, c) \o l
    PROVE  Split(text, c) = Append(Split(t, c), l)
<1> DEFINE n == Len(t)
           m == Len(text)
           old == InOrder(Cuts(t, c))
           new == InOrder(Cuts(text, c))
           olds == Split(t, c)
           news == Split(text, c)
           a == Append(t, c)
<1>1. /\ n \in Nat /\ Len(l) \in Nat /\ a \in Seq(S) /\ Len(a) = n + 1
      /\ \A i \in 1 .. n : a[i] = t[i]
      /\ a[n + 1] = c
  OBVIOUS
<1>2. text \in Seq(S) /\ m = n + 1 + Len(l)
  BY <1>1
<1>3. \A i \in 1 .. n + 1 : text[i] = a[i]
  BY <1>1, ConcatFacts
<1>4. \A i \in 1 .. Len(l) : text[n + 1 + i] = l[i]
  BY <1>1, ConcatFacts
<1> HIDE DEF a
<1>5. Inner(text, c) = Cuts(t, c)
  <2>1. ASSUME NEW i \in 0 .. n + 1 PROVE (i = 0 \/ text[i] = c) <=> (i \in {0, n + 1} \/ t[i] = c)
    <3>1. CASE i = n + 1
      BY <1>1, <1>3, <3>1
    <3>2. CASE i = 0
      BY <3>2
    <3>3. CASE i \in 1 .. n
      <4>1. text[i] = t[i] /\ i # 0 /\ i # n + 1
        BY <1>1, <1>3, <3>3
      <4> QED BY <4>1
    <3> QED BY <1>1, <3>1, <3>2, <3>3
  <2>2. ASSUME NEW i \in 0 .. m, i \notin 0 .. n + 1 PROVE i # 0 /\ text[i] # c
    <3>1. i - (n + 1) \in 1 .. Len(l) /\ i = n + 1 + (i - (n + 1)) /\ i # 0
      BY <1>1, <1>2, <2>2
    <3>2. text[n + 1 + (i - (n + 1))] = l[i - (n + 1)] /\ l[i - (n + 1)] # c
      BY <1>4, <3>1 DEF Free
    <3> QED BY <3>1, <3>2
  <2>3. 0 .. n + 1 \subseteq 0 .. m
    BY <1>1, <1>2
  <2>4. /\ Inner(text, c) = {i \in 0 .. m : i = 0 \/ text[i] = c}
        /\ Cuts(t, c) = {i \in 0 .. n + 1 : i \in {0, n + 1} \/ t[i] = c}
    BY DEF Inner, Cuts
  <2> HIDE DEF m, n
  <2> QED BY <2>1, <2>2, <2>3, <2>4
<1>6. new = Append(old, m + 1)
  BY <1>2, <1>5, CutsFacts
<1> DEFINE k == Len(old)
<1>7. /\ k \in Nat /\ k >= 2 /\ olds \in Seq(Seq(S)) /\ Len(olds) = k - 1
      /\ \A i \in 1 .. k - 1 :
            /\ old[i] \in Nat /\ old[i + 1] \in Nat /\ old[i] < old[i + 1] /\ old[i + 1] <= n + 1
            /\ olds[i] = SubSeq(t, old[i] + 1, old[i + 1] - 1)
  <2>1. AreCut(S, t, old, olds) /\ Len(t) = n
    BY SplitCuts
  <2> HIDE DEF old, olds, n
  <2> QED BY <2>1 DEF AreCut
<1>8. /\ news \in Seq(Seq(S)) /\ Len(news) = Len(new) - 1
      /\ \A i \in 1 .. Len(new) - 1 : news[i] = SubSeq(text, new[i] + 1, new[i + 1] - 1)
  <2>1. AreCut(S, text, new, news)
    <3>1. text \in Seq(S)
      BY <1>2
    <3> QED BY ONLY <3>1, SplitCuts
  <2> HIDE DEF new, news
  <2> QED BY <2>1 DEF AreCut
<1>9. old \in Seq(Int) /\ old[k] = n + 1
  <2> DEFINE first == InOrder(Inner(t, c))
  <2>1. old = Append(first, n + 1) /\ first \in Seq(Int) /\ n + 1 \in Int
    <3>1. old = Append(first, n + 1) /\ Ascends(first, Inner(t, c))
      BY CutsFacts
    <3> HIDE DEF old, first, n
    <3> QED BY <1>1, <3>1 DEF Ascends
  <2> HIDE DEF first, n
  <2>2. old \in Seq(Int) /\ k = Len(first) + 1 /\ old[Len(first) + 1] = n + 1
    BY <2>1, AppendFacts
  <2> QED BY <2>2
<1> HIDE DEF old, new, m, n, olds, news
<1>10. Len(new) = k + 1 /\ new[k + 1] = m + 1 /\ \A i \in 1 .. k : new[i] = old[i]
  <2>1. m + 1 \in Int
    BY <1>1, <1>2
  <2> QED BY <1>6, <1>9, <2>1, AppendFacts
<1> HIDE DEF k
<1>11. Len(news) = k /\ \A i \in 1 .. k : news[i] = SubSeq(text, new[i] + 1, new[i + 1] - 1)
  <2>1. Len(new) - 1 = k
    BY <1>7, <1>10
  <2> QED BY <1>8, <2>1
<1>12. ASSUME NEW i \in 1 .. k - 1 PROVE news[i] = olds[i]
  <2> DEFINE lo == old[i] + 1
             hi == old[i + 1] - 1
  <2>1. /\ i \in 1 .. k /\ i + 1 \in 1 .. k
        /\ lo \in Nat /\ hi \in Nat /\ 1 <= lo /\ lo <= hi + 1 /\ hi <= n
        /\ hi <= m
    <3>1. i \in 1 .. k /\ i + 1 \in 1 .. k
      BY <1>7
    <3>2. old[i] \in Nat /\ old[i + 1] \in Nat /\ old[i] < old[i + 1] /\ old[i + 1] <= n + 1
      BY <1>7
    <3>3. n \in Nat /\ m \in Nat /\ n <= m
      BY ONLY <1>1, <1>2
    <3>4. \A x, y \in Nat : x < y /\ y <= n + 1 =>
            /\ x + 1 \in Nat /\ y - 1 \in Nat /\ 1 <= x + 1 /\ x + 1 <= (y - 1) + 1
            /\ y - 1 <= n /\ y - 1 <= m
      BY ONLY <3>3
    <3> QED BY <3>1, <3>2, <3>4
  <2>2. news[i] = SubSeq(text, lo, hi) /\ olds[i] = SubSeq(t, lo, hi)
    BY <1>7, <1>10, <1>11, <2>1
  <2> HIDE DEF lo, hi
  <2> DEFINE p == SubSeq(text, lo, hi)
             q == SubSeq(t, lo, hi)
  <2>3. p \in Seq(S) /\ Len(p) = hi - lo + 1 /\ \A j \in 1 .. hi - lo + 1 : p[j] = text[lo + j - 1]
    BY <1>2, <2>1, SubSeqFacts DEF m
  <2>4. q \in Seq(S) /\ Len(q) = hi - lo + 1 /\ \A j \in 1 .. hi - lo + 1 : q[j] = t[lo + j - 1]
    BY <2>1, SubSeqFacts DEF n
  <2>5. ASSUME NEW j \in 1 .. hi - lo + 1 PROVE text[lo + j - 1] = t[lo + j - 1]
    <3>1. lo + j - 1 \in 1 .. n /\ lo + j - 1 \in 1 .. n + 1
      BY <1>1, <2>1
    <3> QED BY <1>1, <1>3, <3>1
  <2> HIDE DEF p, q
  <2>6. p = q
    <3> HIDE DEF n, m
    <3> DEFINE len == hi - lo + 1
    <3>1. p \in Seq(S) /\ Len(p) = len /\ q \in Seq(S) /\ Len(q) = len
      BY <2>3, <2>4
    <3>2. \A j \in 1 .. len : p[j] = q[j]
      BY <2>3, <2>4, <2>5
    <3> HIDE DEF len
    <3> QED BY ONLY <3>1, <3>2, SameSeq
  <2> QED BY <2>2, <2>6 DEF p, q
<1>13. news[k] = l
  <2>1. k \in 1 .. k /\ new[k] + 1 = n + 2 /\ new[k + 1] - 1 = m
    BY <1>1, <1>2, <1>7, <1>9, <1>10
  <2> DEFINE p == SubSeq(text, n + 2, m)
  <2>2. n + 2 \in Nat /\ m \in Nat /\ 1 <= n + 2 /\ n + 2 <= m + 1 /\ m <= Len(text)
    BY <1>1, <1>2 DEF m
  <2>3. /\ p \in Seq(S) /\ Len(p) = m - (n + 2) + 1
        /\ \A j \in 1 .. m - (n + 2) + 1 : p[j] = text[n + 2 + j - 1]
    BY ONLY <1>2, <2>2, SubSeqFacts
  <2> HIDE DEF p
  <2>4. m - (n + 2) + 1 = Len(l) /\ \A j \in 1 .. Len(l) : n + 2 + j - 1 = n + 1 + j
    <3>1. n \in Int /\ Len(l) \in Int /\ m = n + 1 + Len(l)
      BY <1>1, <1>2
    <3> HIDE DEF n, m
    <3> QED BY ONLY <3>1
  <2>5. \A j \in 1 .. Len(l) : p[j] = l[j]
    BY <1>4, <2>3, <2>4
  <2>6. p = l
    BY <2>3, <2>4, <2>5, SameSeq
  <2> QED BY <1>11, <2>1, <2>6 DEF p
<1>14. l \in Seq(S)
  OBVIOUS
<1> DEFINE both == Append(olds, l)
<1>15. /\ both \in Seq(Seq(S)) /\ Len(both) = k
       /\ \A i \in 1 .. k - 1 : both[i] = olds[i]
       /\ both[k] = l
  <2>1. (k - 1) + 1 = k
    BY <1>7
  <2>2. /\ both \in Seq(Seq(S)) /\ Len(both) = Len(olds) + 1
        /\ \A i \in 1 .. Len(olds) : both[i] = olds[i]
        /\ both[Len(olds) + 1] = l
    BY <1>7, <1>14, AppendFacts
  <2> HIDE DEF both
  <2> QED BY <1>7, <2>1, <2>2
<1> HIDE DEF both
<1>16. \A i \in 1 .. k : news[i] = both[i]
  <2>1. \A i \in 1 .. k : i \in 1 .. k - 1 \/ i = k
    BY <1>7
  <2> QED BY <1>12, <1>13, <1>15, <2>1
<1>17. news = both
  BY <1>8, <1>11, <1>15, <1>16, SameSeq
<1> QED BY <1>17 DEF news, both, olds

LEMMA PiecesAreFree ==
    ASSUME NEW S, NEW c \in S, NEW text \in Seq(S)
    PROVE  /\ Split(text, c) \in Seq(Seq(S)) /\ Len(Split(text, c)) >= 1
           /\ \A i \in 1 .. Len(Split(text, c)) : Free(Split(text, c)[i], c)
<1> DEFINE Good(pieces) ==
              /\ pieces \in Seq(Seq(S)) /\ Len(pieces) >= 1
              /\ \A i \in 1 .. Len(pieces) : Free(pieces[i], c)
           P == {t \in Seq(S) : Good(Split(t, c))}
<1>1. ASSUME NEW l \in Seq(S), Free(l, c) PROVE l \in P
  <2>1. Split(l, c) = <<l>>
    BY <1>1, SplitFree
  <2>2. Good(<<l>>)
    BY <1>1
  <2> HIDE DEF Good
  <2> QED BY <2>1, <2>2
<1>2. ASSUME NEW t \in Seq(S), NEW l \in Seq(S), t \in P, Free(l, c)
      PROVE  Append(t, c) \o l \in P
  <2> DEFINE whole == Append(t, c) \o l
             olds == Split(t, c)
             news == Append(olds, l)
  <2>1. whole \in Seq(S)
    OBVIOUS
  <2> HIDE DEF whole
  <2>2. Split(whole, c) = news
    BY <1>2, SplitJoin DEF whole
  <2>3. /\ olds \in Seq(Seq(S)) /\ Len(olds) >= 1
        /\ \A i \in 1 .. Len(olds) : Free(olds[i], c)
    BY <1>2
  <2> HIDE DEF olds
  <2>4. /\ news \in Seq(Seq(S)) /\ Len(news) = Len(olds) + 1 /\ Len(olds) \in Nat
        /\ \A i \in 1 .. Len(olds) : news[i] = olds[i]
        /\ news[Len(olds) + 1] = l
    BY <2>3, AppendFacts
  <2> HIDE DEF news
  <2>5. ASSUME NEW i \in 1 .. Len(news) PROVE Free(news[i], c)
    <3>1. i \in 1 .. Len(olds) \/ i = Len(olds) + 1
      BY <2>4
    <3> QED BY <1>2, <2>3, <2>4, <3>1
  <2>6. Good(news)
    BY <2>3, <2>4, <2>5
  <2> HIDE DEF Good
  <2> QED BY <2>1, <2>2, <2>6 DEF whole
<1>3. Seq(S) \subseteq P
  <2> HIDE DEF P
  <2> QED BY <1>1, <1>2, PieceInduction
<1> QED BY <1>3

----------------------------------------------------------------------------
(* Trimming *)

\* n is where text ends without what is in chars.
EndsAt(text, chars, n) ==
    /\ n \in 0 .. Len(text)
    /\ n > 0 => text[n] \notin chars
    /\ \A i \in n + 1 .. Len(text) : text[i] \in chars

LEMMA TrimEndIs ==
    ASSUME NEW S, NEW text \in Seq(S), NEW chars, NEW n, EndsAt(text, chars, n)
    PROVE  TrimEnd(text, chars) = SubSeq(text, 1, n)
<1> DEFINE A == {i \in 1 .. Len(text) : text[i] \notin chars} \cup {0}
<1>0. Len(text) \in Nat /\ n \in 0 .. Len(text)
  BY DEF EndsAt
<1>1. n \in A
  BY <1>0 DEF EndsAt
<1>2. \A y \in A : n >= y
  <2>1. ASSUME NEW y \in A PROVE n >= y
    <3>1. y \in 0 .. Len(text) /\ (y > 0 => text[y] \notin chars)
      BY <1>0
    <3>2. y \notin n + 1 .. Len(text)
      BY <1>0, <3>1 DEF EndsAt
    <3> QED BY <1>0, <3>1, <3>2
  <2> QED BY <2>1
<1>3. Max(A) \in A /\ \A y \in A : Max(A) >= y
  <2>1. A \subseteq 0 .. Len(text) /\ A # {}
    BY <1>0
  <2> HIDE DEF A
  <2> QED BY <1>0, <2>1, MaxFacts
<1>4. Max(A) = n
  <2>1. Max(A) >= n /\ n >= Max(A) /\ Max(A) \in Int /\ n \in Int
    BY <1>0, <1>1, <1>2, <1>3
  <2> QED BY <2>1
<1>5. DOMAIN text = 1 .. Len(text)
  OBVIOUS
<1> QED BY <1>4, <1>5 DEF TrimEnd

LEMMA TrimEndFacts ==
    ASSUME NEW S, NEW text \in Seq(S), NEW chars
    PROVE  \E n \in 0 .. Len(text) :
                /\ EndsAt(text, chars, n)
                /\ TrimEnd(text, chars) = SubSeq(text, 1, n)
                /\ TrimEnd(text, chars) \in Seq(S) /\ Len(TrimEnd(text, chars)) = n
                /\ \A i \in 1 .. n : TrimEnd(text, chars)[i] = text[i]
<1> DEFINE A == {i \in 1 .. Len(text) : text[i] \notin chars} \cup {0}
           n == Max(A)
<1>0. Len(text) \in Nat
  OBVIOUS
<1>1. n \in A /\ \A y \in A : n >= y
  <2>1. A \subseteq 0 .. Len(text) /\ A # {}
    BY <1>0
  <2> HIDE DEF A
  <2> QED BY <1>0, <2>1, MaxFacts
<1>2. n \in 0 .. Len(text) /\ (n > 0 => text[n] \notin chars)
  BY <1>0, <1>1
<1>3. ASSUME NEW i \in n + 1 .. Len(text), text[i] \notin chars PROVE FALSE
  <2>1. i \in A /\ i \in Int
    BY <1>0, <1>2, <1>3
  <2>2. n >= i
    BY <1>1, <2>1
  <2> HIDE DEF n
  <2> QED BY <1>0, <1>2, <1>3, <2>2
<1> HIDE DEF n
<1>4. EndsAt(text, chars, n)
  BY <1>2, <1>3 DEF EndsAt
<1>5. TrimEnd(text, chars) = SubSeq(text, 1, n)
  BY <1>4, TrimEndIs
<1>6. /\ SubSeq(text, 1, n) \in Seq(S) /\ Len(SubSeq(text, 1, n)) = n
      /\ \A i \in 1 .. n : SubSeq(text, 1, n)[i] = text[i]
  BY <1>0, <1>2
<1> QED BY <1>2, <1>4, <1>5, <1>6

----------------------------------------------------------------------------
(* A line on the wire *)

LEMMA OneDot ==
    ASSUME NEW S, NEW l \in Seq(S)
    PROVE  IsPrefix(<<".">>, l) <=> Len(l) >= 1 /\ l[1] = "."
<1> DEFINE a == SubSeq(<<".">>, 1, 1)
           b == SubSeq(l, 1, 1)
<1>1. Len(<<".">>) = 1 /\ Len(l) \in Nat /\ a = <<".">>
  <2>1. Len(l) \in Nat
    OBVIOUS
  <2> QED BY <2>1, Singleton
<1>2. CASE Len(l) >= 1
  <2>1. b \in Seq(S) /\ Len(b) = 1 /\ b[1] = l[1]
    BY <1>2
  <2> HIDE DEF b
  <2>2. b = <<b[1]>>
    BY <2>1
  <2>3. a = b <=> l[1] = "."
    BY <1>1, <2>1, <2>2
  <2> QED BY <1>1, <1>2, <2>3 DEF IsPrefix, b
<1>3. CASE ~(Len(l) >= 1)
  BY <1>1, <1>3 DEF IsPrefix
<1> QED BY <1>2, <1>3

LEMMA TwoDots ==
    ASSUME NEW S, NEW l \in Seq(S)
    PROVE  IsPrefix(<<".", ".">>, l) <=> Len(l) >= 2 /\ l[1] = "." /\ l[2] = "."
<1> DEFINE a == SubSeq(<<".", ".">>, 1, 2)
           b == SubSeq(l, 1, 2)
<1>1. Len(<<".", ".">>) = 2 /\ Len(l) \in Nat /\ a = <<".", ".">>
  <2>1. Len(l) \in Nat /\ Len(<<".", ".">>) = 2 /\ <<".", ".">> \in Seq({"."})
    OBVIOUS
  <2> QED BY <2>1, WholeSeq
<1>2. CASE Len(l) >= 2
  <2>1. b \in Seq(S) /\ Len(b) = 2 /\ b[1] = l[1] /\ b[2] = l[2]
    BY <1>2
  <2> HIDE DEF b
  <2>2. b = <<b[1], b[2]>>
    BY <2>1
  <2>3. a = b <=> l[1] = "." /\ l[2] = "."
    BY <1>1, <2>1, <2>2
  <2> QED BY <1>1, <1>2, <2>3 DEF IsPrefix, b
<1>3. CASE ~(Len(l) >= 2)
  BY <1>1, <1>3 DEF IsPrefix
<1> QED BY <1>2, <1>3

LEMMA EndsWithCR ==
    ASSUME NEW S, NEW l \in Seq(S)
    PROVE  IsSuffix(<<"CR">>, l) <=> Len(l) >= 1 /\ l[Len(l)] = "CR"
<1> DEFINE r == Reverse(l)
           a == SubSeq(<<"CR">>, 1, 1)
           b == SubSeq(r, 1, 1)
<1>1. Reverse(<<"CR">>) = <<"CR">> /\ Len(<<"CR">>) = 1 /\ Len(l) \in Nat /\ a = <<"CR">>
  <2>1. Len(l) \in Nat
    OBVIOUS
  <2> QED BY <2>1, Singleton
<1>2. r \in Seq(S) /\ Len(r) = Len(l) /\ \A i \in 1 .. Len(l) : r[i] = l[(Len(l) - i) + 1]
  BY DEF Reverse
<1> HIDE DEF r
<1>3. CASE Len(l) >= 1
  <2>1. b \in Seq(S) /\ Len(b) = 1 /\ b[1] = r[1]
    BY <1>2, <1>3
  <2>2. r[1] = l[Len(l)]
    <3>1. 1 \in 1 .. Len(l) /\ (Len(l) - 1) + 1 = Len(l)
      BY <1>1, <1>3
    <3> QED BY <1>2, <3>1
  <2> HIDE DEF b
  <2>3. b = <<b[1]>>
    BY <2>1
  <2>4. a = b <=> l[Len(l)] = "CR"
    BY <1>1, <2>1, <2>2, <2>3
  <2> QED BY <1>1, <1>2, <1>3, <2>4 DEF IsSuffix, IsPrefix, b, r
<1>4. CASE ~(Len(l) >= 1)
  BY <1>1, <1>2, <1>4 DEF IsSuffix, IsPrefix, r
<1> QED BY <1>3, <1>4

LEMMA StuffedFacts ==
    ASSUME NEW S, "." \in S, NEW y \in Seq(S)
    PROVE  \/ /\ Len(y) >= 1 /\ y[1] = "."
              /\ Stuffed(y) \in Seq(S) /\ Len(Stuffed(y)) = Len(y) + 1
              /\ Stuffed(y)[1] = "." /\ Stuffed(y)[2] = "."
              /\ \A i \in 1 .. Len(y) : Stuffed(y)[i + 1] = y[i]
           \/ ~(Len(y) >= 1 /\ y[1] = ".") /\ Stuffed(y) = y
<1>1. CASE Len(y) >= 1 /\ y[1] = "."
  <2> DEFINE z == <<".">> \o y
  <2>1. Stuffed(y) = z
    BY <1>1, OneDot DEF Stuffed
  <2>2. /\ z \in Seq(S) /\ Len(z) = Len(y) + 1 /\ z[1] = "."
        /\ \A i \in 1 .. Len(y) : z[i + 1] = y[i]
    OBVIOUS
  <2> HIDE DEF z
  <2>3. z[2] = "."
    <3>1. 1 \in 1 .. Len(y) /\ 1 + 1 = 2
      BY <1>1
    <3> QED BY <1>1, <2>2, <3>1
  <2> QED BY <1>1, <2>1, <2>2, <2>3
<1>2. CASE ~(Len(y) >= 1 /\ y[1] = ".")
  BY <1>2, OneDot DEF Stuffed
<1> QED BY <1>1, <1>2

\* Taking the dot away restores the line, whatever it began with.
LEMMA UnstuffedStuffed ==
    ASSUME NEW S, "." \in S, NEW y \in Seq(S)
    PROVE  Unstuffed(Stuffed(y)) = y /\ Stuffed(y) # <<".">> /\ Stuffed(y) \in Seq(S)
<1> DEFINE z == Stuffed(y)
<1>1. CASE Len(y) >= 1 /\ y[1] = "."
  <2>1. /\ z \in Seq(S) /\ Len(z) = Len(y) + 1 /\ z[1] = "." /\ z[2] = "."
        /\ \A i \in 1 .. Len(y) : z[i + 1] = y[i]
    BY <1>1, StuffedFacts
  <2> HIDE DEF z
  <2>2. IsPrefix(<<".", ".">>, z)
    BY <1>1, <2>1, TwoDots
  <2>3. Tail(z) \in Seq(S) /\ Len(Tail(z)) = Len(y) /\ \A i \in 1 .. Len(y) : Tail(z)[i] = z[i + 1]
    BY <1>1, <2>1
  <2>4. Tail(z) = y
    BY <2>1, <2>3, SameSeq
  <2>5. z # <<".">>
    BY <1>1, <2>1
  <2> QED BY <2>1, <2>2, <2>4, <2>5 DEF Unstuffed, z
<1>2. CASE ~(Len(y) >= 1 /\ y[1] = ".")
  <2>1. z = y
    BY <1>2, StuffedFacts
  <2>2. ~IsPrefix(<<".", ".">>, y)
    BY <1>2, TwoDots
  <2>3. y # <<".">>
    BY <1>2
  <2> QED BY <2>1, <2>2, <2>3 DEF Unstuffed
<1> QED BY <1>1, <1>2

LEMMA WithoutCRFacts ==
    ASSUME NEW S, NEW l \in Seq(S), NEW n, EndsAt(l, {"CR"}, n)
    PROVE  /\ WithoutCR(l) \in Seq(S) /\ EndsAt(WithoutCR(l), {"CR"}, n)
           /\ Len(WithoutCR(l)) = IF Len(l) >= 1 /\ l[Len(l)] = "CR" THEN Len(l) - 1 ELSE Len(l)
           /\ \A i \in 1 .. Len(WithoutCR(l)) : WithoutCR(l)[i] = l[i]
<1>0. Len(l) \in Nat /\ n \in 0 .. Len(l)
  BY DEF EndsAt
<1>1. CASE Len(l) >= 1 /\ l[Len(l)] = "CR"
  <2> DEFINE y == SubSeq(l, 1, Len(l) - 1)
  <2>1. WithoutCR(l) = y
    BY <1>1, EndsWithCR DEF WithoutCR, Front
  <2>2. y \in Seq(S) /\ Len(y) = Len(l) - 1 /\ \A i \in 1 .. Len(l) - 1 : y[i] = l[i]
    <3> DEFINE k == Len(l) - 1
    <3>1. k \in Nat /\ k <= Len(l)
      BY <1>0, <1>1
    <3> HIDE DEF k
    <3>2. /\ SubSeq(l, 1, k) \in Seq(S) /\ Len(SubSeq(l, 1, k)) = k
          /\ \A i \in 1 .. k : SubSeq(l, 1, k)[i] = l[i]
      BY <3>1
    <3> QED BY <3>2 DEF k
  <2> HIDE DEF y
  <2>3. n # Len(l)
    BY <1>0, <1>1 DEF EndsAt
  <2>4. n \in 0 .. Len(l) - 1 /\ \A i \in n + 1 .. Len(l) - 1 : i \in n + 1 .. Len(l) /\ i \in 1 .. Len(l) - 1
    BY <1>0, <2>3
  <2>5. EndsAt(y, {"CR"}, n)
    BY <1>0, <2>2, <2>4 DEF EndsAt
  <2> QED BY <1>1, <2>1, <2>2, <2>5
<1>2. CASE ~(Len(l) >= 1 /\ l[Len(l)] = "CR")
  <2>1. WithoutCR(l) = l
    BY <1>2, EndsWithCR DEF WithoutCR
  <2> QED BY <1>2, <2>1
<1> QED BY <1>1, <1>2

\* What the reader makes of a line written by dot_stuff_for_wire: the line
\* without its CRs, and never the end of the text.
LEMMA WireLineRead ==
    ASSUME NEW S, {".", "CR"} \subseteq S, NEW l \in Seq(S),
           NEW w, w = Stuffed(WithoutCR(l)) \o <<"CR">>
    PROVE  /\ w \in Seq(S)
           /\ ~EndsText(w)
           /\ ~TooLong(w) => Unstuffed(Content(w)) = TrimEnd(l, {"CR"})
<1> DEFINE x == TrimEnd(l, {"CR"})
           y == WithoutCR(l)
           s == Stuffed(y)
<1>1. PICK n \in 0 .. Len(l) :
            /\ EndsAt(l, {"CR"}, n) /\ x \in Seq(S) /\ Len(x) = n
            /\ \A i \in 1 .. n : x[i] = l[i]
  BY TrimEndFacts
<1>2. /\ y \in Seq(S) /\ EndsAt(y, {"CR"}, n) /\ Len(y) \in Nat /\ n \in 0 .. Len(y)
      /\ \A i \in 1 .. Len(y) : y[i] = l[i]
  <2>1. y \in Seq(S) /\ EndsAt(y, {"CR"}, n) /\ \A i \in 1 .. Len(y) : y[i] = l[i]
    BY <1>1, WithoutCRFacts
  <2> QED BY <2>1 DEF EndsAt
<1>3. /\ n > 0 => y[n] # "CR"
      /\ \A i \in n + 1 .. Len(y) : y[i] = "CR"
  BY <1>2 DEF EndsAt
<1>4. \A i \in 1 .. n : x[i] = y[i]
  BY <1>1, <1>2
<1> HIDE DEF x, y
<1>5. Len(y) >= 1 /\ y[1] = "." <=> Len(x) >= 1 /\ x[1] = "."
  <2>1. CASE n = 0
    <3>1. Len(y) >= 1 => 1 \in n + 1 .. Len(y)
      BY <1>2, <2>1
    <3> QED BY <1>1, <1>3, <2>1, <3>1
  <2>2. CASE n > 0
    BY <1>1, <1>2, <1>4, <2>2
  <2> QED BY <1>2, <2>1, <2>2
<1>6. s \in Seq(S) /\ "CR" \in S /\ "." \in S
  BY <1>2, UnstuffedStuffed
<1>7. w \in Seq(S) /\ Len(w) = Len(s) + 1 /\ w[Len(s) + 1] = "CR" /\ \A i \in 1 .. Len(s) : w[i] = s[i]
  <2>1. w = s \o <<"CR">>
    BY DEF y
  <2> HIDE DEF s
  <2>2. s \in Seq(S) /\ "CR" \in S
    BY <1>6
  <2> QED BY ONLY <2>1, <2>2
<1>8. TrimEnd(w, {"CR"}) = Stuffed(x)
  <2>1. CASE Len(y) >= 1 /\ y[1] = "."
    <3>1. Len(s) = Len(y) + 1 /\ s[1] = "." /\ \A i \in 1 .. Len(y) : s[i + 1] = y[i]
      BY <1>2, <1>6, <2>1, StuffedFacts
    <3>2. /\ Stuffed(x) \in Seq(S) /\ Len(Stuffed(x)) = n + 1 /\ Stuffed(x)[1] = "."
          /\ \A i \in 1 .. n : Stuffed(x)[i + 1] = x[i]
      BY <1>1, <1>5, <1>6, <2>1, StuffedFacts
    <3> HIDE DEF s
    <3>3. n >= 1
      BY <1>1, <1>5, <2>1
    <3>4. \A i \in 2 .. Len(y) + 1 : w[i] = y[i - 1]
      <4>1. ASSUME NEW i \in 2 .. Len(y) + 1 PROVE w[i] = y[i - 1]
        <5>1. i \in 1 .. Len(s) /\ i - 1 \in 1 .. Len(y) /\ (i - 1) + 1 = i
          BY <1>2, <3>1
        <5> QED BY <1>7, <3>1, <5>1
      <4> QED BY <4>1
    <3>5. w[1] = "." /\ Len(w) = Len(y) + 2 /\ w[Len(y) + 2] = "CR"
      BY <1>2, <1>7, <3>1
    <3>6. EndsAt(w, {"CR"}, n + 1)
      <4>1. n + 1 \in 0 .. Len(w) /\ n + 1 \in 2 .. Len(y) + 1 /\ (n + 1) - 1 = n
        BY <1>2, <3>3, <3>5
      <4>2. w[n + 1] # "CR"
        BY <1>3, <3>3, <3>4, <4>1
      <4>3. ASSUME NEW i \in (n + 1) + 1 .. Len(w) PROVE w[i] = "CR"
        <5>1. CASE i = Len(y) + 2
          BY <3>5, <5>1
        <5>2. CASE i # Len(y) + 2
          <6>1. i \in 2 .. Len(y) + 1 /\ i - 1 \in n + 1 .. Len(y)
            BY ONLY <1>2, <3>5, <5>2, i \in (n + 1) + 1 .. Len(w)
          <6> QED BY <1>3, <3>4, <6>1
        <5> QED BY <5>1, <5>2
      <4> QED BY <4>1, <4>2, <4>3 DEF EndsAt
    <3> DEFINE z == SubSeq(w, 1, n + 1)
    <3>7. TrimEnd(w, {"CR"}) = z
      BY <1>7, <3>6, TrimEndIs
    <3>8. z \in Seq(S) /\ Len(z) = n + 1 /\ \A i \in 1 .. n + 1 : z[i] = w[i]
      BY <1>2, <1>7, <3>5
    <3> HIDE DEF z
    <3>9. ASSUME NEW i \in 1 .. n + 1 PROVE z[i] = Stuffed(x)[i]
      <4>1. CASE i = 1
        BY <1>2, <3>2, <3>5, <3>8, <4>1
      <4>2. CASE i # 1
        <5>1. i - 1 \in 1 .. n /\ (i - 1) + 1 = i /\ i \in 2 .. Len(y) + 1
          BY <1>2, <4>2
        <5> QED BY <1>4, <3>2, <3>4, <3>8, <5>1
      <4> QED BY <4>1, <4>2
    <3>10. z = Stuffed(x)
      BY <3>2, <3>8, <3>9, SameSeq
    <3> QED BY <3>7, <3>10
  <2>2. CASE ~(Len(y) >= 1 /\ y[1] = ".")
    <3>1. s = y
      BY <1>2, <1>6, <2>2, StuffedFacts
    <3>2. Stuffed(x) = x
      BY <1>1, <1>5, <1>6, <2>2, StuffedFacts
    <3> HIDE DEF s
    <3>3. Len(w) = Len(y) + 1 /\ w[Len(y) + 1] = "CR" /\ \A i \in 1 .. Len(y) : w[i] = y[i]
      BY <1>7, <3>1
    <3>4. EndsAt(w, {"CR"}, n)
      <4>1. n \in 0 .. Len(w) /\ (n > 0 => n \in 1 .. Len(y))
        BY <1>2, <3>3
      <4>2. ASSUME NEW i \in n + 1 .. Len(w) PROVE w[i] = "CR"
        <5>1. CASE i = Len(y) + 1
          BY <3>3, <5>1
        <5>2. CASE i # Len(y) + 1
          <6>1. i \in 1 .. Len(y) /\ i \in n + 1 .. Len(y)
            BY <1>2, <3>3, <5>2
          <6> QED BY <1>3, <3>3, <6>1
        <5> QED BY <5>1, <5>2
      <4> QED BY <1>3, <3>3, <4>1, <4>2 DEF EndsAt
    <3> DEFINE z == SubSeq(w, 1, n)
    <3>5. TrimEnd(w, {"CR"}) = z
      BY <1>7, <3>4, TrimEndIs
    <3>6. z \in Seq(S) /\ Len(z) = n /\ \A i \in 1 .. n : z[i] = w[i]
      BY <1>2, <1>7, <3>3
    <3> HIDE DEF z
    <3>7. \A i \in 1 .. n : i \in 1 .. Len(y)
      BY <1>2
    <3>8. z = x
      BY <1>1, <1>4, <3>3, <3>6, <3>7, SameSeq
    <3> QED BY <3>2, <3>5, <3>8
  <2> QED BY <2>1, <2>2
<1>9. Unstuffed(Stuffed(x)) = x /\ Stuffed(x) # <<".">>
  BY <1>1, <1>6, UnstuffedStuffed
<1>10. ~TooLong(w) => Content(w) = Stuffed(x)
  BY <1>8 DEF Content
<1> QED BY <1>7, <1>9, <1>10 DEF EndsText, x

----------------------------------------------------------------------------
(* Received *)

Start == [body |-> <<>>, tooLarge |-> FALSE]

\* f is the reading of the first n lines.
IsReading(f, lines, n) ==
    f = [i \in 0 .. n |-> IF i = 0 THEN Start ELSE Extend(f[i - 1], lines[i])]

Reading(lines) == CHOOSE f : IsReading(f, lines, Len(lines))

LEMMA ReadingFacts ==
    ASSUME NEW S, NEW lines \in Seq(S)
    PROVE  /\ Received(lines) = Reading(lines)[Len(lines)]
           /\ Reading(lines)[0] = Start
           /\ \A i \in 1 .. Len(lines) : Reading(lines)[i] = Extend(Reading(lines)[i - 1], lines[i])
<1> DEFINE N == {n \in Nat : \E f : IsReading(f, lines, n)}
<1>1. 0 \in N
  <2>1. IsReading([i \in 0 .. 0 |-> Start], lines, 0)
    BY DEF IsReading
  <2> QED BY <2>1
<1>2. \A n \in Nat : n \in N => n + 1 \in N
  <2> SUFFICES ASSUME NEW n \in Nat, NEW f, IsReading(f, lines, n)
               PROVE  \E g : IsReading(g, lines, n + 1)
    OBVIOUS
  <2> DEFINE g == [i \in 0 .. n + 1 |-> IF i = n + 1 THEN Extend(f[n], lines[n + 1]) ELSE f[i]]
  <2>1. \A i \in 0 .. n + 1 : g[i] = IF i = 0 THEN Start ELSE Extend(g[i - 1], lines[i])
    BY DEF IsReading
  <2>2. IsReading(g, lines, n + 1)
    BY <2>1 DEF IsReading
  <2> QED BY <2>2
<1>3. Len(lines) \in N
  <2>1. Len(lines) \in Nat
    OBVIOUS
  <2> HIDE DEF N
  <2> QED BY <1>1, <1>2, <2>1, NatInductionOnSet
<1>4. IsReading(Reading(lines), lines, Len(lines))
  BY <1>3 DEF Reading
<1>5. Len(lines) \in Nat
  OBVIOUS
<1> DEFINE f == Reading(lines)
           m == Len(lines)
<1>6. f = [i \in 0 .. m |-> IF i = 0 THEN Start ELSE Extend(f[i - 1], lines[i])]
  BY <1>4 DEF IsReading
<1>7. Received(lines) = f[m]
  BY DEF Received, Reading, IsReading, Start
<1> HIDE DEF f, m
<1>8. \A i \in 0 .. m : f[i] = IF i = 0 THEN Start ELSE Extend(f[i - 1], lines[i])
  BY <1>6
<1>9. f[0] = Start
  BY <1>5, <1>8 DEF m
<1>10. \A i \in 1 .. m : f[i] = Extend(f[i - 1], lines[i])
  BY <1>5, <1>8 DEF m
<1> QED BY <1>7, <1>9, <1>10 DEF f, m

LEMMA ReceivedNothing == Received(<<>>) = Start
<1>1. <<>> \in Seq({}) /\ Len(<<>>) = 0
  OBVIOUS
<1> QED BY <1>1, ReadingFacts

LEMMA ReceivedMore ==
    ASSUME NEW S, NEW lines \in Seq(S), NEW line \in S
    PROVE  Received(Append(lines, line)) = Extend(Received(lines), line)
<1> DEFINE more == Append(lines, line)
           m == Len(lines)
           f == Reading(lines)
           g == Reading(more)
<1>1. m \in Nat /\ more \in Seq(S) /\ Len(more) = m + 1 /\ more[m + 1] = line
      /\ \A j \in 1 .. m : more[j] = lines[j]
  OBVIOUS
<1>2. Received(lines) = f[m] /\ f[0] = Start /\ \A i \in 1 .. m : f[i] = Extend(f[i - 1], lines[i])
  BY ReadingFacts
<1>3. /\ Received(more) = g[m + 1] /\ g[0] = Start
      /\ \A i \in 1 .. m + 1 : g[i] = Extend(g[i - 1], more[i])
  <2>1. /\ Received(more) = g[Len(more)] /\ g[0] = Start
        /\ \A i \in 1 .. Len(more) : g[i] = Extend(g[i - 1], more[i])
    <3> HIDE DEF more
    <3> QED BY <1>1, ReadingFacts
  <2> HIDE DEF more, g
  <2> QED BY <1>1, <2>1
<1> HIDE DEF f, g, m, more
<1> DEFINE Q == {n \in Nat : n <= m => f[n] = g[n]}
<1>4. 0 \in Q
  BY <1>2, <1>3
<1>5. ASSUME NEW n \in Nat, n \in Q PROVE n + 1 \in Q
  <2>1. ASSUME n + 1 <= m PROVE f[n + 1] = g[n + 1]
    <3>1. n + 1 \in 1 .. m /\ n + 1 \in 1 .. m + 1 /\ (n + 1) - 1 = n /\ n <= m
      BY <1>1, <2>1
    <3>2. f[n] = g[n]
      BY <1>5, <3>1
    <3> QED BY <1>1, <1>2, <1>3, <3>1, <3>2
  <2> QED BY <2>1
<1>6. m \in Q
  <2> HIDE DEF Q
  <2> QED BY <1>1, <1>4, <1>5, NatInductionOnSet
<1>7. f[m] = g[m] /\ m + 1 \in 1 .. m + 1 /\ (m + 1) - 1 = m
  BY <1>1, <1>6
<1>8. g[m + 1] = Extend(g[m], line)
  BY <1>1, <1>3, <1>7
<1> QED BY <1>2, <1>3, <1>7, <1>8 DEF more

\* Induction over the items of a sequence.
LEMMA AppendInduction ==
    ASSUME NEW S, NEW P, <<>> \in P,
           \A s \in Seq(S), x \in S : s \in P => Append(s, x) \in P
    PROVE  Seq(S) \subseteq P
<1> DEFINE Q == {n \in Nat : \A s \in Seq(S) : Len(s) = n => s \in P}
<1>1. 0 \in Q
  <2>1. \A s \in Seq(S) : Len(s) = 0 => s = <<>>
    OBVIOUS
  <2> QED BY <2>1
<1>2. ASSUME NEW n \in Nat, n \in Q PROVE n + 1 \in Q
  <2>1. ASSUME NEW s \in Seq(S), Len(s) = n + 1 PROVE s \in P
    <3> DEFINE t == SubSeq(s, 1, n)
    <3>1. t \in Seq(S) /\ Len(t) = n /\ \A j \in 1 .. n : t[j] = s[j]
      BY <2>1
    <3>2. s[n + 1] \in S
      BY <2>1
    <3> HIDE DEF t
    <3> DEFINE a == Append(t, s[n + 1])
    <3>3. a \in Seq(S) /\ Len(a) = n + 1 /\ a[n + 1] = s[n + 1] /\ \A j \in 1 .. n : a[j] = t[j]
      BY <3>1, <3>2, AppendFacts
    <3>4. a \in P
      BY <1>2, <3>1, <3>2
    <3> HIDE DEF a
    <3>5. \A j \in 1 .. n + 1 : a[j] = s[j]
      <4>1. \A j \in 1 .. n + 1 : j \in 1 .. n \/ j = n + 1
        OBVIOUS
      <4> QED BY <3>1, <3>3, <4>1
    <3>6. a = s
      BY <2>1, <3>3, <3>5, SameSeq
    <3> QED BY <3>4, <3>6
  <2> QED BY <2>1
<1>3. Nat \subseteq Q
  <2> HIDE DEF Q
  <2> QED BY <1>1, <1>2, NatInductionOnSet
<1>4. ASSUME NEW s \in Seq(S) PROVE s \in P
  <2>1. Len(s) \in Nat
    OBVIOUS
  <2> QED BY <1>3, <2>1
<1> QED BY <1>4

\* The piece a line adds to the text.
LEMMA ContentFacts ==
    ASSUME NEW S, NEW line \in Seq(S)
    PROVE  Content(line) \in Seq(S) /\ Unstuffed(Content(line)) \in Seq(S)
<1> DEFINE x == Content(line)
<1>1. x \in Seq(S)
  <2>1. TrimEnd(line, {"CR"}) \in Seq(S)
    BY TrimEndFacts
  <2>2. <<>> \in Seq(S)
    OBVIOUS
  <2> QED BY <2>1, <2>2 DEF Content
<1> HIDE DEF x
<1>2. Unstuffed(x) \in Seq(S)
  <2>1. CASE IsPrefix(<<".", ".">>, x)
    <3>1. Len(x) >= 2
      BY <1>1, <2>1, TwoDots
    <3>2. Tail(x) \in Seq(S)
      BY <1>1, <3>1
    <3> QED BY <2>1, <3>2 DEF Unstuffed
  <2>2. CASE ~IsPrefix(<<".", ".">>, x)
    BY <1>1, <2>2 DEF Unstuffed
  <2> QED BY <2>1, <2>2
<1> QED BY <1>1, <1>2 DEF x

Readings(S) == [body : Seq(S), tooLarge : BOOLEAN]

LEMMA ExtendFacts ==
    ASSUME NEW S, "LF" \in S, NEW read \in Readings(S), NEW line \in Seq(S),
           NEW more, more = Unstuffed(Content(line)), NEW next, next = Extend(read, line)
    PROVE  /\ next \in Readings(S)
           /\ more \in Seq(S)
           /\ next.tooLarge <=> \/ read.tooLarge \/ TooLong(line)
                                \/ Len(read.body) + Len(more) + 1 > MaxData
           /\ ~next.tooLarge => next.body = Append(read.body \o more, "LF")
           /\ Len(Append(read.body \o more, "LF")) = Len(read.body) + Len(more) + 1
<1>1. more \in Seq(S)
  BY ContentFacts
<1>2. read.body \in Seq(S) /\ read.tooLarge \in BOOLEAN
  BY DEF Readings
<1> DEFINE b == read.body
<1> HIDE DEF b
<1>3. b \o more \in Seq(S) /\ Len(b \o more) = Len(b) + Len(more)
  BY <1>1, <1>2 DEF b
<1> DEFINE c == b \o more
<1> HIDE DEF c
<1>4. c \o <<"LF">> = Append(c, "LF") /\ c \o <<"LF">> \in Seq(S) /\ Len(Append(c, "LF")) = Len(c) + 1
  BY <1>3 DEF c
<1> DEFINE full == read.tooLarge \/ TooLong(line) \/ Len(b) + Len(more) + 1 > MaxData
<1>5. CASE full
  <2>1. next = [read EXCEPT !.tooLarge = TRUE]
    BY <1>5 DEF Extend, b
  <2> QED BY <1>1, <1>2, <1>3, <1>4, <1>5, <2>1 DEF Readings, b, c
<1>6. CASE ~full
  <2>1. next = [read EXCEPT !.body = c \o <<"LF">>]
    BY <1>6 DEF Extend, b, c
  <2>2. next.body = c \o <<"LF">> /\ next.tooLarge = read.tooLarge /\ next \in Readings(S)
    BY <1>2, <1>4, <2>1 DEF Readings
  <2> QED BY <1>1, <1>2, <1>3, <1>4, <1>6, <2>2 DEF b, c
<1> QED BY <1>5, <1>6

LEMMA ReceivedType ==
    ASSUME NEW S, "LF" \in S, NEW lines \in Seq(Seq(S))
    PROVE  /\ Received(lines) \in Readings(S)
           /\ ~Received(lines).tooLarge => Len(Received(lines).body) <= MaxData
<1> DEFINE Good(read) == read \in Readings(S) /\ (~read.tooLarge => Len(read.body) <= MaxData)
           P == {ls \in Seq(Seq(S)) : Good(Received(ls))}
<1>1. <<>> \in P
  <2>1. Good(Start)
    <3>1. <<>> \in Seq(S) /\ Len(<<>>) = 0
      OBVIOUS
    <3> QED BY <3>1, BoundsAssumption DEF Start, Readings
  <2>2. <<>> \in Seq(Seq(S))
    OBVIOUS
  <2> HIDE DEF Good
  <2> QED BY <2>1, <2>2, ReceivedNothing
<1>2. ASSUME NEW ls \in Seq(Seq(S)), NEW l \in Seq(S), ls \in P PROVE Append(ls, l) \in P
  <2>1. Append(ls, l) \in Seq(Seq(S)) /\ Received(Append(ls, l)) = Extend(Received(ls), l)
    BY ReceivedMore, AppendFacts
  <2>2. Good(Extend(Received(ls), l))
    <3> DEFINE read == Received(ls)
               next == Extend(read, l)
               more == Unstuffed(Content(l))
    <3>1. read \in Readings(S)
      BY <1>2
    <3> HIDE DEF read
    <3>2. /\ next \in Readings(S) /\ more \in Seq(S)
          /\ next.tooLarge <=> \/ read.tooLarge \/ TooLong(l)
                               \/ Len(read.body) + Len(more) + 1 > MaxData
          /\ ~next.tooLarge => next.body = Append(read.body \o more, "LF")
          /\ Len(Append(read.body \o more, "LF")) = Len(read.body) + Len(more) + 1
      BY <3>1, ExtendFacts
    <3>3. Len(read.body) \in Nat /\ Len(more) \in Nat
      BY <3>1, <3>2 DEF Readings
    <3> HIDE DEF next, more
    <3>4. ASSUME ~next.tooLarge PROVE Len(next.body) <= MaxData
      BY <3>2, <3>3, <3>4, BoundsAssumption
    <3> QED BY <3>2, <3>4 DEF next, read
  <2> HIDE DEF Good
  <2> QED BY <2>1, <2>2
<1>3. Seq(Seq(S)) \subseteq P
  <2> HIDE DEF P
  <2> QED BY <1>1, <1>2, AppendInduction
<1> QED BY <1>3

----------------------------------------------------------------------------
(* Rewritten *)

\* The characters of text at the places of A.
Picked(text, A) == [n \in 1 .. Len(InOrder(A)) |-> text[InOrder(A)[n]]]

LEMMA PickedType ==
    ASSUME NEW S, NEW text \in Seq(S), NEW A \in SUBSET (1 .. Len(text)),
           NEW s, s = InOrder(A), NEW p, p = Picked(text, A)
    PROVE  /\ Ascends(s, A) /\ s \in Seq(Int) /\ Len(s) \in Nat
           /\ \A n \in 1 .. Len(s) : s[n] \in A
           /\ p \in Seq(S) /\ Len(p) = Len(s)
           /\ \A n \in 1 .. Len(s) : p[n] = text[s[n]]
<1>1. Len(text) \in Nat /\ A \subseteq 0 .. Len(text)
  OBVIOUS
<1>2. Ascends(s, A)
  BY <1>1, InOrderAscends
<1>3. /\ s \in Seq(Int) /\ Len(s) \in Nat /\ \A n \in 1 .. Len(s) : s[n] \in A
      /\ \A n \in 1 .. Len(s) : text[s[n]] \in S
  BY <1>2 DEF Ascends
<1> DEFINE q == [n \in 1 .. Len(s) |-> text[s[n]]]
<1>4. q \in Seq(S) /\ Len(q) = Len(s) /\ \A n \in 1 .. Len(s) : q[n] = text[s[n]]
  BY <1>3
<1> HIDE DEF q
<1>5. p = q
  BY DEF Picked, q
<1> QED BY <1>2, <1>3, <1>4, <1>5

LEMMA PickedNothing == ASSUME NEW text PROVE Picked(text, {}) = <<>>
<1>1. <<>> \in Seq(Int) /\ Len(<<>>) = 0
  OBVIOUS
<1>2. Ascends(<<>>, {})
  BY <1>1 DEF Ascends
<1>3. InOrder({}) = <<>>
  BY <1>2, AscendsIsInOrder
<1> QED BY <1>1, <1>3 DEF Picked

LEMMA PickedMore ==
    ASSUME NEW S, NEW text \in Seq(S), NEW A, A \subseteq 1 .. Len(text),
           NEW x \in 1 .. Len(text), \A y \in A : y < x
    PROVE  Picked(text, A \cup {x}) = Append(Picked(text, A), text[x])
<1> DEFINE B == A \cup {x}
           s == InOrder(A)
           r == InOrder(B)
           p == Picked(text, A)
           q == Picked(text, B)
           a == Append(p, text[x])
<1>1. Len(text) \in Nat /\ A \subseteq 0 .. Len(text) /\ x \in Nat /\ x \in Int /\ B \subseteq 1 .. Len(text)
  OBVIOUS
<1>2. r = Append(s, x)
  BY <1>1, InOrderMore
<1>3. /\ s \in Seq(Int) /\ Len(s) \in Nat /\ p \in Seq(S) /\ Len(p) = Len(s)
      /\ \A n \in 1 .. Len(s) : p[n] = text[s[n]]
  <2>1. A \in SUBSET (1 .. Len(text))
    OBVIOUS
  <2> QED BY <2>1, PickedType
<1>4. q \in Seq(S) /\ Len(q) = Len(r) /\ \A n \in 1 .. Len(r) : q[n] = text[r[n]]
  <2>1. B \in SUBSET (1 .. Len(text))
    BY <1>1
  <2> HIDE DEF B
  <2> QED BY <2>1, PickedType
<1> HIDE DEF r, s, p, q
<1>5. Len(r) = Len(s) + 1 /\ r[Len(s) + 1] = x /\ \A n \in 1 .. Len(s) : r[n] = s[n]
  BY <1>1, <1>2, <1>3, AppendFacts
<1>6. text[x] \in S
  OBVIOUS
<1>7. /\ a \in Seq(S) /\ Len(a) = Len(s) + 1 /\ a[Len(s) + 1] = text[x]
      /\ \A n \in 1 .. Len(s) : a[n] = p[n]
  BY <1>3, <1>6, AppendFacts
<1> HIDE DEF a
<1>8. \A n \in 1 .. Len(s) + 1 : q[n] = a[n]
  <2>1. \A n \in 1 .. Len(s) + 1 : n \in 1 .. Len(s) \/ n = Len(s) + 1
    BY <1>3
  <2>2. \A n \in 1 .. Len(s) + 1 : q[n] = text[r[n]]
    BY <1>4, <1>5
  <2> QED BY <1>3, <1>5, <1>7, <2>1, <2>2
<1>9. q = a
  BY <1>4, <1>5, <1>7, <1>8, SameSeq
<1> QED BY <1>9 DEF a, p, q

\* A whole stretch above the others is picked as it stands.
LEMMA PickedRun ==
    ASSUME NEW S, NEW text \in Seq(S), NEW m \in Nat, NEW A, A \subseteq 1 .. m,
           NEW n \in Nat, m + n <= Len(text)
    PROVE  Picked(text, A \cup (m + 1 .. m + n)) = Picked(text, A) \o SubSeq(text, m + 1, m + n)
<1> DEFINE B(k) == A \cup (m + 1 .. m + k)
           run(k) == SubSeq(text, m + 1, m + k)
           p == Picked(text, A)
           Q == {k \in Nat : k <= n => Picked(text, B(k)) = p \o run(k)}
<1>0. Len(text) \in Nat /\ A \in SUBSET (1 .. Len(text))
  OBVIOUS
<1>1. p \in Seq(S)
  BY <1>0, PickedType
<1> HIDE DEF p
<1>2. \A k \in 0 .. n : /\ run(k) \in Seq(S) /\ Len(run(k)) = k
                        /\ \A j \in 1 .. k : run(k)[j] = text[m + j]
  <2>1. ASSUME NEW k \in 0 .. n
        PROVE  /\ run(k) \in Seq(S) /\ Len(run(k)) = k /\ \A j \in 1 .. k : run(k)[j] = text[m + j]
    <3> DEFINE lo == m + 1
               hi == m + k
    <3>1. lo \in Nat /\ hi \in Nat /\ 1 <= lo /\ lo <= hi + 1 /\ hi <= Len(text)
      BY <1>0
    <3>2. hi - lo + 1 = k /\ \A j \in 1 .. k : lo + j - 1 = m + j
      OBVIOUS
    <3> HIDE DEF lo, hi
    <3> DEFINE z == SubSeq(text, lo, hi)
    <3>3. z \in Seq(S) /\ Len(z) = hi - lo + 1 /\ \A j \in 1 .. hi - lo + 1 : z[j] = text[lo + j - 1]
      BY <3>1, SubSeqFacts
    <3> HIDE DEF z
    <3>4. z \in Seq(S) /\ Len(z) = k /\ \A j \in 1 .. k : z[j] = text[m + j]
      BY <3>2, <3>3
    <3> QED BY <3>4 DEF lo, hi, z
  <2> HIDE DEF run
  <2> QED BY <2>1
<1>3. 0 \in Q
  <2>1. B(0) = A
    OBVIOUS
  <2>2. run(0) = <<>>
    <3>1. 0 \in 0 .. n
      OBVIOUS
    <3> HIDE DEF run
    <3>2. run(0) \in Seq(S) /\ Len(run(0)) = 0
      BY <1>2, <3>1
    <3> QED BY <3>2
  <2>3. p \o <<>> = p
    BY <1>1
  <2> HIDE DEF B, run
  <2> QED BY <2>1, <2>2, <2>3 DEF p
<1>4. ASSUME NEW k \in Nat, k \in Q PROVE k + 1 \in Q
  <2>1. ASSUME k + 1 <= n PROVE Picked(text, B(k + 1)) = p \o run(k + 1)
    <3>1. /\ k \in 0 .. n /\ k + 1 \in 0 .. n /\ m + k + 1 \in 1 .. Len(text)
          /\ B(k) \subseteq 1 .. Len(text) /\ \A y \in B(k) : y < m + k + 1
      BY <1>0, <2>1
    <3>2. B(k + 1) = B(k) \cup {m + k + 1}
      OBVIOUS
    <3> HIDE DEF B
    <3>3. Picked(text, B(k + 1)) = Append(Picked(text, B(k)), text[m + k + 1])
      BY <3>1, <3>2, PickedMore
    <3>4. Picked(text, B(k)) = p \o run(k)
      <4>1. k <= n
        BY <2>1
      <4> QED BY <1>4, <4>1
    <3> HIDE DEF run
    <3> DEFINE a == run(k)
               b == run(k + 1)
               x == text[m + k + 1]
    <3>5. /\ a \in Seq(S) /\ Len(a) = k /\ \A j \in 1 .. k : a[j] = text[m + j]
          /\ b \in Seq(S) /\ Len(b) = k + 1 /\ \A j \in 1 .. k + 1 : b[j] = text[m + j]
      BY <1>2, <3>1
    <3>6. x \in S /\ m + (k + 1) = m + k + 1
      BY <3>1
    <3> HIDE DEF a, b, x
    <3>7. /\ Append(a, x) \in Seq(S) /\ Len(Append(a, x)) = k + 1 /\ Append(a, x)[k + 1] = x
          /\ \A j \in 1 .. k : Append(a, x)[j] = a[j]
      BY <3>5, <3>6, AppendFacts
    <3>8. b = Append(a, x)
      <4>1. ASSUME NEW j \in 1 .. k + 1 PROVE b[j] = Append(a, x)[j]
        <5>1. CASE j = k + 1
          <6>1. b[k + 1] = text[m + (k + 1)]
            BY <3>5
          <6> QED BY <3>6, <3>7, <5>1, <6>1 DEF x
        <5>2. CASE j \in 1 .. k
          BY <3>5, <3>7, <5>2
        <5>3. j = k + 1 \/ j \in 1 .. k
          OBVIOUS
        <5> QED BY <5>1, <5>2, <5>3
      <4> QED BY <3>5, <3>7, <4>1, SameSeq
    <3>9. With(Plus(p, a), x) = Plus(p, With(a, x))
      BY <1>1, <3>5, <3>6, WithPlus
    <3> QED BY <3>3, <3>4, <3>8, <3>9 DEF a, b, x, With, Plus
  <2> HIDE DEF B, run
  <2> QED BY <2>1
<1>5. n \in Q
  <2> HIDE DEF Q
  <2> QED BY <1>3, <1>4, NatInductionOnSet
<1>6. Picked(text, B(n)) = p \o run(n)
  <2> HIDE DEF B, run
  <2> QED BY <1>5
<1> QED BY <1>6 DEF p

LEMMA PickedOfPrefix ==
    ASSUME NEW S, NEW t \in Seq(S), NEW text \in Seq(S), Len(t) <= Len(text),
           \A i \in 1 .. Len(t) : text[i] = t[i], NEW A, A \subseteq 1 .. Len(t)
    PROVE  Picked(text, A) = Picked(t, A)
<1> DEFINE s == InOrder(A)
           p == Picked(t, A)
           q == Picked(text, A)
<1>1. A \in SUBSET (1 .. Len(text))
  <2>1. Len(t) \in Nat /\ Len(text) \in Nat
    OBVIOUS
  <2>2. 1 .. Len(t) \subseteq 1 .. Len(text)
    BY <2>1
  <2> QED BY <2>2
<1>2. /\ \A n \in 1 .. Len(s) : s[n] \in A
      /\ p \in Seq(S) /\ Len(p) = Len(s) /\ \A n \in 1 .. Len(s) : p[n] = t[s[n]]
  <2>1. A \in SUBSET (1 .. Len(t))
    OBVIOUS
  <2> QED BY <2>1, PickedType
<1>3. q \in Seq(S) /\ Len(q) = Len(s) /\ \A n \in 1 .. Len(s) : q[n] = text[s[n]]
  BY <1>1, PickedType
<1> HIDE DEF s, p, q
<1>4. \A n \in 1 .. Len(s) : q[n] = p[n]
  <2>1. \A n \in 1 .. Len(s) : s[n] \in 1 .. Len(t)
    BY <1>2
  <2>2. \A n \in 1 .. Len(s) : text[s[n]] = t[s[n]]
    BY <2>1
  <2> QED BY <1>2, <1>3, <2>2
<1>5. p = q
  BY <1>2, <1>3, <1>4, SameSeq
<1> QED BY <1>5 DEF p, q

\* The CRs before a line feed or at the end, and the characters that are not.
Lost(text) ==
    {i \in DOMAIN text : \E j \in i .. Len(text) :
        /\ \A k \in i .. j : text[k] = "CR"
        /\ j = Len(text) \/ text[j + 1] = "LF"}

Kept(text) == DOMAIN text \ Lost(text)

LEMMA RewrittenIs ==
    ASSUME NEW S, NEW text \in Seq(S), "LF" \in S
    PROVE  /\ Rewritten(text) = With(Picked(text, Kept(text)), "LF")
           /\ Kept(text) \in SUBSET (1 .. Len(text))
           /\ Picked(text, Kept(text)) \in Seq(S)
<1> DEFINE A == Kept(text)
           s == InOrder(A)
           p == Picked(text, A)
           q == [n \in DOMAIN s |-> text[s[n]]]
<1>1. A \in SUBSET (1 .. Len(text))
  BY DEF Kept
<1>2. Rewritten(text) = q \o <<"LF">>
  BY DEF Rewritten, Kept, Lost
<1> HIDE DEF A
<1>3. s \in Seq(Int) /\ Len(s) \in Nat /\ p \in Seq(S) /\ Len(p) = Len(s)
  BY <1>1, PickedType
<1>4. DOMAIN s = 1 .. Len(s)
  <2> HIDE DEF s
  <2> QED BY <1>3
<1>5. q = p
  BY <1>4 DEF Picked
<1> HIDE DEF q, p
<1>6. p \o <<"LF">> = With(p, "LF")
  BY <1>3 DEF With
<1> QED BY <1>1, <1>2, <1>3, <1>5, <1>6 DEF A, p

\* In a last line without line feeds, the CRs at its end are lost.
LEMMA LostAtEnd ==
    ASSUME NEW S, NEW text \in Seq(S), NEW m \in 0 .. Len(text), NEW n \in 0 .. Len(text) - m,
           \A i \in m + 1 .. Len(text) : text[i] # "LF",
           n > 0 => text[m + n] # "CR",
           \A i \in m + n + 1 .. Len(text) : text[i] = "CR",
           NEW i \in m + 1 .. Len(text)
    PROVE  i \in Lost(text) <=> i > m + n
<1>0. Len(text) \in Nat /\ m \in Nat /\ n \in Nat /\ i \in Nat /\ m + n <= Len(text) /\ i \in DOMAIN text
  OBVIOUS
<1>1. ASSUME i > m + n PROVE i \in Lost(text)
  <2>1. Len(text) \in i .. Len(text) /\ \A k \in i .. Len(text) : k \in m + n + 1 .. Len(text)
    BY <1>0, <1>1
  <2>2. \A k \in i .. Len(text) : text[k] = "CR"
    BY <2>1
  <2> QED BY <1>0, <2>1, <2>2 DEF Lost
<1>2. ASSUME i \in Lost(text) PROVE i > m + n
  <2>1. PICK j \in i .. Len(text) :
            (\A k \in i .. j : text[k] = "CR") /\ (j = Len(text) \/ text[j + 1] = "LF")
    BY <1>2 DEF Lost
  <2>2. j = Len(text)
    <3>1. j # Len(text) => j + 1 \in m + 1 .. Len(text)
      BY <1>0
    <3> QED BY <2>1, <3>1
  <2>3. ASSUME i <= m + n PROVE FALSE
    <3>1. m + n \in i .. j /\ n > 0
      BY <1>0, <2>2, <2>3
    <3> QED BY <2>1, <3>1
  <2> QED BY <1>0, <2>3
<1> QED BY <1>1, <1>2

\* A text of one line loses the CRs at its end.
LEMMA RewrittenLine ==
    ASSUME NEW S, "LF" \in S, NEW l \in Seq(S), Free(l, "LF")
    PROVE  Rewritten(l) = With(TrimEnd(l, {"CR"}), "LF")
<1>0. Len(l) \in Nat
  OBVIOUS
<1>1. PICK n \in 0 .. Len(l) : EndsAt(l, {"CR"}, n) /\ TrimEnd(l, {"CR"}) = SubSeq(l, 1, n)
  BY TrimEndFacts
<1>2. /\ \A i \in 0 + 1 .. Len(l) : l[i] # "LF"
      /\ n > 0 => l[0 + n] # "CR"
      /\ \A i \in 0 + n + 1 .. Len(l) : l[i] = "CR"
      /\ 0 \in 0 .. Len(l) /\ n \in 0 .. Len(l) - 0
  BY <1>0, <1>1 DEF Free, EndsAt
<1>3. \A i \in 0 + 1 .. Len(l) : i \in Lost(l) <=> i > 0 + n
  BY <1>2, LostAtEnd
<1>4. Kept(l) = {} \cup (0 + 1 .. 0 + n)
  BY <1>0, <1>3 DEF Kept
<1>5. Picked(l, {} \cup (0 + 1 .. 0 + n)) = Picked(l, {}) \o SubSeq(l, 0 + 1, 0 + n)
  <2>1. 0 \in Nat /\ {} \subseteq 1 .. 0 /\ n \in Nat /\ 0 + n <= Len(l)
    BY <1>0
  <2> QED BY ZenonT(40), <2>1, PickedRun
<1>6. Picked(l, Kept(l)) = Plus(<<>>, TrimEnd(l, {"CR"}))
  <2>1. 0 + 1 = 1 /\ 0 + n = n
    OBVIOUS
  <2> QED BY <1>1, <1>4, <1>5, <2>1, PickedNothing DEF Plus
<1>7. TrimEnd(l, {"CR"}) \in Seq(S)
  BY TrimEndFacts
<1>8. Picked(l, Kept(l)) = TrimEnd(l, {"CR"})
  BY <1>6, <1>7, PlusWithType
<1> QED BY <1>8, RewrittenIs

\* A line feed and a line add the line without the CRs at its end.
LEMMA RewrittenJoinAt ==
    ASSUME NEW S, "LF" \in S, NEW t \in Seq(S), NEW l \in Seq(S), Free(l, "LF"),
           NEW text \in Seq(S), Len(text) = Len(t) + 1 + Len(l),
           \A i \in 1 .. Len(t) : text[i] = t[i],
           text[Len(t) + 1] = "LF",
           \A i \in 1 .. Len(l) : text[Len(t) + 1 + i] = l[i]
    PROVE  Rewritten(text) = With(Plus(Rewritten(t), TrimEnd(l, {"CR"})), "LF")
<1> DEFINE m == Len(t)
           x == TrimEnd(l, {"CR"})
<1>1. m \in Nat /\ Len(l) \in Nat
  OBVIOUS
<1>2. text \in Seq(S) /\ Len(text) = m + 1 + Len(l)
  OBVIOUS
<1>4. \A i \in 1 .. Len(l) : text[m + 1 + i] = l[i]
  OBVIOUS
<1>6. \A i \in 1 .. m : text[i] = t[i]
  OBVIOUS
<1>7. text[m + 1] = "LF"
  OBVIOUS
<1>5. PICK n \in 0 .. Len(l) :
            /\ EndsAt(l, {"CR"}, n) /\ x = SubSeq(l, 1, n) /\ x \in Seq(S) /\ Len(x) = n
            /\ \A i \in 1 .. n : x[i] = l[i]
  <2> HIDE DEF x
  <2>1. PICK n \in 0 .. Len(l) : EndsAt(l, {"CR"}, n) /\ TrimEnd(l, {"CR"}) = SubSeq(l, 1, n)
    BY TrimEndFacts
  <2>2. x = SubSeq(l, 1, n)
    BY <2>1 DEF x
  <2>3. x \in Seq(S) /\ Len(x) = n /\ \A i \in 1 .. n : x[i] = l[i]
    BY <1>1, <2>2
  <2> QED BY <2>1, <2>2, <2>3
<1> HIDE DEF x, m
<1>8. /\ \A i \in m + 2 .. Len(text) : i - (m + 1) \in 1 .. Len(l) /\ text[i] = l[i - (m + 1)]
      /\ n \in Nat /\ n <= Len(l)
  <2>1. ASSUME NEW i \in m + 2 .. Len(text)
        PROVE  i - (m + 1) \in 1 .. Len(l) /\ m + 1 + (i - (m + 1)) = i
    BY ONLY <1>1, <1>2, i \in m + 2 .. Len(text)
  <2>2. \A i \in m + 2 .. Len(text) : text[i] = l[i - (m + 1)]
    BY <1>4, <2>1
  <2> QED BY <1>1, <2>1, <2>2
<1>9. \A i \in m + 2 .. Len(text) : i \in Lost(text) <=> i > m + 1 + n
  <2> DEFINE o == m + 1
  <2>1. /\ o \in 0 .. Len(text) /\ n \in 0 .. Len(text) - o
        /\ o + 1 = m + 2 /\ o = m + 1
    BY <1>1, <1>2, <1>8
  <2>2. \A i \in o + 1 .. Len(text) : text[i] # "LF"
    <3>1. \A j \in 1 .. Len(l) : l[j] # "LF"
      BY DEF Free
    <3> HIDE DEF o
    <3> QED BY ONLY <1>8, <2>1, <3>1
  <2>3. n > 0 => text[o + n] # "CR"
    <3>1. n > 0 => n \in 1 .. Len(l)
      BY <1>1, <1>8
    <3>2. n > 0 => l[n] # "CR"
      BY <1>5 DEF EndsAt
    <3> QED BY <1>4, <3>1, <3>2
  <2>4. ASSUME NEW i \in o + n + 1 .. Len(text) PROVE text[i] = "CR"
    <3>1. i \in m + 2 .. Len(text) /\ i - (m + 1) \in n + 1 .. Len(l)
      BY <1>1, <1>2, <1>8
    <3> QED BY <1>5, <1>8, <3>1 DEF EndsAt
  <2> HIDE DEF o
  <2>5. \A i \in o + 1 .. Len(text) : i \in Lost(text) <=> i > o + n
    BY <1>2, <2>1, <2>2, <2>3, <2>4, LostAtEnd
  <2> QED BY <2>1, <2>5
<1>10. m + 1 \notin Lost(text)
  <2>1. \A j \in m + 1 .. Len(text) : m + 1 \in m + 1 .. j
    BY <1>1, <1>2
  <2> QED BY <1>7, <2>1 DEF Lost
<1>11. ASSUME NEW i \in 1 .. m PROVE i \in Lost(text) <=> i \in Lost(t)
  <2>0. i \in DOMAIN text /\ i \in DOMAIN t /\ Len(text) \in Nat /\ Len(text) > m
    BY <1>1, <1>2 DEF m
  <2>1. ASSUME i \in Lost(text) PROVE i \in Lost(t)
    <3>1. PICK j \in i .. Len(text) :
              (\A k \in i .. j : text[k] = "CR") /\ (j = Len(text) \/ text[j + 1] = "LF")
      BY <2>1 DEF Lost
    <3>2. j <= m
      <4>1. ASSUME j > m PROVE FALSE
        <5>1. m + 1 \in i .. j
          BY <1>1, <2>0, <4>1
        <5> QED BY <1>7, <3>1, <5>1
      <4> QED BY <1>1, <2>0, <4>1
    <3>3. \A k \in i .. j : t[k] = "CR"
      <4>1. \A k \in i .. j : k \in 1 .. m
        BY <1>1, <3>2
      <4> QED BY <1>6, <3>1, <4>1
    <3>4. j = m \/ t[j + 1] = "LF"
      <4>1. j # m => j + 1 \in 1 .. m /\ j # Len(text)
        BY <1>1, <2>0, <3>2
      <4> QED BY <1>6, <3>1, <4>1
    <3>5. j \in i .. m
      BY <1>1, <3>2
    <3> QED BY <2>0, <3>3, <3>4, <3>5 DEF Lost, m
  <2>2. ASSUME i \in Lost(t) PROVE i \in Lost(text)
    <3>1. PICK j \in i .. m :
              (\A k \in i .. j : t[k] = "CR") /\ (j = m \/ t[j + 1] = "LF")
      BY <2>2 DEF Lost, m
    <3>2. \A k \in i .. j : text[k] = "CR"
      <4>1. \A k \in i .. j : k \in 1 .. m
        BY <1>1, <3>1
      <4> QED BY <1>6, <3>1, <4>1
    <3>3. text[j + 1] = "LF"
      <4>1. j # m => j + 1 \in 1 .. m
        BY <1>1, <3>1
      <4> QED BY <1>6, <1>7, <3>1, <4>1
    <3>4. j \in i .. Len(text)
      BY <1>1, <2>0, <3>1
    <3> QED BY <2>0, <3>2, <3>3, <3>4 DEF Lost
  <2> QED BY <2>1, <2>2
<1> DEFINE A == Kept(t)
           B == A \cup {m + 1}
<1>12. A \in SUBSET (1 .. m) /\ A = 1 .. m \ Lost(t)
  <2>1. DOMAIN t = 1 .. m
    BY DEF m
  <2> QED BY <2>1 DEF Kept
<1>13. Kept(text) = B \cup (m + 1 + 1 .. m + 1 + n)
  <2>1. Kept(text) = 1 .. Len(text) \ Lost(text)
    BY <1>2 DEF Kept
  <2> HIDE DEF A
  <2>2. ASSUME NEW i PROVE i \in Kept(text) <=> i \in B \cup (m + 1 + 1 .. m + 1 + n)
    <3>1. CASE i \in 1 .. m
      <4>1. i \in 1 .. Len(text) /\ i # m + 1 /\ i \notin m + 1 + 1 .. m + 1 + n
        BY <1>1, <1>2, <1>8, <3>1
      <4> QED BY <1>11, <1>12, <2>1, <3>1, <4>1
    <3>2. CASE i = m + 1
      <4>1. i \in 1 .. Len(text)
        BY <1>1, <1>2, <3>2
      <4> QED BY <1>10, <2>1, <3>2, <4>1
    <3>3. CASE i \in m + 2 .. Len(text)
      <4>1. i \in 1 .. Len(text) /\ i \notin 1 .. m /\ i # m + 1
            /\ (i > m + 1 + n <=> i \notin m + 1 + 1 .. m + 1 + n)
        BY <1>1, <1>2, <1>8, <3>3
      <4> QED BY <1>9, <1>12, <2>1, <3>3, <4>1
    <3>4. CASE i \notin 1 .. m /\ i # m + 1 /\ i \notin m + 2 .. Len(text)
      <4>1. i \notin 1 .. Len(text) /\ i \notin m + 1 + 1 .. m + 1 + n
        BY <1>1, <1>2, <1>8, <3>4
      <4> QED BY <1>12, <2>1, <3>4, <4>1
    <3> QED BY <3>1, <3>2, <3>3, <3>4
  <2> QED BY <2>2
<1> HIDE DEF A
<1>14. Picked(text, A) = Picked(t, A)
  <2>1. Len(t) <= Len(text) /\ A \subseteq 1 .. Len(t) /\ \A i \in 1 .. Len(t) : text[i] = t[i]
    BY <1>1, <1>2, <1>6, <1>12 DEF m
  <2> QED BY <1>2, <2>1, PickedOfPrefix
<1>15. Picked(text, B) = With(Picked(t, A), "LF")
  <2>1. A \subseteq 1 .. Len(text) /\ m + 1 \in 1 .. Len(text) /\ \A y \in A : y < m + 1
    BY <1>1, <1>2, <1>12
  <2>2. Picked(text, B) = Append(Picked(text, A), text[m + 1])
    BY <1>2, <2>1, PickedMore
  <2> QED BY <1>7, <1>14, <2>2 DEF With
<1>16. Picked(text, B) = Rewritten(t)
  BY <1>15, RewrittenIs DEF A
<1>17. SubSeq(text, m + 1 + 1, m + 1 + n) = x
  <2> DEFINE lo == m + 1 + 1
             hi == m + 1 + n
  <2>1. lo \in Nat /\ hi \in Nat /\ 1 <= lo /\ lo <= hi + 1 /\ hi <= Len(text)
    BY <1>1, <1>2, <1>8
  <2>2. hi - lo + 1 = n /\ \A j \in 1 .. n : lo + j - 1 = m + 1 + j
    BY <1>1, <1>8
  <2> HIDE DEF lo, hi
  <2> DEFINE z == SubSeq(text, lo, hi)
  <2>3. z \in Seq(S) /\ Len(z) = hi - lo + 1 /\ \A j \in 1 .. hi - lo + 1 : z[j] = text[lo + j - 1]
    BY <1>2, <2>1, SubSeqFacts
  <2> HIDE DEF z
  <2>4. \A j \in 1 .. n : j \in 1 .. Len(l)
    BY <1>1, <1>8
  <2>5. \A j \in 1 .. n : z[j] = x[j]
    BY ZenonT(40), <1>4, <1>5, <2>2, <2>3, <2>4
  <2>6. z = x
    BY <1>5, <2>2, <2>3, <2>5, SameSeq
  <2> QED BY <2>6 DEF lo, hi, z
<1>18. Picked(text, Kept(text)) = Plus(Rewritten(t), x)
  <2> DEFINE o == m + 1
  <2>1. o \in Nat /\ B \subseteq 1 .. o /\ n \in Nat /\ o + n <= Len(text)
    BY <1>1, <1>2, <1>8, <1>12
  <2>2. Kept(text) = B \cup (o + 1 .. o + n) /\ SubSeq(text, o + 1, o + n) = x
    BY <1>13, <1>17
  <2> HIDE DEF B, o
  <2>3. Picked(text, B \cup (o + 1 .. o + n)) = Picked(text, B) \o SubSeq(text, o + 1, o + n)
    BY ZenonT(40), <1>2, <2>1, PickedRun
  <2> QED BY <1>16, <2>2, <2>3 DEF Plus
<1>19. Rewritten(text) = With(Picked(text, Kept(text)), "LF")
  BY <1>2, RewrittenIs
<1> QED BY <1>18, <1>19 DEF x

LEMMA RewrittenJoin ==
    ASSUME NEW S, "LF" \in S, NEW t \in Seq(S), NEW l \in Seq(S), Free(l, "LF"),
           NEW text, text = Append(t, "LF") \o l
    PROVE  Rewritten(text) = With(Plus(Rewritten(t), TrimEnd(l, {"CR"})), "LF")
<1>1. Len(t) \in Nat /\ Len(l) \in Nat
  OBVIOUS
<1>2. text \in Seq(S) /\ Len(text) = Len(t) + 1 + Len(l)
  BY <1>1
<1>3. \A i \in 1 .. Len(t) : text[i] = t[i]
  BY <1>1
<1>4. text[Len(t) + 1] = "LF"
  BY <1>1
<1>5. \A i \in 1 .. Len(l) : text[Len(t) + 1 + i] = l[i]
  BY <1>1
<1> QED BY ONLY <1>2, <1>3, <1>4, <1>5, "LF" \in S, t \in Seq(S), l \in Seq(S), Free(l, "LF"), RewrittenJoinAt

----------------------------------------------------------------------------
(* Wire *)

Alphabetic(S) == {".", "CR", "LF"} \subseteq S

WireLine(l) == Stuffed(WithoutCR(l)) \o <<"CR">>

Dot == <<".", "CR">>

\* The lines of a text as they are written, before the dot that ends them.
WireLines(text) == [i \in 1 .. Len(Lines(text)) |-> WireLine(Lines(text)[i])]

LEMMA WrittenFacts ==
    ASSUME NEW S, Alphabetic(S), NEW text \in Seq(S)
    PROVE  /\ WireLines(text) \in Seq(Seq(S))
           /\ Len(WireLines(text)) = Len(Lines(text))
           /\ \A i \in 1 .. Len(Lines(text)) : WireLines(text)[i] = WireLine(Lines(text)[i])
           /\ Wire(text) = With(WireLines(text), Dot)
<1> DEFINE ls == Lines(text)
           ws == WireLines(text)
<1>1. ls \in Seq(Seq(S)) /\ Len(ls) \in Nat
  <2>1. "LF" \in S
    BY DEF Alphabetic
  <2>2. ls \in Seq(Seq(S))
    BY <2>1, PiecesAreFree DEF Lines
  <2> HIDE DEF ls
  <2> QED BY <2>2
<1>2. ASSUME NEW l \in Seq(S) PROVE WireLine(l) \in Seq(S)
  <2>1. {".", "CR"} \subseteq S
    BY DEF Alphabetic
  <2> QED BY <2>1, WireLineRead DEF WireLine
<1>3. \A i \in 1 .. Len(ls) : ls[i] \in Seq(S)
  <2> HIDE DEF ls
  <2> QED BY <1>1
<1>4. ws = [i \in 1 .. Len(ls) |-> WireLine(ls[i])]
  BY DEF WireLines
<1>5. Wire(text) = [i \in DOMAIN ls |-> WireLine(ls[i])] \o <<Dot>>
  BY DEF Wire, WireLine, Dot
<1> HIDE DEF ls, ws
<1>6. ws \in Seq(Seq(S)) /\ Len(ws) = Len(ls) /\ \A i \in 1 .. Len(ls) : ws[i] = WireLine(ls[i])
  <2>1. \A i \in 1 .. Len(ls) : WireLine(ls[i]) \in Seq(S)
    BY <1>2, <1>3
  <2> DEFINE T == Seq(S)
             v(i) == WireLine(ls[i])
  <2>2. \A i \in 1 .. Len(ls) : v(i) \in T
    BY <2>1
  <2>3. ws = [i \in 1 .. Len(ls) |-> v(i)]
    BY <1>4
  <2> HIDE DEF T, v
  <2>4. ws \in Seq(T) /\ Len(ws) = Len(ls) /\ \A i \in 1 .. Len(ls) : ws[i] = v(i)
    BY <1>1, <2>2, <2>3
  <2> QED BY <2>4 DEF T, v
<1>7. DOMAIN ls = 1 .. Len(ls)
  BY <1>1
<1>8. Wire(text) = ws \o <<Dot>>
  BY <1>4, <1>5, <1>7
<1>9. ws \o <<Dot>> = With(ws, Dot)
  BY <1>6 DEF With
<1> QED BY <1>6, <1>8, <1>9 DEF ls, ws

\* The lines that are written, for a text of one line and for one line more.
LEMMA WrittenLine ==
    ASSUME NEW S, Alphabetic(S), NEW l \in Seq(S), Free(l, "LF")
    PROVE  WireLines(l) = With(<<>>, WireLine(l))
<1>1. Lines(l) = <<l>>
  BY SplitFree DEF Alphabetic, Lines
<1>2. WireLines(l) = [i \in 1 .. Len(<<l>>) |-> WireLine(<<l>>[i])]
  BY <1>1 DEF WireLines
<1> DEFINE w == WireLine(l)
<1>3. Len(<<l>>) = 1 /\ <<l>>[1] = l
  BY Singleton
<1>4. WireLines(l) = [i \in 1 .. 1 |-> w]
  <2>1. \A i \in 1 .. 1 : i = 1
    OBVIOUS
  <2> QED BY <1>2, <1>3, <2>1
<1> HIDE DEF w
<1>5. [i \in 1 .. 1 |-> w] = With(<<>>, w)
  BY DEF With
<1> QED BY <1>4, <1>5 DEF w

LEMMA WrittenJoin ==
    ASSUME NEW S, Alphabetic(S), NEW t \in Seq(S), NEW l \in Seq(S), Free(l, "LF"),
           NEW text \in Seq(S), text = Append(t, "LF") \o l
    PROVE  WireLines(text) = With(WireLines(t), WireLine(l))
<1> DEFINE old == Lines(t)
           new == Lines(text)
           ws == WireLines(t)
           vs == WireLines(text)
           w == WireLine(l)
<1>1. "LF" \in S
  BY DEF Alphabetic
<1>2. new = Append(old, l)
  BY ONLY <1>1, t \in Seq(S), l \in Seq(S), Free(l, "LF"), text = Append(t, "LF") \o l, SplitJoin DEF Lines
<1>3. old \in Seq(Seq(S))
  BY <1>1, PiecesAreFree DEF Lines
<1>4. ws \in Seq(Seq(S)) /\ Len(ws) = Len(old) /\ \A i \in 1 .. Len(old) : ws[i] = WireLine(old[i])
  BY WrittenFacts
<1>5. vs \in Seq(Seq(S)) /\ Len(vs) = Len(new) /\ \A i \in 1 .. Len(new) : vs[i] = WireLine(new[i])
  BY ONLY Alphabetic(S), text \in Seq(S), WrittenFacts
<1> HIDE DEF old, new, ws, vs
<1>6. /\ Len(old) \in Nat /\ Len(new) = Len(old) + 1 /\ new[Len(old) + 1] = l
      /\ \A i \in 1 .. Len(old) : new[i] = old[i]
  BY ONLY <1>2, <1>3, l \in Seq(S)
<1>7. w \in Seq(S)
  <2>1. {".", "CR"} \subseteq S
    BY DEF Alphabetic
  <2> QED BY <2>1, WireLineRead DEF WireLine
<1> HIDE DEF w
<1> DEFINE a == Append(ws, w)
<1>8. /\ a \in Seq(Seq(S)) /\ Len(a) = Len(old) + 1 /\ a[Len(old) + 1] = w
      /\ \A i \in 1 .. Len(old) : a[i] = ws[i]
  BY ONLY <1>4, <1>7, AppendFacts
<1> HIDE DEF a
<1>9. \A i \in 1 .. Len(old) + 1 : vs[i] = a[i]
  <2>1. \A i \in 1 .. Len(old) + 1 : i \in 1 .. Len(old) \/ i = Len(old) + 1
    BY ONLY <1>6
  <2>2. \A i \in 1 .. Len(old) + 1 : vs[i] = WireLine(new[i])
    BY ONLY <1>5, <1>6
  <2>3. ASSUME NEW i \in 1 .. Len(old) PROVE vs[i] = a[i]
    <3>1. i \in 1 .. Len(old) + 1
      BY ONLY <1>6, i \in 1 .. Len(old)
    <3>2. vs[i] = WireLine(new[i]) /\ new[i] = old[i] /\ a[i] = WireLine(old[i])
      BY ONLY <1>4, <1>6, <1>8, <2>2, <3>1, i \in 1 .. Len(old)
    <3> QED BY <3>2
  <2>4. vs[Len(old) + 1] = a[Len(old) + 1]
    <3>1. Len(old) + 1 \in 1 .. Len(old) + 1
      BY ONLY <1>6
    <3>2. vs[Len(old) + 1] = WireLine(l)
      BY ONLY <1>6, <2>2, <3>1
    <3> QED BY <1>8, <3>2 DEF w
  <2> QED BY <2>1, <2>3, <2>4
<1>10. vs = a
  BY ONLY <1>5, <1>6, <1>8, <1>9, SameSeq
<1> QED BY <1>10 DEF vs, a, ws, w, With

\* A dot alone ends the text, and nothing before it does.
LEMMA DotEnds == EndsText(Dot) /\ ~TooLong(Dot)
<1>1. Dot \in Seq({".", "CR"}) /\ Len(Dot) = 2 /\ Dot[1] = "." /\ Dot[2] = "CR"
  BY DEF Dot
<1>2. ~TooLong(Dot)
  BY <1>1, BoundsAssumption DEF TooLong
<1>3. EndsAt(Dot, {"CR"}, 1)
  <2>1. \A i \in 1 + 1 .. 2 : i = 2
    OBVIOUS
  <2> QED BY <1>1, <2>1 DEF EndsAt
<1> DEFINE d == Dot
<1> HIDE DEF d
<1>4. TrimEnd(d, {"CR"}) = SubSeq(d, 1, 1)
  BY <1>1, <1>3, TrimEndIs DEF d
<1>5. SubSeq(d, 1, 1) = <<".">>
  <2>1. d \in Seq({".", "CR"}) /\ Len(d) = 2 /\ d[1] = "."
    BY <1>1 DEF d
  <2> DEFINE y == SubSeq(d, 1, 1)
             z == <<".">>
  <2>2. y \in Seq({".", "CR"}) /\ Len(y) = 1 /\ y[1] = "."
    BY <2>1
  <2>3. z \in Seq({".", "CR"}) /\ Len(z) = 1 /\ z[1] = "."
    OBVIOUS
  <2> HIDE DEF y, z
  <2>4. \A j \in 1 .. 1 : y[j] = z[j]
    <3>1. \A j \in 1 .. 1 : j = 1
      OBVIOUS
    <3> QED BY <2>2, <2>3, <3>1
  <2>5. y = z
    BY ONLY <2>2, <2>3, <2>4, SameSeq
  <2> QED BY <2>5 DEF y, z
<1> QED BY <1>2, <1>4, <1>5 DEF EndsText, Content, d

LEMMA ReadToTheDot ==
    ASSUME NEW S, Alphabetic(S), NEW lines \in Seq(Seq(S)),
           \A i \in 1 .. Len(lines) : ~EndsText(lines[i])
    PROVE  /\ Len(With(lines, Dot)) = Len(lines) + 1
           /\ EndOfText(With(lines, Dot)) = Len(lines) + 1
           /\ ReadText(With(lines, Dot)) = Received(lines)
           /\ \A i \in 1 .. Len(lines) : With(lines, Dot)[i] = lines[i]
           /\ With(lines, Dot)[Len(lines) + 1] = Dot
           /\ DOMAIN With(lines, Dot) = 1 .. Len(lines) + 1
<1> DEFINE wire == With(lines, Dot)
           m == Len(lines)
           E == {i \in DOMAIN wire : EndsText(wire[i])} \cup {Len(wire) + 1}
<1>1. Dot \in Seq(S)
  BY DEF Alphabetic, Dot
<1>2. /\ wire \in Seq(Seq(S)) /\ Len(wire) = m + 1 /\ m \in Nat /\ wire[m + 1] = Dot
      /\ \A i \in 1 .. m : wire[i] = lines[i]
  BY <1>1, AppendFacts DEF With
<1> HIDE DEF wire, m
<1>3. DOMAIN wire = 1 .. m + 1
  BY <1>2
<1>4. m + 1 \in E /\ \A i \in E : m + 1 <= i
  <2>1. m + 1 \in E
    BY <1>2, <1>3, DotEnds
  <2>2. ASSUME NEW i \in E PROVE m + 1 <= i
    <3>1. CASE i \in 1 .. m
      <4>1. ~EndsText(wire[i])
        BY <1>2, <3>1 DEF m
      <4> QED BY <1>2, <1>3, <3>1, <4>1
    <3>2. CASE i \notin 1 .. m
      BY <1>2, <1>3, <3>2
    <3> QED BY <3>1, <3>2
  <2> QED BY <2>1, <2>2
<1>5. E \subseteq 0 .. m + 2 /\ E # {} /\ m + 2 \in Nat
  <2>1. \A i \in E : i \in 1 .. m + 1 \/ i = m + 2
    BY <1>2, <1>3
  <2> HIDE DEF E
  <2>2. \A i \in E : i \in 0 .. m + 2
    BY <1>2, <2>1
  <2> QED BY <1>2, <1>4, <2>2
<1>6. EndOfText(wire) = Min(E)
  BY DEF EndOfText
<1> HIDE DEF E
<1>7. Min(E) = m + 1
  <2>1. Min(E) \in E /\ \A y \in E : Min(E) <= y
    BY <1>5, MinFacts
  <2>2. Min(E) \in Int
    <3>1. Min(E) \in 0 .. m + 2
      BY <1>5, <2>1
    <3> HIDE DEF E
    <3> DEFINE e == Min(E)
    <3>2. e \in 0 .. m + 2
      BY <3>1
    <3> HIDE DEF e
    <3>3. e \in Int
      BY <1>2, <3>2
    <3> QED BY <3>3 DEF e
  <2> QED BY <1>2, <1>4, <2>1, <2>2
<1>8. SubSeq(wire, 1, EndOfText(wire) - 1) = lines
  <2>1. EndOfText(wire) - 1 = m /\ m <= Len(wire) /\ 1 <= m + 1 /\ m - 1 + 1 = m
    BY <1>2, <1>6, <1>7
  <2> DEFINE z == SubSeq(wire, 1, m)
  <2>2. z \in Seq(Seq(S)) /\ Len(z) = m - 1 + 1 /\ \A k \in 1 .. m - 1 + 1 : z[k] = wire[1 + k - 1]
    BY ONLY <1>2, <2>1, SubSeqFacts
  <2> HIDE DEF z
  <2>3. \A k \in 1 .. m : z[k] = lines[k]
    <3>1. \A k \in 1 .. m : 1 + k - 1 = k
      BY <1>2
    <3> QED BY <1>2, <2>1, <2>2, <3>1
  <2>4. z = lines
    BY <1>2, <2>1, <2>2, <2>3, SameSeq DEF m
  <2> QED BY <2>1, <2>4 DEF z
<1>9. ReadText(wire) = Received(lines)
  BY <1>8 DEF ReadText
<1> QED BY <1>2, <1>3, <1>6, <1>7, <1>9 DEF wire, m

----------------------------------------------------------------------------
(* The text that is relayed *)

\* The reading of the lines so far and the text they stand for: tooLong says
\* that one of the lines is.
InStep(S, read, text, tooLong) ==
    /\ read \in Readings(S) /\ text \in Seq(S)
    /\ read.tooLarge <=> (tooLong \/ Len(text) > MaxData)
    /\ ~read.tooLarge => read.body = text

LEMMA WireLineKeepsStep ==
    ASSUME NEW S, Alphabetic(S), NEW l \in Seq(S), NEW tooLong, tooLong \in BOOLEAN,
           NEW read, NEW text, InStep(S, read, text, tooLong)
    PROVE  InStep(S, Extend(read, WireLine(l)), With(Plus(text, TrimEnd(l, {"CR"})), "LF"),
                  tooLong \/ TooLong(WireLine(l)))
<1> DEFINE w == WireLine(l)
           x == TrimEnd(l, {"CR"})
           more == Unstuffed(Content(w))
           next == Extend(read, w)
           new == With(Plus(text, x), "LF")
<1>1. w \in Seq(S) /\ (~TooLong(w) => more = x)
  <2>1. {".", "CR"} \subseteq S
    BY DEF Alphabetic
  <2> QED BY <2>1, WireLineRead DEF WireLine
<1>2. x \in Seq(S)
  BY TrimEndFacts
<1>3. "LF" \in S
  BY DEF Alphabetic
<1>4. read \in Readings(S) /\ read.body \in Seq(S) /\ text \in Seq(S)
  BY DEF InStep, Readings
<1> HIDE DEF w, x
<1>5. /\ next \in Readings(S)
      /\ more \in Seq(S)
      /\ next.tooLarge <=> \/ read.tooLarge \/ TooLong(w)
                           \/ Len(read.body) + Len(more) + 1 > MaxData
      /\ ~next.tooLarge => next.body = Append(read.body \o more, "LF")
  BY <1>1, <1>3, <1>4, ExtendFacts
<1> HIDE DEF next, more
<1>6. ~next.tooLarge => next.body = With(Plus(read.body, more), "LF")
  BY <1>5 DEF With, Plus
<1>7. Plus(text, x) \in Seq(S) /\ Len(Plus(text, x)) = Len(text) + Len(x)
  BY <1>2, <1>4, PlusWithType
<1>8. new \in Seq(S) /\ Len(new) = Len(Plus(text, x)) + 1
  BY <1>3, <1>7, PlusWithType
<1>9. Len(text) \in Nat /\ Len(x) \in Nat /\ Len(new) = Len(text) + Len(x) + 1
  <2>1. Len(text) \in Nat /\ Len(x) \in Nat
    BY ONLY <1>2, <1>4
  <2> QED BY <1>7, <1>8, <2>1
<1> HIDE DEF new
<1>10. /\ read.tooLarge <=> (tooLong \/ Len(text) > MaxData)
       /\ ~read.tooLarge => read.body = text
  BY DEF InStep
<1>11. next.tooLarge <=> ((tooLong \/ TooLong(w)) \/ Len(new) > MaxData)
  <2>1. CASE read.tooLarge
    <3>1. Len(text) > MaxData => Len(new) > MaxData
      BY <1>9, BoundsAssumption
    <3> QED BY <1>5, <1>10, <2>1, <3>1
  <2>2. CASE ~read.tooLarge /\ TooLong(w)
    BY <1>5, <2>2
  <2>3. CASE ~read.tooLarge /\ ~TooLong(w)
    <3>1. read.body = text /\ more = x /\ ~tooLong
      BY <1>1, <1>10, <2>3
    <3>2. Len(read.body) + Len(more) + 1 = Len(new)
      BY <1>9, <3>1
    <3> QED BY <1>5, <2>3, <3>1, <3>2
  <2> QED BY <2>1, <2>2, <2>3
<1>12. ASSUME ~next.tooLarge PROVE next.body = new
  <2>1. read.body = text /\ more = x
    BY <1>1, <1>5, <1>10, <1>12
  <2> QED BY <1>6, <1>12, <2>1 DEF new
<1> QED BY <1>5, <1>8, <1>11, <1>12 DEF InStep, next, new, w, x

\* Some line that is written is too long.
SomeTooLong(lines) == \E i \in 1 .. Len(lines) : TooLong(lines[i])

LEMMA SomeTooLongMore ==
    ASSUME NEW S, NEW lines \in Seq(S), NEW w \in S
    PROVE  SomeTooLong(With(lines, w)) <=> (SomeTooLong(lines) \/ TooLong(w))
<1> DEFINE m == Len(lines)
           a == With(lines, w)
<1>1. /\ m \in Nat /\ Len(a) = m + 1 /\ a[m + 1] = w /\ \A i \in 1 .. m : a[i] = lines[i]
  BY AppendFacts DEF With
<1> HIDE DEF m, a
<1>2. ASSUME NEW i \in 1 .. m + 1 PROVE i \in 1 .. m \/ i = m + 1
  BY <1>1
<1>3. m + 1 \in 1 .. m + 1 /\ \A i \in 1 .. m : i \in 1 .. m + 1
  BY <1>1
<1>4. SomeTooLong(a) <=> \E i \in 1 .. m + 1 : TooLong(a[i])
  BY <1>1 DEF SomeTooLong
<1>5. SomeTooLong(lines) <=> \E i \in 1 .. m : TooLong(lines[i])
  BY DEF SomeTooLong, m
<1>6. (\E i \in 1 .. m + 1 : TooLong(a[i])) <=> ((\E i \in 1 .. m : TooLong(lines[i])) \/ TooLong(w))
  BY <1>1, <1>2, <1>3
<1> QED BY <1>4, <1>5, <1>6 DEF a

\* No line of what is written ends the text, and the lines add up to the text as
\* it is rewritten.
IsReadBack(S, text) ==
    /\ \A i \in 1 .. Len(WireLines(text)) : ~EndsText(WireLines(text)[i])
    /\ InStep(S, Received(WireLines(text)), Rewritten(text), SomeTooLong(WireLines(text)))

LEMMA WrittenLinesDoNotEnd ==
    ASSUME NEW S, Alphabetic(S), NEW text \in Seq(S), NEW i \in 1 .. Len(WireLines(text))
    PROVE  ~EndsText(WireLines(text)[i])
<1>1. /\ i \in 1 .. Len(Lines(text)) /\ WireLines(text)[i] = WireLine(Lines(text)[i])
  BY WrittenFacts
<1> DEFINE ls == Lines(text)
<1>2. ls \in Seq(Seq(S))
  <2>1. "LF" \in S
    BY DEF Alphabetic
  <2> QED BY <2>1, PiecesAreFree DEF Lines
<1> HIDE DEF ls
<1>3. ls[i] \in Seq(S)
  <2>1. i \in 1 .. Len(ls)
    BY <1>1 DEF ls
  <2> QED BY <1>2, <2>1
<1>4. {".", "CR"} \subseteq S
  BY DEF Alphabetic
<1>5. ~EndsText(WireLine(ls[i]))
  BY <1>3, <1>4, WireLineRead DEF WireLine
<1> QED BY <1>1, <1>5 DEF ls

LEMMA WrittenTextIsReadBack ==
    ASSUME NEW S, Alphabetic(S), NEW text \in Seq(S)
    PROVE  IsReadBack(S, text)
<1>0. "LF" \in S
  BY DEF Alphabetic
<1> DEFINE Good(t) == InStep(S, Received(WireLines(t)), Rewritten(t), SomeTooLong(WireLines(t)))
           P == {t \in Seq(S) : Good(t)}
<1>1. ASSUME NEW l \in Seq(S), Free(l, "LF") PROVE l \in P
  <2> DEFINE w == WireLine(l)
             none == <<>>
  <2>1. InStep(S, Start, none, FALSE)
    <3>1. none \in Seq(S) /\ Len(none) = 0
      OBVIOUS
    <3> HIDE DEF none
    <3>2. Start = [body |-> none, tooLarge |-> FALSE]
      BY DEF Start, none
    <3> QED BY <3>1, <3>2, BoundsAssumption DEF InStep, Readings
  <2>2. w \in Seq(S)
    <3>1. {".", "CR"} \subseteq S
      BY DEF Alphabetic
    <3> QED BY <3>1, WireLineRead DEF WireLine
  <2>3. WireLines(l) = With(<<>>, w)
    BY <1>1, WrittenLine
  <2>4. Received(WireLines(l)) = Extend(Start, w)
    <3>1. <<>> \in Seq(Seq(S))
      OBVIOUS
    <3>2. Received(Append(<<>>, w)) = Extend(Received(<<>>), w)
      BY <2>2, <3>1, ReceivedMore
    <3> QED BY <2>3, <3>2, ReceivedNothing DEF With
  <2>5. Rewritten(l) = With(Plus(<<>>, TrimEnd(l, {"CR"})), "LF")
    <3>1. TrimEnd(l, {"CR"}) \in Seq(S)
      BY TrimEndFacts
    <3>2. Plus(<<>>, TrimEnd(l, {"CR"})) = TrimEnd(l, {"CR"})
      BY <3>1, PlusWithType
    <3> QED BY <1>0, <1>1, <3>2, RewrittenLine
  <2>6. SomeTooLong(WireLines(l)) <=> (FALSE \/ TooLong(w))
    <3>1. <<>> \in Seq(Seq(S)) /\ ~SomeTooLong(<<>>)
      BY DEF SomeTooLong
    <3> QED BY <2>2, <2>3, <3>1, SomeTooLongMore
  <2> HIDE DEF w
  <2>7. InStep(S, Extend(Start, w), With(Plus(none, TrimEnd(l, {"CR"})), "LF"), FALSE \/ TooLong(w))
    BY <2>1, WireLineKeepsStep DEF w
  <2>8. InStep(S, Received(WireLines(l)), Rewritten(l), FALSE \/ TooLong(w))
    BY <2>4, <2>5, <2>7
  <2>9. Good(l)
    BY <2>6, <2>8 DEF InStep
  <2> QED BY <2>9
<1>2. ASSUME NEW t \in Seq(S), NEW l \in Seq(S), t \in P, Free(l, "LF")
      PROVE  Append(t, "LF") \o l \in P
  <2> DEFINE u == Append(t, "LF") \o l
             w == WireLine(l)
             ws == WireLines(t)
  <2>1. u \in Seq(S)
    BY <1>0
  <2>2. w \in Seq(S)
    <3>1. {".", "CR"} \subseteq S
      BY DEF Alphabetic
    <3> QED BY <3>1, WireLineRead DEF WireLine
  <2>3. ws \in Seq(Seq(S))
    BY WrittenFacts
  <2>4. WireLines(u) = With(ws, w)
    <3> DEFINE v == u
    <3>1. v = Append(t, "LF") \o l /\ v \in Seq(S)
      BY <2>1
    <3> HIDE DEF v
    <3>2. WireLines(v) = With(WireLines(t), WireLine(l))
      BY ZenonT(40), <1>2, <3>1, WrittenJoin
    <3> QED BY <3>2 DEF v
  <2>5. Rewritten(u) = With(Plus(Rewritten(t), TrimEnd(l, {"CR"})), "LF")
    <3> DEFINE v == u
    <3>1. v = Append(t, "LF") \o l
      OBVIOUS
    <3> HIDE DEF v
    <3>2. Rewritten(v) = With(Plus(Rewritten(t), TrimEnd(l, {"CR"})), "LF")
      BY <1>0, <1>2, <3>1, RewrittenJoin
    <3> QED BY <3>2 DEF v
  <2>6. Good(t)
    BY <1>2
  <2> HIDE DEF u, w, ws
  <2>7. Received(WireLines(u)) = Extend(Received(ws), w)
    <3>1. Received(Append(ws, w)) = Extend(Received(ws), w)
      BY <2>2, <2>3, ReceivedMore
    <3> QED BY <2>4, <3>1 DEF With
  <2>8. SomeTooLong(WireLines(u)) <=> (SomeTooLong(ws) \/ TooLong(w))
    BY <2>2, <2>3, <2>4, SomeTooLongMore
  <2>9. InStep(S, Extend(Received(ws), w), With(Plus(Rewritten(t), TrimEnd(l, {"CR"})), "LF"),
               SomeTooLong(ws) \/ TooLong(w))
    <3>1. SomeTooLong(ws) \in BOOLEAN
      BY DEF SomeTooLong
    <3>2. InStep(S, Received(ws), Rewritten(t), SomeTooLong(ws))
      BY <2>6 DEF ws
    <3> QED BY <3>1, <3>2, WireLineKeepsStep DEF w
  <2>10. InStep(S, Received(WireLines(u)), Rewritten(u), SomeTooLong(ws) \/ TooLong(w))
    BY <2>5, <2>7, <2>9
  <2>11. Good(u)
    BY <2>8, <2>10 DEF InStep
  <2> QED BY <2>1, <2>11 DEF u
<1>3. Seq(S) \subseteq P
  <2> HIDE DEF P
  <2> QED BY ONLY <1>1, <1>2, PieceInduction
<1>4. Good(text)
  <2> HIDE DEF Good
  <2> QED BY <1>3
<1>5. \A i \in 1 .. Len(WireLines(text)) : ~EndsText(WireLines(text)[i])
  BY WrittenLinesDoNotEnd
<1> QED BY <1>4, <1>5 DEF IsReadBack

LEMMA RelayedOverAlphabet ==
    ASSUME NEW S, Alphabetic(S), NEW text \in Seq(S)
    PROVE  /\ RelayedTextIsRead(text)
           /\ ReadText(Wire(text)) = Received(WireLines(text))
           /\ (\E i \in DOMAIN Wire(text) : TooLong(Wire(text)[i])) <=> SomeTooLong(WireLines(text))
           /\ InStep(S, Received(WireLines(text)), Rewritten(text), SomeTooLong(WireLines(text)))
<1> DEFINE ws == WireLines(text)
           m == Len(ws)
           wire == With(ws, Dot)
<1>1. ws \in Seq(Seq(S)) /\ Wire(text) = wire
  BY WrittenFacts
<1>2. /\ \A i \in 1 .. m : ~EndsText(ws[i])
      /\ InStep(S, Received(ws), Rewritten(text), SomeTooLong(ws))
  BY WrittenTextIsReadBack DEF IsReadBack
<1> HIDE DEF ws
<1>3. /\ Len(wire) = m + 1 /\ EndOfText(wire) = m + 1 /\ ReadText(wire) = Received(ws)
      /\ \A i \in 1 .. m : wire[i] = ws[i]
      /\ wire[m + 1] = Dot
      /\ DOMAIN wire = 1 .. m + 1
  BY <1>1, <1>2, ReadToTheDot
<1>4. m \in Nat
  BY <1>1
<1> HIDE DEF wire, m
<1>5. (\E i \in DOMAIN wire : TooLong(wire[i])) <=> SomeTooLong(ws)
  <2>1. \A i \in 1 .. m + 1 : i \in 1 .. m \/ i = m + 1
    BY <1>4
  <2>2. \A i \in 1 .. m : i \in 1 .. m + 1
    BY <1>4
  <2>3. SomeTooLong(ws) <=> \E i \in 1 .. m : TooLong(ws[i])
    BY DEF SomeTooLong, m
  <2> QED BY <1>3, <2>1, <2>2, <2>3, DotEnds
<1>6. ReadText(wire).tooLarge <=> ((\E i \in DOMAIN wire : TooLong(wire[i])) \/ Len(Rewritten(text)) > MaxData)
  BY <1>2, <1>3, <1>5 DEF InStep
<1>7. ~ReadText(wire).tooLarge => ReadText(wire).body = Rewritten(text)
  BY <1>2, <1>3 DEF InStep
<1>8. RelayedTextIsRead(text)
  BY <1>1, <1>3, <1>6, <1>7 DEF RelayedTextIsRead
<1> QED BY <1>1, <1>2, <1>3, <1>5, <1>8 DEF ws

\* Whatever text diamy-submitd relays, diamy-mxd reads all of it and nothing more,
\* or refuses it for its size (dot_stuff_for_wire, read_data_bounded).
THEOREM RelayedTextsAreRead ==
    ASSUME NEW S, NEW text \in Seq(S)
    PROVE  RelayedTextIsRead(text)
<1> DEFINE T == S \cup {".", "CR", "LF"}
<1>1. Alphabetic(T)
  BY DEF Alphabetic
<1>2. text \in Seq(T)
  OBVIOUS
<1> HIDE DEF T
<1> QED BY <1>1, <1>2, RelayedOverAlphabet

----------------------------------------------------------------------------
(* The text a client submits *)

Piece(line) == Unstuffed(Content(line))

ConformingLine(line) ==
    IsSuffix(<<"CR">>, line) /\ (IsPrefix(<<".">>, line) => IsPrefix(<<".", ".">>, line))

\* What the reader makes of a line has no CR at its end, and the line of a
\* conforming client is not longer when it is written again.
LEMMA PieceFacts ==
    ASSUME NEW S, Alphabetic(S), NEW line \in Seq(S), Free(line, "LF"),
           NEW x, x = Piece(line)
    PROVE  /\ x \in Seq(S) /\ Free(x, "LF") /\ TrimEnd(x, {"CR"}) = x
           /\ ~TooLong(line) /\ ConformingLine(line) => ~TooLong(WireLine(x))
<1> DEFINE c == Content(line)
<1>0. Len(line) \in Nat
  OBVIOUS
<1>1. PICK k \in 0 .. Len(line) :
            /\ c \in Seq(S) /\ Len(c) = k
            /\ \A i \in 1 .. k : c[i] = line[i]
            /\ k > 0 => c[k] # "CR"
            /\ ~TooLong(line) => \A i \in k + 1 .. Len(line) : line[i] = "CR"
  <2>1. CASE TooLong(line)
    <3>1. c = <<>>
      BY <2>1 DEF Content
    <3>2. c \in Seq(S) /\ Len(c) = 0
      BY <3>1
    <3> HIDE DEF c
    <3> QED BY <1>0, <2>1, <3>2
  <2>2. CASE ~TooLong(line)
    <3> DEFINE y == TrimEnd(line, {"CR"})
    <3>1. c = y
      BY <2>2 DEF Content
    <3>2. PICK k \in 0 .. Len(line) :
                /\ EndsAt(line, {"CR"}, k) /\ y \in Seq(S) /\ Len(y) = k
                /\ \A i \in 1 .. k : y[i] = line[i]
      BY TrimEndFacts
    <3> HIDE DEF c, y
    <3>3. k > 0 => y[k] # "CR"
      BY <1>0, <3>2 DEF EndsAt
    <3>4. \A i \in k + 1 .. Len(line) : line[i] = "CR"
      BY <3>2 DEF EndsAt
    <3> QED BY <3>1, <3>2, <3>3, <3>4
  <2> QED BY <2>1, <2>2
<1> HIDE DEF c
<1> DEFINE d == IsPrefix(<<".", ".">>, c)
           n == IF d THEN k - 1 ELSE k
           f == IF d THEN 1 ELSE 0
<1>2. /\ d <=> k >= 2 /\ c[1] = "." /\ c[2] = "."
  BY <1>1, TwoDots
<1>3. x \in Seq(S) /\ Len(x) = n /\ \A i \in 1 .. n : x[i] = c[i + f]
  <2>1. CASE d
    <3>1. x = Tail(c)
      BY <2>1 DEF Unstuffed, Piece, c
    <3>2. Tail(c) \in Seq(S) /\ Len(Tail(c)) = k - 1 /\ \A i \in 1 .. k - 1 : Tail(c)[i] = c[i + 1]
      BY ONLY <1>1, <1>2, <2>1
    <3> HIDE DEF d
    <3> QED BY <2>1, <3>1, <3>2
  <2>2. CASE ~d
    <3>1. x = c
      BY <2>2 DEF Unstuffed, Piece, c
    <3> HIDE DEF d
    <3>2. n = k /\ f = 0
      BY <2>2
    <3> QED BY <1>1, <3>1, <3>2
  <2> QED BY <2>1, <2>2
<1>4. n \in Nat /\ n + f = k /\ k \in Nat /\ f \in {0, 1}
  BY <1>0, <1>1, <1>2
<1> HIDE DEF d, n, f
<1>5. \A i \in 1 .. n : i + f \in 1 .. k /\ i + f \in 1 .. Len(line)
  BY <1>0, <1>1, <1>4
<1>6. \A i \in 1 .. n : x[i] = line[i + f]
  BY <1>1, <1>3, <1>5
<1>7. Free(x, "LF")
  BY <1>3, <1>5, <1>6 DEF Free
<1>8. n > 0 => x[n] # "CR"
  <2>1. n > 0 => n \in 1 .. n /\ k > 0
    BY <1>4
  <2> QED BY <1>1, <1>3, <1>4, <2>1
<1>9. EndsAt(x, {"CR"}, n)
  <2>1. \A i \in n + 1 .. n : FALSE
    BY <1>4
  <2> QED BY <1>3, <1>4, <1>8, <2>1 DEF EndsAt
<1>10. TrimEnd(x, {"CR"}) = x
  <2>1. TrimEnd(x, {"CR"}) = SubSeq(x, 1, n)
    BY <1>3, <1>9, TrimEndIs
  <2> QED BY <1>3, <2>1, WholeSeq
<1>11. WithoutCR(x) = x
  BY <1>3, <1>4, <1>8, EndsWithCR DEF WithoutCR
<1>12. ASSUME ~TooLong(line), ConformingLine(line) PROVE ~TooLong(WireLine(x))
  <2>1. Len(line) >= 1 /\ line[Len(line)] = "CR"
    BY <1>12, EndsWithCR DEF ConformingLine
  <2>2. (Len(line) >= 1 /\ line[1] = ".") => (Len(line) >= 2 /\ line[1] = "." /\ line[2] = ".")
    BY <1>12, OneDot, TwoDots DEF ConformingLine
  <2>3. k < Len(line)
    <3>1. Len(line) \in 1 .. Len(line)
      BY <1>0, <2>1
    <3>2. k # Len(line)
      BY <1>1, <2>1, <3>1
    <3> QED BY <1>0, <1>1, <3>2
  <2>4. ASSUME n >= 1, x[1] = "." PROVE d
    <3>1. CASE f = 1
      BY <3>1 DEF f
    <3>2. CASE f = 0
      <4>1. line[1] = "."
        BY <1>4, <1>6, <2>4, <3>2
      <4>2. Len(line) >= 2 /\ line[2] = "."
        BY <2>1, <2>2, <4>1
      <4>3. k >= 2
        <5>1. ASSUME k < 2 PROVE FALSE
          <6>1. 2 \in k + 1 .. Len(line)
            BY <1>0, <1>4, <4>2, <5>1
          <6> QED BY <1>1, <1>12, <4>2, <6>1
        <5> QED BY <1>4, <5>1
      <4>4. c[1] = "." /\ c[2] = "."
        <5>1. 1 \in 1 .. k /\ 2 \in 1 .. k
          BY <1>4, <4>3
        <5> QED BY <1>1, <4>1, <4>2, <5>1
      <4> QED BY <1>2, <4>3, <4>4
    <3> QED BY <1>4, <3>1, <3>2
  <2> DEFINE s == Stuffed(x)
  <2>5. s \in Seq(S) /\ Len(s) \in Nat /\ Len(s) <= k
    <3>0. "." \in S
      BY DEF Alphabetic
    <3>1. CASE Len(x) >= 1 /\ x[1] = "."
      <4>1. s \in Seq(S) /\ Len(s) = Len(x) + 1
        BY <1>3, <3>0, <3>1, StuffedFacts
      <4>2. f = 1
        BY <1>3, <2>4, <3>1 DEF f
      <4> HIDE DEF s
      <4> QED BY <1>3, <1>4, <4>1, <4>2
    <3>2. CASE ~(Len(x) >= 1 /\ x[1] = ".")
      <4>1. s = x
        BY <1>3, <3>0, <3>2, StuffedFacts
      <4> HIDE DEF s
      <4> QED BY <1>3, <1>4, <4>1
    <3> QED BY <3>1, <3>2
  <2>6. WireLine(x) = s \o <<"CR">>
    BY <1>11 DEF WireLine
  <2> HIDE DEF s
  <2>7. Len(WireLine(x)) = Len(s) + 1
    BY <2>5, <2>6
  <2>8. Len(line) <= MaxLine
    BY <1>0, <1>12, BoundsAssumption DEF TooLong
  <2>9. Len(WireLine(x)) <= MaxLine
    BY <1>0, <1>4, <2>3, <2>5, <2>7, <2>8, BoundsAssumption
  <2>10. Len(WireLine(x)) \in Nat
    BY <2>5, <2>7
  <2> QED BY <2>9, <2>10, BoundsAssumption DEF TooLong
<1> QED BY <1>3, <1>7, <1>10, <1>12

\* A text that is rewritten with one line feed more, and whose lines are short
\* enough if the lines it came in are.
Settled(S, text, short) ==
    /\ text \in Seq(S)
    /\ Rewritten(text) = With(text, "LF")
    /\ short => ~SomeTooLong(WireLines(text))

LEMMA SettledLine ==
    ASSUME NEW S, Alphabetic(S), NEW x \in Seq(S), Free(x, "LF"), TrimEnd(x, {"CR"}) = x,
           NEW short, short => ~TooLong(WireLine(x))
    PROVE  Settled(S, x, short)
<1>1. Rewritten(x) = With(x, "LF")
  BY RewrittenLine DEF Alphabetic
<1>2. WireLine(x) \in Seq(S)
  BY WireLineRead DEF Alphabetic, WireLine
<1>3. <<>> \in Seq(Seq(S)) /\ ~SomeTooLong(<<>>)
  BY DEF SomeTooLong
<1>4. SomeTooLong(With(<<>>, WireLine(x))) <=> (SomeTooLong(<<>>) \/ TooLong(WireLine(x)))
  BY <1>2, <1>3, SomeTooLongMore
<1>5. WireLines(x) = With(<<>>, WireLine(x))
  BY WrittenLine
<1> QED BY <1>1, <1>3, <1>4, <1>5 DEF Settled

LEMMA SettledMore ==
    ASSUME NEW S, Alphabetic(S), NEW x \in Seq(S), Free(x, "LF"), TrimEnd(x, {"CR"}) = x,
           NEW short, short => ~TooLong(WireLine(x)), NEW t, Settled(S, t, short)
    PROVE  Settled(S, Plus(With(t, "LF"), x), short)
<1> DEFINE u == Append(t, "LF") \o x
<1>0. "LF" \in S /\ t \in Seq(S)
  BY DEF Alphabetic, Settled
<1>1. u = Plus(With(t, "LF"), x) /\ u \in Seq(S)
  BY <1>0 DEF Plus, With
<1>2. u = Append(t, "LF") \o x
  OBVIOUS
<1> HIDE DEF u
<1>3. Rewritten(u) = With(Plus(Rewritten(t), TrimEnd(x, {"CR"})), "LF")
  BY ONLY <1>0, <1>2, x \in Seq(S), Free(x, "LF"), RewrittenJoin
<1>4. Rewritten(u) = With(u, "LF")
  BY <1>1, <1>3 DEF Settled
<1>5. WireLine(x) \in Seq(S)
  BY WireLineRead DEF Alphabetic, WireLine
<1>6. WireLines(u) = With(WireLines(t), WireLine(x))
  BY ONLY <1>0, <1>1, <1>2, x \in Seq(S), Free(x, "LF"), Alphabetic(S), WrittenJoin
<1>7. WireLines(t) \in Seq(Seq(S))
  BY ONLY <1>0, Alphabetic(S), WrittenFacts
<1>8. SomeTooLong(With(WireLines(t), WireLine(x))) <=> (SomeTooLong(WireLines(t)) \/ TooLong(WireLine(x)))
  BY ONLY <1>5, <1>7, SomeTooLongMore
<1>9. short => ~SomeTooLong(WireLines(u))
  BY <1>6, <1>8 DEF Settled
<1>10. Settled(S, u, short)
  BY <1>1, <1>4, <1>9 DEF Settled
<1> QED BY <1>1, <1>10

\* What a reader has put together: nothing, or a settled text and its line feed.
Sound(S, body, short) ==
    body = <<>> \/ \E t : Settled(S, t, short) /\ body = With(t, "LF")

AllFree(lines) == \A i \in 1 .. Len(lines) : Free(lines[i], "LF")

AllConforming(lines) == \A i \in 1 .. Len(lines) : ConformingLine(lines[i])

LEMMA BodyIsSound ==
    ASSUME NEW S, Alphabetic(S), NEW lines \in Seq(Seq(S)), AllFree(lines),
           ~Received(lines).tooLarge
    PROVE  Sound(S, Received(lines).body, AllConforming(lines))
<1> DEFINE T == Seq(S)
           Good(ls) == AllFree(ls) /\ ~Received(ls).tooLarge
                           => Sound(S, Received(ls).body, AllConforming(ls))
           P == {ls \in Seq(T) : Good(ls)}
<1>0. "LF" \in S
  BY DEF Alphabetic
<1>1. <<>> \in P
  <2>1. Received(<<>>).body = <<>>
    BY ReceivedNothing DEF Start
  <2>2. <<>> \in Seq(T)
    OBVIOUS
  <2> QED BY <2>1, <2>2 DEF Sound
<1>2. ASSUME NEW ls \in Seq(T), NEW l \in T, ls \in P PROVE Append(ls, l) \in P
  <2> DEFINE more == Append(ls, l)
             read == Received(ls)
             next == Received(more)
             x == Piece(l)
             m == Len(ls)
  <2>1. /\ more \in Seq(T) /\ Len(more) = m + 1 /\ m \in Nat /\ more[m + 1] = l
        /\ \A i \in 1 .. m : more[i] = ls[i]
    BY AppendFacts
  <2>2. next = Extend(read, l)
    BY ReceivedMore
  <2>3. read \in Readings(S)
    BY <1>0, ReceivedType
  <2>4. ASSUME AllFree(more), ~next.tooLarge PROVE Sound(S, next.body, AllConforming(more))
    <3> HIDE DEF more, next, m
    <3>1. m + 1 \in 1 .. m + 1 /\ \A i \in 1 .. m : i \in 1 .. m + 1
      BY <2>1
    <3>2. AllFree(ls) /\ Free(l, "LF")
      BY <2>1, <2>4, <3>1 DEF AllFree, m
    <3>3. AllConforming(more) => AllConforming(ls) /\ ConformingLine(l)
      BY <2>1, <3>1 DEF AllConforming, m
    <3>4. x \in Seq(S) /\ Free(x, "LF") /\ TrimEnd(x, {"CR"}) = x
          /\ (~TooLong(l) /\ ConformingLine(l) => ~TooLong(WireLine(x)))
      BY <3>2, PieceFacts
    <3> HIDE DEF x, read
    <3>5. /\ next.tooLarge <=> \/ read.tooLarge \/ TooLong(l)
                               \/ Len(read.body) + Len(x) + 1 > MaxData
          /\ ~next.tooLarge => next.body = Append(read.body \o x, "LF")
      BY <1>0, <2>2, <2>3, ExtendFacts DEF x, Piece
    <3>6. ~read.tooLarge /\ ~TooLong(l) /\ next.body = With(Plus(read.body, x), "LF")
      BY <2>4, <3>5 DEF With, Plus
    <3>7. Sound(S, read.body, AllConforming(ls))
      BY <1>2, <3>2, <3>6 DEF read
    <3>8. CASE read.body = <<>>
      <4>1. Plus(read.body, x) = x
        BY <3>4, <3>8, PlusWithType
      <4>2. Settled(S, x, AllConforming(more))
        BY <3>3, <3>4, <3>6, SettledLine
      <4> QED BY <3>6, <4>1, <4>2 DEF Sound
    <3>9. CASE \E t : Settled(S, t, AllConforming(ls)) /\ read.body = With(t, "LF")
      <4>1. PICK t : Settled(S, t, AllConforming(ls)) /\ read.body = With(t, "LF")
        BY <3>9
      <4>2. Settled(S, t, AllConforming(more))
        BY <3>3, <4>1 DEF Settled
      <4>3. Settled(S, Plus(With(t, "LF"), x), AllConforming(more))
        BY <3>3, <3>4, <3>6, <4>2, SettledMore
      <4> QED BY <3>6, <4>1, <4>3 DEF Sound
    <3> QED BY <3>7, <3>8, <3>9 DEF Sound
  <2> HIDE DEF more
  <2> QED BY <2>1, <2>4 DEF more
<1>3. Seq(T) \subseteq P
  <2> HIDE DEF P, T
  <2> QED BY <1>1, <1>2, AppendInduction
<1> QED BY <1>3

LEMMA SoundIsSettled ==
    ASSUME NEW S, Alphabetic(S), NEW body, NEW short, Sound(S, body, short)
    PROVE  Settled(S, body, short)
<1> DEFINE none == <<>>
<1>1. none \in Seq(S) /\ Len(none) = 0
  OBVIOUS
<1> HIDE DEF none
<1>2. Free(none, "LF")
  BY <1>1 DEF Free
<1>3. TrimEnd(none, {"CR"}) = none
  <2>1. EndsAt(none, {"CR"}, 0)
    BY <1>1 DEF EndsAt
  <2>2. TrimEnd(none, {"CR"}) = SubSeq(none, 1, 0)
    BY <1>1, <2>1, TrimEndIs
  <2> QED BY <1>1, <2>2, WholeSeq
<1>4. ~TooLong(WireLine(none))
  <2>1. WithoutCR(none) = none
    <3>1. ~(Len(none) >= 1)
      BY <1>1
    <3> QED BY <1>1, <3>1, EndsWithCR DEF WithoutCR
  <2>2. Stuffed(none) = none
    <3>1. ~(Len(none) >= 1) /\ "." \in S
      BY <1>1 DEF Alphabetic
    <3> QED BY <1>1, <3>1, StuffedFacts
  <2>3. Len(WireLine(none)) = 1
    <3>1. WireLine(none) = none \o <<"CR">>
      BY <2>1, <2>2 DEF WireLine
    <3> QED BY <1>1, <3>1
  <2> QED BY <2>3, BoundsAssumption DEF TooLong
<1>5. CASE body = none
  BY <1>1, <1>2, <1>3, <1>4, <1>5, SettledLine
<1>6. CASE \E t : Settled(S, t, short) /\ body = With(t, "LF")
  <2>1. PICK t : Settled(S, t, short) /\ body = With(t, "LF")
    BY <1>6
  <2>2. Settled(S, Plus(With(t, "LF"), none), short)
    BY <1>1, <1>2, <1>3, <1>4, <2>1, SettledMore
  <2>3. Plus(With(t, "LF"), none) = body
    <3>1. t \in Seq(S) /\ "LF" \in S
      BY <2>1 DEF Settled, Alphabetic
    <3>2. With(t, "LF") \in Seq(S)
      BY <3>1, PlusWithType
    <3> QED BY <2>1, <3>2, PlusWithType DEF none
  <2> QED BY <2>2, <2>3
<1> QED BY <1>5, <1>6 DEF Sound, none

\* What comes before the end of the text is a beginning of what came.
Sent(lines) == SubSeq(lines, 1, EndOfText(lines) - 1)

LEMMA SentFacts ==
    ASSUME NEW S, NEW lines \in Seq(S)
    PROVE  /\ Sent(lines) \in Seq(S) /\ Len(Sent(lines)) <= Len(lines)
           /\ \A i \in 1 .. Len(Sent(lines)) : i \in 1 .. Len(lines) /\ Sent(lines)[i] = lines[i]
<1> DEFINE m == Len(lines)
           sent == Sent(lines)
           E == {i \in DOMAIN lines : EndsText(lines[i])} \cup {m + 1}
           e == EndOfText(lines)
<1>1. m \in Nat /\ DOMAIN lines = 1 .. m
  OBVIOUS
<1> HIDE DEF m
<1>2. E \subseteq 0 .. m + 1 /\ E # {} /\ m + 1 \in Nat /\ \A i \in E : i \in 1 .. m + 1
  BY <1>1
<1>3. e = Min(E)
  BY DEF EndOfText, m
<1> HIDE DEF E, e
<1>4. e \in E
  BY <1>2, <1>3, MinFacts
<1>5. e \in 1 .. m + 1
  BY <1>2, <1>4
<1> DEFINE n == e - 1
<1>6. n \in Nat /\ n <= m /\ 1 <= n + 1 /\ n - 1 + 1 = n
  BY <1>1, <1>5
<1> HIDE DEF n
<1> HIDE DEF sent
<1>7. sent = SubSeq(lines, 1, n)
  BY DEF n, e, sent, Sent
<1>8. /\ SubSeq(lines, 1, n) \in Seq(S) /\ Len(SubSeq(lines, 1, n)) = n - 1 + 1
      /\ \A k \in 1 .. n - 1 + 1 : SubSeq(lines, 1, n)[k] = lines[1 + k - 1]
  BY ONLY <1>6, lines \in Seq(S), SubSeqFacts DEF m
<1>9. \A k \in 1 .. n : 1 + k - 1 = k /\ k \in 1 .. m
  BY <1>1, <1>6
<1> QED BY <1>6, <1>7, <1>8, <1>9 DEF m, sent

LEMMA SubmittedOverAlphabet ==
    ASSUME NEW S, Alphabetic(S), NEW lines \in Seq(Seq(S)), AllFree(lines)
    PROVE  SubmittedTextIsRead(lines)
<1> DEFINE sent == SubSeq(lines, 1, EndOfText(lines) - 1)
           submitted == Received(sent)
           body == submitted.body
           read == ReadText(Wire(body))
<1>1. /\ sent \in Seq(Seq(S))
      /\ \A i \in 1 .. Len(sent) : i \in 1 .. Len(lines) /\ sent[i] = lines[i]
  <2> DEFINE A == Seq(S)
  <2>1. lines \in Seq(A) /\ sent = Sent(lines)
    BY DEF Sent
  <2> HIDE DEF A, sent
  <2>2. /\ Sent(lines) \in Seq(A)
        /\ \A i \in 1 .. Len(Sent(lines)) : i \in 1 .. Len(lines) /\ Sent(lines)[i] = lines[i]
    BY ONLY <2>1, SentFacts
  <2> QED BY <2>1, <2>2 DEF A
<1>2. ReadText(lines) = submitted
  BY DEF ReadText
<1> HIDE DEF sent
<1>3. AllFree(sent)
  BY <1>1 DEF AllFree
<1>4. Conforming(sent) => AllConforming(sent)
  <2>1. DOMAIN sent = 1 .. Len(sent)
    BY <1>1
  <2> QED BY <2>1 DEF Conforming, AllConforming, ConformingLine
<1>5. submitted \in Readings(S) /\ (~submitted.tooLarge => Len(body) <= MaxData)
  BY <1>1, ReceivedType DEF Alphabetic
<1> HIDE DEF submitted
<1>6. ASSUME ~submitted.tooLarge
      PROVE  /\ ~read.tooLarge => read.body = body \o <<"LF">>
             /\ Conforming(sent) => (read.tooLarge <=> Len(body) = MaxData)
  <2>1. Sound(S, body, AllConforming(sent))
    BY <1>1, <1>3, <1>6, BodyIsSound DEF submitted
  <2> HIDE DEF body
  <2>2. Settled(S, body, AllConforming(sent))
    BY <2>1, SoundIsSettled
  <2>3. body \in Seq(S) /\ "LF" \in S
    BY <2>2 DEF Settled, Alphabetic
  <2>4. /\ read = Received(WireLines(body))
        /\ InStep(S, Received(WireLines(body)), Rewritten(body), SomeTooLong(WireLines(body)))
    BY <2>3, RelayedOverAlphabet
  <2> HIDE DEF read
  <2>5. Rewritten(body) = With(body, "LF") /\ (AllConforming(sent) => ~SomeTooLong(WireLines(body)))
    BY <2>2 DEF Settled
  <2>6. /\ read.tooLarge <=> (SomeTooLong(WireLines(body)) \/ Len(With(body, "LF")) > MaxData)
        /\ ~read.tooLarge => read.body = With(body, "LF")
    BY <2>4, <2>5 DEF InStep
  <2>7. With(body, "LF") = body \o <<"LF">>
    BY <2>3 DEF With
  <2>8. Len(With(body, "LF")) = Len(body) + 1 /\ Len(body) \in Nat
    BY <2>3, PlusWithType
  <2>9. Len(With(body, "LF")) > MaxData <=> Len(body) = MaxData
    BY <1>5, <1>6, <2>8, BoundsAssumption DEF body
  <2> QED BY <1>4, <2>5, <2>6, <2>7, <2>9
<1>7. SubmittedTextIsRead(lines) <=>
        (~submitted.tooLarge =>
            /\ ~read.tooLarge => read.body = body \o <<"LF">>
            /\ Conforming(sent) => (read.tooLarge <=> Len(body) = MaxData))
  BY <1>2 DEF SubmittedTextIsRead, sent
<1> QED BY <1>6, <1>7

\* Whatever lines a client submits, the text the bridge makes of them reaches the
\* mailbox with one line feed more, and for a conforming client only a text of
\* exactly MaxData bytes is refused on the way (read_smtp_data_bounded,
\* dot_stuff_for_wire, read_data_bounded).
THEOREM SubmittedTextsAreRead ==
    ASSUME NEW S, NEW lines \in Seq(Seq(S)),
           \A i \in 1 .. Len(lines) : \A j \in 1 .. Len(lines[i]) : lines[i][j] # "LF"
    PROVE  SubmittedTextIsRead(lines)
<1> DEFINE T == S \cup {".", "CR", "LF"}
<1>1. Alphabetic(T)
  BY DEF Alphabetic
<1>2. \A l \in Seq(S) : l \in Seq(T)
  OBVIOUS
<1>3. lines \in Seq(Seq(T))
  <2> HIDE DEF T
  <2> DEFINE A == Seq(S)
             B == Seq(T)
  <2>1. \A l \in A : l \in B
    BY <1>2
  <2> HIDE DEF A, B
  <2>2. \A s \in Seq(A) : s \in Seq(B)
    BY <2>1
  <2> QED BY <2>2 DEF A, B
<1>4. AllFree(lines)
  BY DEF AllFree, Free
<1> HIDE DEF T
<1> QED BY <1>1, <1>3, <1>4, SubmittedOverAlphabet

=============================================================================
