------------------------- MODULE UidRegistry_proofs -------------------------
(***************************************************************************)
(* Proofs about UidRegistry, for every mailbox, catalogue and number of    *)
(* faults: UIDs stay attached to their message under one UIDVALIDITY.      *)
(*                                                                         *)
(* The inductive invariant follows a pair <<UIDVALIDITY, UID, message>>    *)
(* after a client was told of it: as long as its UIDVALIDITY is in use the *)
(* cache and any file that can be loaded hold it (Knows), unless it is one *)
(* of the unsaved pairs the file has missed (Lags); and a fresh            *)
(* UIDVALIDITY is later than every one used before (Past).                 *)
(***************************************************************************)
EXTENDS UidRegistry, FiniteSetTheorems, TLAPS

----------------------------------------------------------------------------
(* The inductive invariant *)

\* Below the counter, except that a saturated counter is itself assigned.
Below(st) ==
    \A m \in Messages :
        st.uid[m] < st.next \/ (st.uid[m] = MaxUid /\ st.next = MaxUid)

OneOwner(st) ==
    \A m, n \in Messages :
        st.uid[m] = st.uid[n] /\ st.uid[m] # 0 /\ st.uid[m] # MaxUid => m = n

\* st holds every pair told under its UIDVALIDITY, the unsaved ones apart.
Knows(st) ==
    \A p \in served \ unsaved : p.validity = st.validity => st.uid[p.msg] = p.uid

\* What the file misses of st is unsaved.
Lags(st) ==
    IsCoherent(disk) /\ disk.validity = st.validity =>
        \A m \in Messages :
            st.uid[m] # 0 =>
                \/ disk.uid[m] = st.uid[m]
                \/ [validity |-> st.validity, uid |-> st.uid[m], msg |-> m] \in unsaved

\* A state the registry may serve from.
Good(st) ==
    /\ st \in States
    /\ st.validity \in 1 .. clock
    /\ Below(st) /\ OneOwner(st) /\ Knows(st) /\ Lags(st)

\* No UIDVALIDITY lies in the future, and none is the present second before
\* the process has loaded its state.
Past(v) == v <= clock /\ (cache = NoState => v < clock)

IInv ==
    /\ TypeOK
    /\ clock # 0
    /\ cache # NoState => Good(cache)
    /\ Past(disk.validity)
    /\ \A p \in served : Past(p.validity)
    /\ IsCoherent(disk) => Knows(disk)
    /\ UidNamesOneMessage
    /\ MessageKeepsUid

----------------------------------------------------------------------------
(* Ranks of new messages in a catalogue *)

\* The number of new messages before m.
Rank(st, ids, m) == Cardinality({n \in New(st, ids) : Before(ids, n, m)})

\* The messages before m are finitely many, and fewer than all new ones.
LEMMA RankInNew ==
    ASSUME NEW st, NEW ids \in Catalogues, NEW m \in New(st, ids)
    PROVE  LET B == {n \in New(st, ids) : Before(ids, n, m)} IN
           /\ IsFiniteSet(New(st, ids)) /\ IsFiniteSet(B)
           /\ Cardinality(New(st, ids)) \in Nat /\ Cardinality(B) \in Nat
           /\ Cardinality(B) < Cardinality(New(st, ids))
<1> DEFINE B == {n \in New(st, ids) : Before(ids, n, m)}
<1>1. IsFiniteSet(New(st, ids))
  BY FS_Subset, MessagesAssumption DEF New
<1>2. m \notin B
  BY CataloguesAssumption DEF Before
<1>3. IsFiniteSet(B) /\ B \subseteq New(st, ids) /\ B # New(st, ids)
  BY <1>1, <1>2, FS_Subset
<1>4. Cardinality(New(st, ids)) \in Nat /\ Cardinality(B) \in Nat
  BY <1>1, <1>3, FS_CardinalityType
<1>5. Cardinality(B) < Cardinality(New(st, ids))
  BY <1>1, <1>3, <1>4, FS_Subset
<1> QED BY <1>1, <1>3, <1>4, <1>5

\* An earlier new message has a lower rank.
LEMMA RankGrows ==
    ASSUME NEW st, NEW ids \in Catalogues,
           NEW m \in New(st, ids), NEW n \in New(st, ids), Before(ids, m, n)
    PROVE  Cardinality({k \in New(st, ids) : Before(ids, k, m)})
             < Cardinality({k \in New(st, ids) : Before(ids, k, n)})
<1> DEFINE Bm == {k \in New(st, ids) : Before(ids, k, m)}
           Bn == {k \in New(st, ids) : Before(ids, k, n)}
<1>1. IsFiniteSet(Bm) /\ Cardinality(Bm) \in Nat
  BY RankInNew
<1>2. IsFiniteSet(Bn) /\ Cardinality(Bn) \in Nat
  BY RankInNew
<1>3. Len(ids) \in Nat
  BY CataloguesAssumption
<1>4. m \in Bn /\ m \notin Bm
  BY CataloguesAssumption, <1>3 DEF Before
<1>5. \A k \in Bm : k \in Bn
  <2> TAKE k \in Bm
  <2>1. PICK i, j \in 1 .. Len(ids) : i < j /\ ids[i] = k /\ ids[j] = m
    BY DEF Before
  <2>2. PICK a, b \in 1 .. Len(ids) : a < b /\ ids[a] = m /\ ids[b] = n
    BY DEF Before
  <2>3. j = a
    BY <2>1, <2>2, CataloguesAssumption
  <2>4. i < b
    BY <2>1, <2>2, <2>3, <1>3
  <2> QED BY <2>1, <2>2, <2>4 DEF Before
<1>6. Bm \subseteq Bn /\ Bm # Bn
  BY <1>4, <1>5
<1>7. Cardinality(Bm) < Cardinality(Bn)
  BY <1>1, <1>2, <1>6, FS_Subset
<1> QED BY <1>7

\* Of two new messages one comes first.
LEMMA NewAreOrdered ==
    ASSUME NEW st, NEW ids \in Catalogues,
           NEW m \in New(st, ids), NEW n \in New(st, ids), m # n
    PROVE  Before(ids, m, n) \/ Before(ids, n, m)
<1>1. PICK i \in 1 .. Len(ids) : ids[i] = m
  BY DEF New
<1>2. PICK j \in 1 .. Len(ids) : ids[j] = n
  BY DEF New
<1>3. Len(ids) \in Nat
  BY CataloguesAssumption
<1>4. i < j \/ j < i
  BY <1>1, <1>2, <1>3
<1> QED BY <1>1, <1>2, <1>4 DEF Before

\* Saturating addition stays within the UIDs and does not shrink.
LEMMA SaturatingAddFacts ==
    ASSUME NEW u \in 1 .. MaxUid, NEW k \in Nat
    PROVE  /\ SaturatingAdd(u, k) \in 1 .. MaxUid
           /\ SaturatingAdd(u, k) >= u
           /\ SaturatingAdd(u, k) = MaxUid \/ SaturatingAdd(u, k) = u + k
  BY NumbersAssumption DEF SaturatingAdd

\* What assigning UIDs preserves.
LEMMA AssignFacts ==
    ASSUME NEW st \in States, NEW ids \in Catalogues, Below(st), OneOwner(st)
    PROVE  LET a == Assign(st, ids) IN
           /\ a \in States
           /\ a.validity = st.validity
           /\ Below(a) /\ OneOwner(a)
           /\ \A m \in Messages : st.uid[m] # 0 => a.uid[m] = st.uid[m]
           /\ \A m \in Messages : m \notin New(st, ids) => a.uid[m] = st.uid[m]
           /\ \A m \in New(st, ids) : st.uid[m] = 0 /\ a.uid[m] \in 1 .. MaxUid
<1> DEFINE N == New(st, ids)
           a == Assign(st, ids)
<1>1. /\ st.next \in 1 .. MaxUid /\ st.validity \in Nat
      /\ \A m \in Messages : st.uid[m] \in 0 .. MaxUid
  BY DEF States
<1>2. \A m \in N : Rank(st, ids, m) \in Nat /\ Cardinality(N) \in Nat /\ Rank(st, ids, m) < Cardinality(N)
  BY RankInNew DEF Rank
<1>3. N \subseteq Messages /\ \A m \in N : st.uid[m] = 0
  BY DEF New
<1>4. Cardinality(N) \in Nat
  BY <1>3, FS_Subset, FS_CardinalityType, MessagesAssumption
<1>5. /\ a.validity = st.validity
      /\ a.next = SaturatingAdd(st.next, Cardinality(N))
      /\ \A m \in N : a.uid[m] = SaturatingAdd(st.next, Rank(st, ids, m))
      /\ \A m \in Messages \ N : a.uid[m] = st.uid[m]
  BY <1>3 DEF Assign, States, Rank
<1>6. /\ a.next \in 1 .. MaxUid
      /\ a.next >= st.next
      /\ a.next = MaxUid \/ a.next = st.next + Cardinality(N)
  BY <1>1, <1>4, <1>5, SaturatingAddFacts
<1>7. \A m \in N : /\ a.uid[m] \in 1 .. MaxUid
                   /\ a.uid[m] >= st.next
                   /\ a.uid[m] = MaxUid \/ a.uid[m] = st.next + Rank(st, ids, m)
  BY <1>1, <1>2, <1>5, SaturatingAddFacts
<1>8. a \in States
  <2> DEFINE u == [m \in Messages |-> IF m \in N THEN SaturatingAdd(st.next, Rank(st, ids, m))
                                      ELSE st.uid[m]]
  <2>1. a = [[st EXCEPT !.next = a.next] EXCEPT !.uid = u]
    BY DEF Assign, Rank
  <2>2. \A m \in Messages : u[m] \in 0 .. MaxUid
    BY <1>1, <1>3, <1>5, <1>7, NumbersAssumption
  <2>3. u \in [Messages -> 0 .. MaxUid]
    BY <2>2
  <2> HIDE DEF u, a, N
  <2>4. [st EXCEPT !.next = a.next] \in States
    BY <1>6 DEF States
  <2> QED BY <2>1, <2>3, <2>4 DEF States
<1> HIDE DEF N, a
<1>9. Below(a)
  <2> SUFFICES ASSUME NEW m \in Messages
               PROVE  a.uid[m] < a.next \/ (a.uid[m] = MaxUid /\ a.next = MaxUid)
    BY DEF Below
  <2>1. CASE m \in N
    <3>1. /\ Rank(st, ids, m) \in Nat /\ Cardinality(N) \in Nat
          /\ Rank(st, ids, m) < Cardinality(N)
      BY <2>1, <1>2
    <3>2. /\ a.uid[m] \in 1 .. MaxUid
          /\ a.uid[m] = SaturatingAdd(st.next, Rank(st, ids, m))
      BY <2>1, <1>5, <1>7
    <3> QED BY <3>1, <3>2, <1>1, <1>5, NumbersAssumption DEF SaturatingAdd
  <2>2. CASE m \notin N
    <3>1. st.uid[m] < st.next \/ (st.uid[m] = MaxUid /\ st.next = MaxUid)
      BY DEF Below
    <3> QED BY <2>2, <3>1, <1>1, <1>5, <1>6, NumbersAssumption
  <2> QED BY <2>1, <2>2
<1>10. OneOwner(a)
  <2> SUFFICES ASSUME NEW m \in Messages, NEW n \in Messages,
                      a.uid[m] = a.uid[n], a.uid[m] # 0, a.uid[m] # MaxUid
               PROVE  m = n
    BY DEF OneOwner
  <2>1. CASE m \in N /\ n \in N
    <3>1. a.uid[m] = st.next + Rank(st, ids, m) /\ a.uid[n] = st.next + Rank(st, ids, n)
      BY <2>1, <1>7
    <3>2. Rank(st, ids, m) = Rank(st, ids, n)
      <4>1. Rank(st, ids, m) \in Nat /\ Rank(st, ids, n) \in Nat /\ st.next \in Nat
        BY <2>1, <1>1, <1>2, NumbersAssumption
      <4>2. st.next + Rank(st, ids, m) = st.next + Rank(st, ids, n)
        BY <3>1
      <4>3. \A x, y, z \in Nat : x + y = x + z => y = z
        OBVIOUS
      <4> QED BY <4>1, <4>2, <4>3
    <3>3. SUFFICES ASSUME m # n PROVE FALSE
      OBVIOUS
    <3>4. Rank(st, ids, m) < Rank(st, ids, n) \/ Rank(st, ids, n) < Rank(st, ids, m)
      BY <2>1, <3>3, NewAreOrdered, RankGrows DEF Rank, N
    <3> QED BY <3>2, <3>4, <2>1, <1>2
  <2>2. CASE m \in N /\ n \notin N
    <3>1. a.uid[n] = st.uid[n] /\ a.uid[m] >= st.next
      BY <2>2, <1>5, <1>7
    <3>2. st.uid[n] < st.next \/ st.uid[n] = MaxUid
      BY DEF Below
    <3> QED BY <3>1, <3>2, <1>1, <1>7, <2>2
  <2>3. CASE m \notin N /\ n \in N
    <3>1. a.uid[m] = st.uid[m] /\ a.uid[n] >= st.next
      BY <2>3, <1>5, <1>7
    <3>2. st.uid[m] < st.next \/ st.uid[m] = MaxUid
      BY DEF Below
    <3> QED BY <3>1, <3>2, <1>1, <1>7, <2>3
  <2>4. CASE m \notin N /\ n \notin N
    BY <2>4, <1>5 DEF OneOwner
  <2> QED BY <2>1, <2>2, <2>3, <2>4
<1>11. \A m \in Messages : st.uid[m] # 0 => m \notin N
  BY <1>3
<1> QED BY <1>3, <1>5, <1>7, <1>8, <1>9, <1>10, <1>11 DEF a, N

----------------------------------------------------------------------------
(* States the registry serves from *)

\* NoState is a state that is not coherent.
LEMMA NoStateFacts ==
    NoState \in States /\ NoState.validity = 0 /\ ~ IsCoherent(NoState)
  BY NumbersAssumption DEF NoState, States, IsCoherent

\* A fresh state assigns nothing and has a UIDVALIDITY of its own.
LEMMA FreshIsGood ==
    ASSUME IInv, cache = NoState
    PROVE  Good(Fresh) /\ Fresh.validity = clock
<1>1. clock \in Nat /\ clock # 0
  BY DEF IInv, TypeOK
<1>2. Fresh = [validity |-> clock, next |-> 1, uid |-> [m \in Messages |-> 0]]
  BY <1>1 DEF Fresh, NoState
<1>3. Fresh \in States
  BY <1>1, <1>2, NumbersAssumption DEF States
<1>4. Below(Fresh) /\ OneOwner(Fresh)
  BY <1>2 DEF Below, OneOwner
<1>5. Knows(Fresh)
  BY <1>1, <1>2 DEF Knows, IInv, Past
<1>6. Lags(Fresh)
  BY <1>2 DEF Lags
<1> QED BY <1>1, <1>2, <1>3, <1>4, <1>5, <1>6 DEF Good

\* The state a resolve works on.
LEMMA CurrentIsGood ==
    ASSUME IInv
    PROVE  Good(Current)
<1>1. CASE cache # NoState
  BY <1>1 DEF IInv, Current
<1>2. CASE cache = NoState /\ ~ IsCoherent(disk)
  BY <1>2, FreshIsGood DEF Current, LoadOrFresh
<1>3. CASE cache = NoState /\ IsCoherent(disk)
  <2>1. Current = disk
    BY <1>3 DEF Current, LoadOrFresh
  <2>2. disk \in States /\ disk.validity # 0 /\ disk.validity \in Nat
    BY <1>3 DEF IsCoherent, IInv, TypeOK, States
  <2>3. disk.validity \in 1 .. clock
    BY <2>2 DEF IInv, Past, TypeOK
  <2>4. Below(disk) /\ OneOwner(disk)
    BY <1>3 DEF IsCoherent, Below, OneOwner
  <2>5. Knows(disk) /\ Lags(disk)
    BY <1>3 DEF IInv, Lags
  <2> QED BY <2>1, <2>2, <2>3, <2>4, <2>5 DEF Good
<1> QED BY <1>1, <1>2, <1>3

----------------------------------------------------------------------------
(* Serving *)

\* What a client is told are pairs of the new state.
LEMMA ToldFacts ==
    ASSUME NEW a \in States, NEW ids \in Catalogues,
           \A m \in Messages : (\E i \in 1 .. Len(ids) : ids[i] = m) => a.uid[m] # 0
    PROVE  /\ Told(a, ids) \subseteq Pairs
           /\ \A p \in Told(a, ids) : p.validity = a.validity /\ a.uid[p.msg] = p.uid
<1> SUFFICES ASSUME NEW p \in Told(a, ids)
             PROVE  p \in Pairs /\ p.validity = a.validity /\ a.uid[p.msg] = p.uid
  OBVIOUS
<1>1. PICK m \in Messages : /\ \E i \in 1 .. Len(ids) : ids[i] = m
                            /\ p = [validity |-> a.validity, uid |-> a.uid[m], msg |-> m]
  BY DEF Told
<1>2. a.uid[m] # 0 /\ a.uid[m] \in 0 .. MaxUid /\ a.validity \in Nat
  BY <1>1 DEF States
<1>3. a.uid[m] \in 1 .. MaxUid
  BY <1>2, NumbersAssumption
<1> QED BY <1>1, <1>2, <1>3 DEF Pairs

\* The effect of a resolve on the pairs, whatever happens to the file: the
\* file is untouched, written with the new state, or torn.
LEMMA ServingKeepsInv ==
    ASSUME IInv, NEW st, NEW ids \in Catalogues, Good(st), Serve(st, ids),
           faults' \in 0 .. MaxFaults,
           \/ Save(st, ids)
           \/ /\ disk' = disk
              /\ unsaved' = unsaved \cup {p \in Told(Assign(st, ids), ids) :
                                            p.msg \in New(st, ids)}
           \/ disk' = NoState /\ unsaved' = unsaved
    PROVE  IInv'
<1> DEFINE a == Assign(st, ids)
           told == Told(a, ids)
           N == New(st, ids)
           lost == {p \in told : p.msg \in N}
<1>1. /\ st \in States /\ st.validity \in 1 .. clock
      /\ Below(st) /\ OneOwner(st) /\ Knows(st) /\ Lags(st)
  BY DEF Good
<1>2. /\ a \in States /\ a.validity = st.validity
      /\ Below(a) /\ OneOwner(a)
      /\ \A m \in Messages : st.uid[m] # 0 => a.uid[m] = st.uid[m]
      /\ \A m \in Messages : m \notin N => a.uid[m] = st.uid[m]
      /\ \A m \in N : st.uid[m] = 0 /\ a.uid[m] \in 1 .. MaxUid
  BY <1>1, AssignFacts
<1>3. \A m \in Messages : (\E i \in 1 .. Len(ids) : ids[i] = m) => a.uid[m] # 0
  BY <1>2, NumbersAssumption DEF New
<1>4. /\ told \subseteq Pairs
      /\ \A p \in told : p.validity = a.validity /\ a.uid[p.msg] = p.uid
  BY <1>2, <1>3, ToldFacts
<1>5. \A m \in N : [validity |-> a.validity, uid |-> a.uid[m], msg |-> m] \in lost
  BY DEF Told, New
<1>6. cache' = a /\ served' = served \cup told /\ clock' = clock
  BY DEF Serve
<1>7. \/ disk' = disk /\ unsaved' = unsaved /\ N = {}
      \/ disk' = a /\ unsaved' = unsaved \ Within(a, unsaved)
      \/ disk' = disk /\ unsaved' = unsaved \cup lost
      \/ disk' = NoState /\ unsaved' = unsaved
  BY DEF Save
<1> HIDE DEF a, told, N, lost
<1>8. clock \in Nat /\ clock # 0 /\ a.validity \in 1 .. clock
  BY <1>1, <1>2 DEF IInv, TypeOK
<1>9. TypeOK'
  <2>1. cache \in States /\ disk \in States /\ served \subseteq Pairs /\ unsaved \subseteq Pairs
    BY DEF IInv, TypeOK
  <2>2. disk' \in States
    BY <1>2, <1>7, <2>1, NoStateFacts
  <2>3. unsaved' \subseteq Pairs
    BY <1>4, <1>7, <2>1 DEF lost
  <2> QED BY <1>2, <1>4, <1>6, <1>8, <2>1, <2>2, <2>3 DEF TypeOK
<1>10. cache' # NoState
  BY <1>6, <1>8, NoStateFacts
<1>11. \A p \in served' \ unsaved' : p.validity = a.validity => a.uid[p.msg] = p.uid
  <2> SUFFICES ASSUME NEW p \in served', p \notin unsaved', p.validity = a.validity
               PROVE  a.uid[p.msg] = p.uid
    OBVIOUS
  <2>1. CASE p \in told
    BY <2>1, <1>4
  <2>2. CASE p \in served /\ p \notin unsaved
    <3>1. p \in Pairs
      BY <2>2 DEF IInv, TypeOK
    <3>2. st.uid[p.msg] = p.uid /\ p.uid # 0 /\ p.msg \in Messages
      BY <2>2, <3>1, <1>1, <1>2, NumbersAssumption DEF Knows, Pairs
    <3> QED BY <3>2, <1>2
  <2>3. CASE p \in unsaved
    BY <2>3, <1>7 DEF Within
  <2> QED BY <2>1, <2>2, <2>3, <1>6
<1>12. Knows(a)'
  BY <1>11, <1>6 DEF Knows
<1>13. Lags(a)'
  <2> SUFFICES ASSUME IsCoherent(disk)', disk'.validity = a.validity,
                      NEW m \in Messages, a.uid[m] # 0
               PROVE  \/ disk'.uid[m] = a.uid[m]
                      \/ [validity |-> a.validity, uid |-> a.uid[m], msg |-> m] \in unsaved'
    BY <1>6 DEF Lags
  <2>1. CASE disk' = a
    BY <2>1
  <2>2. CASE disk' = NoState
    BY <2>2, NoStateFacts DEF IsCoherent
  <2>3. CASE disk' = disk /\ m \in N
    BY <2>3, <1>5, <1>7, <2>1, NoStateFacts DEF IsCoherent
  <2>4. CASE disk' = disk /\ m \notin N /\ unsaved \subseteq unsaved'
    <3>1. IsCoherent(disk) /\ disk.validity = st.validity /\ st.uid[m] # 0
      BY <2>4, <1>2 DEF IsCoherent
    <3>2. \/ disk.uid[m] = st.uid[m]
          \/ [validity |-> st.validity, uid |-> st.uid[m], msg |-> m] \in unsaved
      BY <3>1, <1>1 DEF Lags
    <3> QED BY <3>2, <2>4, <1>2
  <2> QED BY <1>7, <2>1, <2>2, <2>3, <2>4
<1>14. Good(a)'
  BY <1>2, <1>6, <1>8, <1>12, <1>13 DEF Good, Below, OneOwner
<1>15. IsCoherent(disk)' => Knows(disk)'
  <2> SUFFICES ASSUME IsCoherent(disk)', NEW p \in served', p \notin unsaved',
                      p.validity = disk'.validity
               PROVE  disk'.uid[p.msg] = p.uid
    BY DEF Knows
  <2>1. CASE disk' = a
    BY <2>1, <1>11
  <2>2. CASE disk' = NoState
    BY <2>2, NoStateFacts DEF IsCoherent
  <2>3. CASE disk' = disk /\ unsaved \subseteq unsaved' /\ p \in served
    BY <2>3 DEF IInv, Knows, IsCoherent
  <2>4. CASE disk' = disk /\ p \in told
    <3>1. p \in Pairs /\ p.validity = a.validity /\ a.uid[p.msg] = p.uid
      BY <2>4, <1>4
    <3>2. p = [validity |-> a.validity, uid |-> a.uid[p.msg], msg |-> p.msg] /\ p.msg \in Messages
          /\ a.uid[p.msg] # 0
      BY <3>1, NumbersAssumption DEF Pairs
    <3> QED BY <3>1, <3>2, <1>13, <1>6 DEF Lags
  <2> QED BY <1>6, <1>7, <2>1, <2>2, <2>3, <2>4
<1>16. Past(disk.validity)' /\ \A p \in served' : Past(p.validity)'
  <2>1. \A v \in Nat : v <= clock => Past(v)'
    BY <1>6, <1>10 DEF Past
  <2>2. disk.validity <= clock /\ \A p \in served : p.validity <= clock
    BY DEF IInv, Past
  <2>3. disk' \in States /\ served' \subseteq Pairs
    BY <1>9 DEF TypeOK
  <2>4. disk'.validity \in Nat /\ \A p \in served' : p.validity \in Nat
    BY <2>3 DEF States, Pairs
  <2>5. disk'.validity <= clock
    BY <1>7, <1>8, <2>2, NoStateFacts
  <2>6. \A p \in served' : p.validity <= clock
    BY <1>4, <1>6, <1>8, <2>2
  <2> QED BY <2>1, <2>4, <2>5, <2>6 DEF Past
<1>17. \A p \in served' \ unsaved' :
          p.validity # a.validity => p \in served \ unsaved
  BY <1>4, <1>6, <1>7 DEF Within
<1>18. UidNamesOneMessage'
  <2> SUFFICES ASSUME NEW p \in served' \ unsaved', NEW q \in served' \ unsaved',
                      p.validity = q.validity, p.uid = q.uid, p.uid # MaxUid
               PROVE  p.msg = q.msg
    BY DEF UidNamesOneMessage
  <2>1. CASE p.validity = a.validity
    <3>1. p \in Pairs /\ q \in Pairs
      BY <1>9 DEF TypeOK
    <3>2. a.uid[p.msg] = p.uid /\ a.uid[q.msg] = q.uid
      BY <2>1, <1>11
    <3>3. p.uid # 0 /\ p.msg \in Messages /\ q.msg \in Messages
      BY <3>1, NumbersAssumption DEF Pairs
    <3> QED BY <3>2, <3>3, <1>2 DEF OneOwner
  <2>2. CASE p.validity # a.validity
    BY <2>2, <1>17 DEF IInv, UidNamesOneMessage
  <2> QED BY <2>1, <2>2
<1>19. MessageKeepsUid'
  <2> SUFFICES ASSUME NEW p \in served' \ unsaved', NEW q \in served' \ unsaved',
                      p.validity = q.validity, p.msg = q.msg
               PROVE  p.uid = q.uid
    BY DEF MessageKeepsUid
  <2>1. CASE p.validity = a.validity
    BY <2>1, <1>11
  <2>2. CASE p.validity # a.validity
    BY <2>2, <1>17 DEF IInv, MessageKeepsUid
  <2> QED BY <2>1, <2>2
<1>20. Good(cache)'
  BY <1>6, <1>14 DEF Good, Below, OneOwner, Knows, Lags
<1> QED BY <1>6, <1>8, <1>9, <1>15, <1>16, <1>18, <1>19, <1>20 DEF IInv

----------------------------------------------------------------------------
(* The invariant holds *)

LEMMA InitInv == Init => IInv
<1> SUFFICES ASSUME Init PROVE IInv
  OBVIOUS
<1>1. /\ cache = NoState /\ disk = NoState /\ clock = 1 /\ faults = 0
      /\ served = {} /\ unsaved = {}
  BY DEF Init
<1>2. TypeOK
  BY <1>1, NoStateFacts, NumbersAssumption DEF TypeOK
<1>3. Past(disk.validity)
  BY <1>1, NoStateFacts DEF Past
<1> QED BY <1>1, <1>2, <1>3, NoStateFacts
        DEF IInv, UidNamesOneMessage, MessageKeepsUid

\* One more fault is within the bound.
LEMMA FaultIsBounded == IInv /\ Fault => faults' \in 0 .. MaxFaults
  BY NumbersAssumption DEF IInv, TypeOK, Fault

\* A process that ends leaves a file that is the old one or torn.
LEMMA EndingKeepsInv ==
    ASSUME IInv, cache' = NoState, clock' = clock + RestartTime,
           disk' = disk \/ disk' = NoState,
           faults' \in 0 .. MaxFaults, UNCHANGED <<served, unsaved>>
    PROVE  IInv'
<1>1. /\ clock \in Nat /\ clock # 0 /\ RestartTime \in Nat \ {0}
      /\ disk \in States /\ served \subseteq Pairs /\ unsaved \subseteq Pairs
  BY NumbersAssumption DEF IInv, TypeOK
<1>2. clock' \in Nat /\ clock' # 0 /\ \A v \in Nat : v <= clock => v < clock'
  BY <1>1
<1>3. TypeOK'
  BY <1>1, <1>2, NoStateFacts DEF TypeOK
<1>4. \A v \in Nat : Past(v) => Past(v)'
  BY <1>1, <1>2 DEF Past
<1>5. Past(0)'
  BY <1>1, <1>2 DEF Past
<1>6. Past(disk.validity)'
  <2>1. disk.validity \in Nat
    BY <1>1 DEF States
  <2> QED BY <2>1, <1>2, <1>4, <1>5, NoStateFacts DEF IInv, Past
<1>7. \A p \in served' : Past(p.validity)'
  BY <1>1, <1>2, <1>4 DEF IInv, Pairs, Past
<1>8. IsCoherent(disk)' => Knows(disk)'
  BY NoStateFacts DEF IInv, IsCoherent, Knows
<1>9. UidNamesOneMessage' /\ MessageKeepsUid'
  BY DEF IInv, UidNamesOneMessage, MessageKeepsUid
<1> QED BY <1>2, <1>3, <1>6, <1>7, <1>8, <1>9 DEF IInv

\* A damaged file is not loaded again.
LEMMA DamageKeepsInv == IInv /\ FileDamaged => IInv'
<1> SUFFICES ASSUME IInv, FileDamaged PROVE IInv'
  OBVIOUS
<1>1. UNCHANGED <<cache, clock, served, unsaved>> /\ faults' \in 0 .. MaxFaults
  BY FaultIsBounded DEF FileDamaged
<1>2. /\ clock \in Nat /\ cache \in States
      /\ disk \in States /\ served \subseteq Pairs /\ unsaved \subseteq Pairs
  BY DEF IInv, TypeOK
<1>3. disk' \in States /\ ~ IsCoherent(disk)'
      /\ (disk'.validity = disk.validity \/ disk'.validity = 0)
  <2>1. CASE disk' = NoState
    BY <2>1, NoStateFacts DEF IsCoherent
  <2>2. CASE \E m \in Messages : /\ disk.uid[m] # 0
                                 /\ disk' = [disk EXCEPT !.next = disk.uid[m]]
    <3>1. PICK m \in Messages : /\ disk.uid[m] # 0
                                /\ disk' = [disk EXCEPT !.next = disk.uid[m]]
      BY <2>2
    <3>2. disk.uid[m] \in 1 .. MaxUid
      BY <1>2, <3>1, NumbersAssumption DEF States
    <3>3. disk' \in States /\ disk'.validity = disk.validity
          /\ disk'.uid = disk.uid /\ disk'.next = disk.uid[m]
      BY <1>2, <3>1, <3>2 DEF States
    <3>4. ~ (disk'.uid[m] < disk'.next)
      BY <3>2, <3>3, NumbersAssumption
    <3> QED BY <3>3, <3>4 DEF IsCoherent
  <2> QED BY <2>1, <2>2 DEF FileDamaged
<1>4. TypeOK'
  BY <1>1, <1>2, <1>3 DEF TypeOK, IInv
<1>5. cache' # NoState => Good(cache)'
  BY <1>1, <1>3 DEF IInv, Good, Below, OneOwner, Knows, Lags
<1>6. Past(disk.validity)'
  <2>1. disk.validity \in Nat
    BY <1>2 DEF States
  <2>2. Past(disk.validity) /\ Past(0)
    <3>1. Past(disk.validity)
      BY DEF IInv
    <3> QED BY <3>1, <2>1, <1>2 DEF Past
  <2> QED BY <2>2, <1>1, <1>3 DEF Past
<1>7. \A p \in served' : Past(p.validity)'
  BY <1>1 DEF IInv, Past
<1>8. UidNamesOneMessage' /\ MessageKeepsUid'
  BY <1>1 DEF IInv, UidNamesOneMessage, MessageKeepsUid
<1> QED BY <1>1, <1>3, <1>4, <1>5, <1>6, <1>7, <1>8 DEF IInv

\* Time passes.
LEMMA TickKeepsInv == IInv /\ Tick => IInv'
<1> SUFFICES ASSUME IInv, Tick PROVE IInv'
  OBVIOUS
<1>1. UNCHANGED <<cache, disk, faults, served, unsaved>> /\ clock' = clock + 1
  BY DEF Tick
<1>2. clock \in Nat /\ clock' \in Nat /\ clock' # 0
      /\ \A v \in Nat : (v <= clock => v <= clock') /\ (v < clock => v < clock')
  BY <1>1 DEF IInv, TypeOK
<1>3. TypeOK'
  BY <1>1, <1>2 DEF IInv, TypeOK
<1>4. /\ \A v \in Nat : Past(v) => Past(v)'
      /\ disk.validity \in Nat /\ \A p \in served : p.validity \in Nat
  BY <1>1, <1>2 DEF Past, IInv, TypeOK, States, Pairs
<1>5. cache' # NoState => Good(cache)'
  BY <1>1, <1>2 DEF IInv, Good, Below, OneOwner, Knows, Lags, IsCoherent
<1>6. Past(disk.validity)' /\ \A p \in served' : Past(p.validity)'
  BY <1>1, <1>4 DEF IInv
<1>7. IsCoherent(disk)' => Knows(disk)'
  BY <1>1 DEF IInv, IsCoherent, Knows
<1>8. UidNamesOneMessage' /\ MessageKeepsUid'
  BY <1>1 DEF IInv, UidNamesOneMessage, MessageKeepsUid
<1> QED BY <1>2, <1>3, <1>5, <1>6, <1>7, <1>8 DEF IInv

LEMMA NextKeepsInv == IInv /\ [Next]_vars => IInv'
<1> SUFFICES ASSUME IInv, [Next]_vars PROVE IInv'
  OBVIOUS
<1>1. ASSUME NEW ids \in Catalogues, Resolve(ids) PROVE IInv'
  <2>1. faults' \in 0 .. MaxFaults
    BY <1>1 DEF Resolve, IInv, TypeOK
  <2> QED BY <1>1, <2>1, CurrentIsGood, ServingKeepsInv DEF Resolve
<1>2. ASSUME NEW ids \in Catalogues, ResolveUnsaved(ids) PROVE IInv'
  BY <1>2, FaultIsBounded, CurrentIsGood, ServingKeepsInv DEF ResolveUnsaved
<1>3. ASSUME NEW ids \in Catalogues, ResolveTorn(ids) PROVE IInv'
  BY <1>3, FaultIsBounded, CurrentIsGood, ServingKeepsInv DEF ResolveTorn
<1>4. ASSUME NEW ids \in Catalogues, ResolveUnread(ids) PROVE IInv'
  BY <1>4, FaultIsBounded, FreshIsGood, ServingKeepsInv DEF ResolveUnread
<1>5. ASSUME NEW ids \in Catalogues, CrashInPersist(ids) PROVE IInv'
  BY <1>5, FaultIsBounded, EndingKeepsInv DEF CrashInPersist
<1>6. CASE Restart
  <2>1. faults' \in 0 .. MaxFaults
    BY <1>6 DEF Restart, IInv, TypeOK
  <2> QED BY <1>6, <2>1, EndingKeepsInv DEF Restart
<1>7. CASE FileDamaged
  BY <1>7, DamageKeepsInv
<1>8. CASE Tick
  BY <1>8, TickKeepsInv
<1>9. CASE UNCHANGED vars
  BY <1>9 DEF vars, IInv, TypeOK, Past, Good, Below, OneOwner, Knows, Lags,
              IsCoherent, UidNamesOneMessage, MessageKeepsUid
<1> QED BY <1>1, <1>2, <1>3, <1>4, <1>5, <1>6, <1>7, <1>8, <1>9 DEF Next

\* The inductive invariant holds in every reachable state.
THEOREM Invariance == Spec => []IInv
<1>1. Init => IInv
  BY InitInv
<1>2. IInv /\ [Next]_vars => IInv'
  BY NextKeepsInv
<1> QED BY <1>1, <1>2, PTL DEF Spec

\* Every variable keeps its type, saturation of the counter included.
THEOREM TypeCorrectness == Spec => []TypeOK
<1>1. IInv => TypeOK
  BY DEF IInv
<1> QED BY <1>1, Invariance, PTL

\* Across faults and restarts of the bridge a UID names one message under
\* one UIDVALIDITY, a failed write that left an older file excepted.
THEOREM UidsNameOneMessage == Spec => []UidNamesOneMessage
<1>1. IInv => UidNamesOneMessage
  BY DEF IInv
<1> QED BY <1>1, Invariance, PTL

\* And a message keeps its UID under one UIDVALIDITY.
THEOREM MessagesKeepTheirUid == Spec => []MessageKeepsUid
<1>1. IInv => MessageKeepsUid
  BY DEF IInv
<1> QED BY <1>1, Invariance, PTL
----------------------------------------------------------------------------
(* Without a fault *)

Unsaturated == \A p \in served : p.uid # MaxUid

\* st holds what the file does; before a first UID is saved, nothing.
Follows(st) ==
    IF disk = NoState
    THEN \A m \in Messages : st.uid[m] = 0
    ELSE st.validity = disk.validity /\ \A m \in Messages : st.uid[m] = disk.uid[m]

\* Nothing went wrong: the file loads, holds what the process does, and is all
\* that was served and nothing else.
StableInv ==
    faults = 0 /\ Unsaturated =>
        /\ disk = NoState => served = {}
        /\ disk # NoState => IsCoherent(disk)
        /\ \A m \in Messages :
              disk.uid[m] # 0 =>
                  [validity |-> disk.validity, uid |-> disk.uid[m], msg |-> m] \in served
        /\ cache # NoState => Follows(cache)
        /\ \A p \in served : p.validity = disk.validity

\* The state a resolve works on is the one in the file.
LEMMA CurrentFollows ==
    ASSUME IInv, StableInv, faults = 0, Unsaturated
    PROVE  Follows(Current)
<1>1. CASE cache # NoState
  BY <1>1 DEF Current, StableInv
<1>2. CASE cache = NoState /\ disk # NoState
  BY <1>2 DEF Current, LoadOrFresh, Follows, StableInv
<1>3. CASE cache = NoState /\ disk = NoState
  <2>1. Current = Fresh
    BY <1>3, NoStateFacts DEF Current, LoadOrFresh
  <2>2. \A m \in Messages : Fresh.uid[m] = 0
    BY DEF Fresh, NoState
  <2> QED BY <1>3, <2>1, <2>2 DEF Follows
<1> QED BY <1>1, <1>2, <1>3

\* A resolve without a fault leaves file and process together.
LEMMA ResolveKeepsStable ==
    ASSUME IInv, StableInv, NEW ids \in Catalogues, Resolve(ids)
    PROVE  StableInv'
<1> SUFFICES ASSUME faults = 0, Unsaturated' PROVE StableInv'
  BY DEF Resolve, StableInv
<1> DEFINE st == Current
           a == Assign(st, ids)
           N == New(st, ids)
           told == Told(a, ids)
<1>1. Good(st)
  BY CurrentIsGood
<1>2. /\ a \in States /\ a.validity = st.validity /\ Below(a) /\ OneOwner(a)
      /\ \A m \in Messages : m \notin N => a.uid[m] = st.uid[m]
      /\ \A m \in N : st.uid[m] = 0 /\ a.uid[m] \in 1 .. MaxUid
  BY <1>1, AssignFacts DEF Good
<1>3. /\ cache' = a /\ served' = served \cup told /\ faults' = 0
      /\ disk' = IF N = {} THEN disk ELSE a
  BY DEF Resolve, Serve, Save
<1>4. Unsaturated
  BY <1>3 DEF Unsaturated
<1>5. Follows(st)
  BY <1>4, CurrentFollows
<1>6. a.validity # 0
  BY <1>1, <1>2 DEF Good
<1>7. \A m \in Messages : (\E i \in 1 .. Len(ids) : ids[i] = m) => a.uid[m] # 0
  BY <1>2, NumbersAssumption DEF New
<1>8. \A p \in told : p.validity = a.validity /\ p.msg \in Messages /\ a.uid[p.msg] = p.uid
  BY <1>2, <1>7, ToldFacts DEF Pairs
<1>9. \A m \in N : [validity |-> a.validity, uid |-> a.uid[m], msg |-> m] \in told
  BY DEF Told, New
<1>10. CASE N = {}
  <2>1. disk' = disk /\ \A m \in Messages : a.uid[m] = st.uid[m]
    BY <1>2, <1>3, <1>10
  <2>2. CASE disk = NoState
    <3>1. told = {}
      <4> SUFFICES ASSUME NEW p \in told PROVE FALSE
        OBVIOUS
      <4>1. PICK m \in Messages : \E i \in 1 .. Len(ids) : ids[i] = m
        BY DEF Told
      <4> QED BY <4>1, <1>5, <1>7, <2>1, <2>2 DEF Follows
    <3>2. \A m \in Messages : disk.uid[m] = 0
      BY <2>2 DEF NoState
    <3> QED BY <1>3, <1>4, <1>5, <2>1, <2>2, <3>1, <3>2 DEF StableInv, Follows
  <2>3. CASE disk # NoState
    <3>1. a.validity = disk.validity
      BY <1>2, <1>5, <2>3 DEF Follows
    <3> QED BY <1>3, <1>4, <1>5, <1>8, <2>1, <2>3, <3>1 DEF StableInv, Follows
  <2> QED BY <2>2, <2>3
<1>11. CASE N # {}
  <2>1. disk' = a /\ disk' # NoState
    BY <1>3, <1>6, <1>11, NoStateFacts
  <2>2. \A m \in Messages :
           a.uid[m] # 0 => [validity |-> a.validity, uid |-> a.uid[m], msg |-> m] \in served'
    <3> SUFFICES ASSUME NEW m \in Messages, a.uid[m] # 0, m \notin N
                 PROVE  [validity |-> a.validity, uid |-> a.uid[m], msg |-> m] \in served'
      BY <1>3, <1>9
    <3>1. st.uid[m] # 0 /\ a.uid[m] = st.uid[m]
      BY <1>2
    <3>2. disk # NoState /\ a.validity = disk.validity /\ a.uid[m] = disk.uid[m]
      BY <1>2, <1>5, <3>1 DEF Follows
    <3> QED BY <1>3, <1>4, <3>1, <3>2 DEF StableInv
  <2>3. \A m \in Messages : a.uid[m] # MaxUid
    BY <2>2, NumbersAssumption DEF Unsaturated
  <2>4. IsCoherent(a)
    BY <1>2, <1>6, <2>3 DEF IsCoherent, Below, OneOwner
  <2>5. \A p \in served' : p.validity = a.validity
    BY <1>2, <1>3, <1>4, <1>5, <1>8 DEF StableInv, Follows
  <2>6. Follows(cache)'
    BY <1>3, <2>1 DEF Follows
  <2> QED BY <2>1, <2>2, <2>4, <2>5, <2>6 DEF StableInv, IsCoherent
<1> QED BY <1>10, <1>11

LEMMA StableStep == IInv /\ StableInv /\ [Next]_vars => StableInv'
<1> SUFFICES ASSUME IInv, StableInv, [Next]_vars PROVE StableInv'
  OBVIOUS
<1>1. faults \in Nat
  BY NumbersAssumption DEF IInv, TypeOK
<1>2. CASE Fault
  BY <1>1, <1>2 DEF Fault, StableInv
<1>3. ASSUME NEW ids \in Catalogues, Resolve(ids) PROVE StableInv'
  BY <1>3, ResolveKeepsStable
<1>4. CASE Restart
  BY <1>4 DEF Restart, StableInv, Unsaturated, IsCoherent
<1>5. CASE Tick
  BY <1>5 DEF Tick, StableInv, Unsaturated, IsCoherent, Follows
<1>6. CASE UNCHANGED vars
  BY <1>6 DEF vars, StableInv, Unsaturated, IsCoherent, Follows
<1> QED BY <1>2, <1>3, <1>4, <1>5, <1>6
        DEF Next, ResolveUnsaved, ResolveTorn, ResolveUnread, CrashInPersist, FileDamaged

\* As long as nothing fails and the UIDs are not used up, load_or_fresh always finds
\* the state that was served, so that clients keep what they cached.
THEOREM ValidityStays == Spec => []ValidityIsStable
<1>1. Init => StableInv
  BY NoStateFacts DEF Init, StableInv, NoState
<1>2. StableInv => ValidityIsStable
  BY DEF StableInv, ValidityIsStable, Unsaturated
<1> QED BY <1>1, <1>2, StableStep, Invariance, PTL DEF Spec

----------------------------------------------------------------------------
(* Counters with room *)

\* The counter counts the UIDs given, which lie below it.
Counted(st) ==
    /\ st.next = 1 + Cardinality({m \in Messages : st.uid[m] # 0})
    /\ \A m \in Messages : st.uid[m] < st.next

\* With more UIDs than messages the counter never saturates, and new messages
\* get higher UIDs than all those before.
LEMMA AssignCounts ==
    ASSUME Cardinality(Messages) < MaxUid, NEW st \in States, NEW ids \in Catalogues, Counted(st)
    PROVE  LET a == Assign(st, ids) IN
           /\ Counted(a)
           /\ \A m \in Messages : m \in New(st, ids) => a.uid[m] >= st.next
           /\ \A m \in Messages : m \notin New(st, ids) => a.uid[m] = st.uid[m]
<1> DEFINE N == New(st, ids)
           K == {m \in Messages : st.uid[m] # 0}
           a == Assign(st, ids)
           c == Cardinality(N)
<1>1. N \subseteq Messages /\ \A m \in N : st.uid[m] = 0
  BY DEF New
<1>2. IsFiniteSet(N) /\ IsFiniteSet(K) /\ c \in Nat /\ Cardinality(K) \in Nat
  BY <1>1, FS_Subset, FS_CardinalityType, MessagesAssumption
<1>3. Cardinality(N \cup K) = c + Cardinality(K)
  <2>1. N \cap K = {}
    BY <1>1
  <2>2. Cardinality(N \cap K) = 0
    BY <2>1, FS_EmptySet
  <2>3. Cardinality(N \cup K) = c + Cardinality(K) - Cardinality(N \cap K)
    BY <1>2, FS_Union
  <2> HIDE DEF N, K, c
  <2> QED BY <1>2, <2>2, <2>3
<1>4. Cardinality(N \cup K) <= Cardinality(Messages) /\ Cardinality(Messages) \in Nat
  <2>1. N \cup K \in SUBSET Messages
    BY <1>1
  <2> HIDE DEF N, K
  <2> QED BY <2>1, FS_Subset, FS_CardinalityType, MessagesAssumption
<1>5. st.next \in Nat /\ st.next = 1 + Cardinality(K) /\ \A m \in Messages : st.uid[m] < st.next /\ st.uid[m] \in Nat
  BY NumbersAssumption DEF Counted, States
<1>6. \A m \in N : Rank(st, ids, m) \in Nat /\ Rank(st, ids, m) < c
  BY RankInNew DEF Rank
<1>7. \A k \in Nat : k <= c => SaturatingAdd(st.next, k) = st.next + k
  <2> HIDE DEF N, K, c
  <2>1. st.next + c <= MaxUid
    BY <1>2, <1>3, <1>4, <1>5, NumbersAssumption
  <2> QED BY <1>2, <1>5, <2>1, NumbersAssumption DEF SaturatingAdd
<1>8. /\ a.next = SaturatingAdd(st.next, c)
      /\ \A m \in N : a.uid[m] = SaturatingAdd(st.next, Rank(st, ids, m))
      /\ \A m \in Messages \ N : a.uid[m] = st.uid[m]
  BY <1>1 DEF Assign, States, Rank
<1> HIDE DEF N, c, a
<1>9. a.next = st.next + c
  BY <1>2, <1>7, <1>8
<1>10. ASSUME NEW m \in N PROVE a.uid[m] \in Nat /\ a.uid[m] >= st.next /\ a.uid[m] < a.next /\ a.uid[m] # 0
  <2>1. a.uid[m] = st.next + Rank(st, ids, m)
    BY <1>2, <1>6, <1>7, <1>8
  <2> QED BY <1>2, <1>5, <1>6, <1>9, <2>1
<1>11. ASSUME NEW m \in Messages, m \notin N PROVE a.uid[m] = st.uid[m] /\ a.uid[m] < a.next
  <2>1. m \in Messages \ N
    BY <1>11
  <2>2. a.uid[m] = st.uid[m]
    BY <1>8, <2>1
  <2> QED BY <1>2, <1>5, <1>9, <2>2
<1>12. {m \in Messages : a.uid[m] # 0} = N \cup K
  BY <1>1, <1>10, <1>11
<1>13. a.next = 1 + Cardinality({m \in Messages : a.uid[m] # 0})
  <2> HIDE DEF K
  <2> QED BY <1>2, <1>3, <1>5, <1>9, <1>12
<1>14. Counted(a)
  BY <1>10, <1>11, <1>13 DEF Counted
<1> QED BY <1>10, <1>11, <1>14 DEF a, N

\* A state that assigned nothing counts.
LEMMA EmptyCounts ==
    ASSUME NEW st, st.next = 1, \A m \in Messages : st.uid[m] = 0
    PROVE  Counted(st)
<1>1. {m \in Messages : st.uid[m] # 0} = {}
  OBVIOUS
<1>2. Cardinality({m \in Messages : st.uid[m] # 0}) = 0
  BY <1>1, FS_EmptySet
<1> QED BY <1>2 DEF Counted

\* A resolve without errors: counters keep counting, UIDs go to the messages
\* asked for, and above all those the process had given before.
LEMMA ResolveCounts ==
    ASSUME Cardinality(Messages) < MaxUid, IInv, Counted(cache), IsCoherent(disk) => Counted(disk),
           NEW ids \in Catalogues, Resolve(ids)
    PROVE  /\ Counted(cache') /\ (IsCoherent(disk)' => Counted(disk'))
           /\ \A m \in Messages : cache'.uid[m] # 0 \/ disk'.uid[m] # 0 =>
                 cache.uid[m] # 0 \/ disk.uid[m] # 0 \/ \E i \in 1 .. Len(ids) : ids[i] = m
           /\ \A m, n \in Messages :
                 cache.uid[n] # 0 /\ cache.uid[m] = 0 /\ cache'.uid[m] # 0 => cache.uid[n] < cache'.uid[m]
<1> DEFINE st == Current
           a == Assign(st, ids)
<1>1. cache' = a /\ (disk' = disk \/ disk' = a)
  BY DEF Resolve, Serve, Save
<1>2. Fresh.next = 1 /\ \A m \in Messages : Fresh.uid[m] = 0
  BY DEF Fresh, NoState
<1>3. Counted(st)
  BY <1>2, EmptyCounts DEF Current, LoadOrFresh
<1>4. st \in States
  BY CurrentIsGood DEF Good
<1>0. Assign(st, ids) \in States
  BY CurrentIsGood, AssignFacts DEF Good
<1>5. \A m \in Messages : st.uid[m] # 0 => cache.uid[m] # 0 \/ disk.uid[m] # 0
  BY <1>2 DEF Current, LoadOrFresh
<1>6. cache # NoState => st = cache
  BY DEF Current
<1>7. \A m \in Messages : NoState.uid[m] = 0
  BY DEF NoState
<1> HIDE DEF st
<1>8. /\ Counted(a)
      /\ \A m \in Messages : m \in New(st, ids) => a.uid[m] >= st.next
      /\ \A m \in Messages : m \notin New(st, ids) => a.uid[m] = st.uid[m]
  BY <1>3, <1>4, AssignCounts
<1>9. \A m \in New(st, ids) : \E i \in 1 .. Len(ids) : ids[i] = m
  BY DEF New
<1> HIDE DEF a
<1>10. IsCoherent(disk)' => Counted(disk')
  <2>1. CASE disk' = disk
    BY <2>1 DEF IsCoherent
  <2>2. CASE disk' = a
    BY <1>8, <2>2
  <2> QED BY <1>1, <2>1, <2>2
<1>11. ASSUME NEW m \in Messages, cache'.uid[m] # 0 \/ disk'.uid[m] # 0,
              ~\E i \in 1 .. Len(ids) : ids[i] = m
       PROVE  cache.uid[m] # 0 \/ disk.uid[m] # 0
  <2>1. a.uid[m] = st.uid[m]
    BY <1>8, <1>9, <1>11
  <2> QED BY <1>1, <1>5, <1>11, <2>1
<1>12. ASSUME NEW m \in Messages, NEW n \in Messages,
              cache.uid[n] # 0, cache.uid[m] = 0, cache'.uid[m] # 0
       PROVE  cache.uid[n] < cache'.uid[m]
  <2>1. st = cache
    BY <1>6, <1>7, <1>12
  <2>2. a.uid[m] # st.uid[m]
    BY <1>1, <1>12, <2>1
  <2>3. a.uid[m] >= st.next
    BY <1>8, <2>2
  <2>4. st.uid[n] < st.next
    BY <1>3 DEF Counted
  <2>5. a \in States
    BY <1>0 DEF a
  <2> DEFINE x == a.uid[m]
             y == st.uid[n]
  <2>6. x \in Nat /\ y \in Nat /\ st.next \in Nat
    BY <1>4, <2>5, NumbersAssumption DEF States
  <2> HIDE DEF x, y
  <2>7. y < x
    BY <2>3, <2>4, <2>6 DEF x, y
  <2> QED BY <1>1, <2>1, <2>7 DEF x, y
<1> QED BY <1>1, <1>8, <1>10, <1>11, <1>12

=============================================================================
