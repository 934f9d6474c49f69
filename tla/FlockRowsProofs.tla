--------------------------- MODULE FlockRowsProofs ---------------------------
(***************************************************************************)
(* Facts about the table's operators, for every table and every capacity:  *)
(* the lookup and the victim scan find a row when there is one, the slot   *)
(* they lead to is inside the table, and putting, deleting and compacting  *)
(* rows yields a table again, no longer than allowed.                      *)
(***************************************************************************)
EXTENDS FlockRows, TLAPS, WellFoundedInduction, FiniteSetTheorems

\* A non-empty set of naturals has a least element.
LEMMA NatMin ==
  ASSUME NEW T \in SUBSET Nat, T # {}
  PROVE  \E m \in T : \A n \in T : m <= n
<1>1. PICK m \in T : \A n \in T : ~(<<n, m>> \in OpToRel(<, Nat))
  BY NatLessThanWellFounded, WFMin
<1>2. \A n \in T : ~(n < m)
  BY <1>1 DEF OpToRel
<1> QED BY <1>2

\* Min picks a member: the linear scans of the code end at a row.
LEMMA MinMember ==
  ASSUME NEW T \in SUBSET Nat, T # {}
  PROVE  Min(T) \in T /\ \A n \in T : Min(T) <= n
BY NatMin DEF Min

\* The lookup that succeeds ends at a row of that device.
LEMMA IndexFound ==
  ASSUME NEW R, NEW t \in Seq(R), NEW d, Has(t, d)
  PROVE  IndexOf(t, d) \in DOMAIN t /\ t[IndexOf(t, d)].mac = d
<1>1. RowsOf(t, d) \in SUBSET Nat /\ RowsOf(t, d) # {}
  BY DEF RowsOf, Has
<1>2. Min(RowsOf(t, d)) \in RowsOf(t, d)
  BY <1>1, MinMember
<1> QED BY <1>2 DEF IndexOf, RowsOf

\* Among archived rows one is least worth keeping, so the scan has a victim.
LEMMA VictimFound ==
  ASSUME NEW R, \A r \in R : r.conf \in Nat /\ r.epoch \in Nat,
         NEW t \in Seq(R), ArchivedIn(t) # {}
  PROVE  Victim(t) \in ArchivedIn(t)
<1> DEFINE A == ArchivedIn(t)
           confs == {t[i].conf : i \in A}
<1>1. A \in SUBSET Nat /\ A \subseteq DOMAIN t
  BY DEF ArchivedIn
<1>2. \A i \in A : t[i].conf \in Nat /\ t[i].epoch \in Nat
  BY <1>1
<1>3. PICK c \in confs : \A x \in confs : c <= x
  <2>1. confs \in SUBSET Nat /\ confs # {}
    BY <1>2
  <2> QED BY <2>1, NatMin
<1> DEFINE B == {i \in A : t[i].conf = c}
           epochs == {t[i].epoch : i \in B}
<1>4. PICK e \in epochs : \A x \in epochs : e <= x
  <2>1. epochs \in SUBSET Nat /\ epochs # {}
    BY <1>2, <1>3
  <2> QED BY <2>1, NatMin
<1>5. PICK i \in A : t[i].conf = c /\ t[i].epoch = e
  BY <1>4
<1>6. \A j \in A : ~EvictBetter(t[j], t[i])
  <2> SUFFICES ASSUME NEW j \in A, EvictBetter(t[j], t[i]) PROVE FALSE
    OBVIOUS
  <2>1. c <= t[j].conf
    BY <1>3
  <2>2. CASE t[j].conf = c
    <3>1. e <= t[j].epoch
      BY <1>4, <2>2
    <3> QED BY <3>1, <1>2, <1>5, <2>2 DEF EvictBetter
  <2>3. CASE t[j].conf # c
    BY <2>1, <2>3, <1>2, <1>5 DEF EvictBetter
  <2> QED BY <2>2, <2>3
<1> DEFINE W == {k \in A : \A j \in A : ~EvictBetter(t[j], t[k])}
<1>7. W \in SUBSET Nat /\ W # {}
  BY <1>1, <1>5, <1>6
<1>8. Min(W) \in W
  BY <1>7, MinMember
<1> QED BY <1>8 DEF Victim

\* A report lands on its device's row, on a restored row it may take over, or right
\* behind the last row, never beyond the capacity.
LEMMA SlotMeaning ==
  ASSUME NEW R, \A r \in R : r.conf \in Nat /\ r.epoch \in Nat,
         NEW t \in Seq(R), NEW d, NEW cap \in Nat
  PROVE  LET k == SlotFor(t, d, cap)
         IN  \/ k = 0 /\ ~Has(t, d)
             \/ k \in DOMAIN t /\ Has(t, d) /\ t[k].mac = d
             \/ k \in DOMAIN t /\ ~Has(t, d) /\ t[k].archived
             \/ k = Len(t) + 1 /\ Len(t) < cap /\ ~Has(t, d)
<1>1. CASE Has(t, d)
  BY <1>1, IndexFound DEF SlotFor
<1>2. CASE ~Has(t, d) /\ Len(t) < cap
  BY <1>2 DEF SlotFor
<1>3. CASE ~Has(t, d) /\ ~(Len(t) < cap) /\ ArchivedIn(t) # {}
  <2>1. Victim(t) \in ArchivedIn(t)
    BY <1>3, VictimFound
  <2> QED BY <1>3, <2>1 DEF SlotFor, ArchivedIn
<1>4. CASE ~Has(t, d) /\ ~(Len(t) < cap) /\ ArchivedIn(t) = {}
  BY <1>4 DEF SlotFor
<1> QED BY <1>1, <1>2, <1>3, <1>4

\* Putting a row keeps the table a table and grows it by at most one.
LEMMA PutRowType ==
  ASSUME NEW R, NEW t \in Seq(R), NEW r \in R,
         NEW k \in DOMAIN t \cup {Len(t) + 1}
  PROVE  /\ PutRow(t, k, r) \in Seq(R)
         /\ Len(PutRow(t, k, r)) = (IF k = Len(t) + 1 THEN Len(t) + 1 ELSE Len(t))
BY DEF PutRow

\* Deleting a row leaves a table with one row fewer.
LEMMA CloseGapType ==
  ASSUME NEW R, NEW t \in Seq(R), NEW i \in DOMAIN t
  PROVE  CloseGap(t, i) \in Seq(R) /\ Len(CloseGap(t, i)) = Len(t) - 1
<1>1. \A j \in 1 .. Len(t) - 1 : (IF j < i THEN t[j] ELSE t[j + 1]) \in R
  OBVIOUS
<1> QED BY <1>1 DEF CloseGap

\* A compaction leaves a table that is no longer than it was.
LEMMA CompactionType ==
  ASSUME NEW R, NEW t \in Seq(R), NEW K \in SUBSET DOMAIN t,
         NEW u \in Compactions(t, K)
  PROVE  u \in Seq(R) /\ Len(u) <= Len(t)
<1> DEFINE n == Cardinality(K)
<1>1. IsFiniteSet(K) /\ n \in Nat /\ n <= Len(t)
  <2>1. IsFiniteSet(1 .. Len(t)) /\ Cardinality(1 .. Len(t)) = Len(t)
    <3>1. Len(t) \in Nat /\ 1 \in Int
      OBVIOUS
    <3> QED BY <3>1, FS_Interval, Z3
  <2>2. DOMAIN t = 1 .. Len(t)
    OBVIOUS
  <2> QED BY <2>1, <2>2, FS_Subset, FS_CardinalityType
<1>2. PICK e \in [1 .. n -> K] : u = [j \in 1 .. n |-> t[e[j]]]
  BY DEF Compactions
<1>3. \A j \in 1 .. n : t[e[j]] \in R
  OBVIOUS
<1> QED BY <1>1, <1>2, <1>3

\* A compaction keeps exactly the chosen rows.
LEMMA CompactionKeeps ==
  ASSUME NEW R, NEW t \in Seq(R), NEW K \in SUBSET DOMAIN t,
         NEW u \in Compactions(t, K)
  PROVE  MacsOf(u) = {t[i].mac : i \in K}
<1> DEFINE n == Cardinality(K)
<1>1. n \in Nat
  <2>1. IsFiniteSet(DOMAIN t)
    BY FS_Interval
  <2> QED BY <2>1, FS_Subset, FS_CardinalityType
<1>2. PICK e \in [1 .. n -> K] :
        u = [j \in 1 .. n |-> t[e[j]]] /\ K = {e[a] : a \in 1 .. n}
  BY DEF Compactions
<1>3. DOMAIN u = 1 .. n
  BY <1>2
<1>4. \A j \in 1 .. n : u[j].mac = t[e[j]].mac /\ e[j] \in K
  BY <1>2
<1>5. \A i \in K : \E j \in 1 .. n : e[j] = i
  BY <1>2
<1> QED BY <1>3, <1>4, <1>5 DEF MacsOf

\* Every row of a compacted table is one of the old rows, and two different rows
\* come from two different ones.
LEMMA CompactionOrigin ==
  ASSUME NEW R, NEW t \in Seq(R), NEW K \in SUBSET DOMAIN t,
         NEW u \in Compactions(t, K)
  PROVE  \E e \in [DOMAIN u -> K] :
           /\ \A a \in DOMAIN u : u[a] = t[e[a]]
           /\ \A a, b \in DOMAIN u : e[a] = e[b] => a = b
           /\ K = {e[a] : a \in DOMAIN u}
<1> DEFINE n == Cardinality(K)
<1>1. n \in Nat
  <2>1. IsFiniteSet(DOMAIN t)
    BY FS_Interval
  <2> QED BY <2>1, FS_Subset, FS_CardinalityType
<1>2. PICK e \in [1 .. n -> K] :
        /\ u = [j \in 1 .. n |-> t[e[j]]]
        /\ K = {e[a] : a \in 1 .. n}
        /\ \A a, b \in 1 .. n : a < b => e[a] < e[b]
  BY DEF Compactions
<1> HIDE DEF n
<1>3. DOMAIN u = 1 .. n
  BY <1>2
<1>4. \A a \in 1 .. n : u[a] = t[e[a]] /\ e[a] \in Nat
  BY <1>2
<1>5. \A a, b \in 1 .. n : e[a] = e[b] => a = b
  <2> SUFFICES ASSUME NEW a \in 1 .. n, NEW b \in 1 .. n, a # b
               PROVE  e[a] # e[b]
    OBVIOUS
  <2>1. a \in Nat /\ b \in Nat /\ e[a] \in Nat /\ e[b] \in Nat
    BY <1>4
  <2>2. a < b \/ b < a
    BY <2>1
  <2> QED BY <1>2, <2>1, <2>2
<1> QED BY <1>2, <1>3, <1>4, <1>5

=============================================================================
