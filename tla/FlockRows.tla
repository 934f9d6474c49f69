------------------------------ MODULE FlockRows ------------------------------
(***************************************************************************)
(* The detection table as the C code walks it: a sequence of rows with at  *)
(* most `cap` entries, searched linearly by address, appended to while     *)
(* there is room, and reclaiming the weakest ARCHIVED row when there is    *)
(* none.  A row is a record with at least the fields mac, conf, epoch and  *)
(* archived; the modules that hold a table decide what else it carries.    *)
(***************************************************************************)
EXTENDS Integers, Sequences, FiniteSets, SequencesExt

RowsOf(t, d) == {i \in DOMAIN t : t[i].mac = d}

\* Seeded defect: the lookup passes over restored rows.
HasLive(t, d) == \E i \in RowsOf(t, d) : ~t[i].archived

Has(t, d) == RowsOf(t, d) # {}

\* The lookup loop stops at the first row that carries the address.
IndexOf(t, d) == Min(RowsOf(t, d))

MacsOf(t) == {t[i].mac : i \in DOMAIN t}

ArchivedIn(t) == {i \in DOMAIN t : t[i].archived}

\* Weaker evidence goes first; on the same rung the older sighting does.
EvictBetter(a, b) ==
  \/ a.conf < b.conf
  \/ a.conf = b.conf /\ a.epoch < b.epoch

\* Seeded defect: the scan forgets to skip the live rows.
VictimOfAny(t) ==
  Min({i \in DOMAIN t : \A j \in DOMAIN t : ~EvictBetter(t[j], t[i])})

\* The scan over the archived rows keeps its candidate unless a later row is
\* strictly better to drop: the first of the least valuable ones.
Victim(t) ==
  Min({i \in ArchivedIn(t) : \A j \in ArchivedIn(t) : ~EvictBetter(t[j], t[i])})

\* The slot a report about d uses; 0 when the table is full of live rows.
SlotFor(t, d, cap) ==
  IF Has(t, d) THEN IndexOf(t, d)
  ELSE IF Len(t) < cap THEN Len(t) + 1
  ELSE IF ArchivedIn(t) # {} THEN Victim(t)
  ELSE 0

PutRow(t, i, r) == IF i = Len(t) + 1 THEN Append(t, r) ELSE [t EXCEPT ![i] = r]

\* Deleting one row closes the gap: later rows move down by one.
CloseGap(t, i) == [j \in 1 .. Len(t) - 1 |-> IF j < i THEN t[j] ELSE t[j + 1]]

\* The table left by the compaction loops (`if(w != i) flock[w] = flock[i]`) when
\* exactly the rows whose index is in K survive, in their old order.  There is
\* one such sequence; a set, so that a step can pick it with \E.
Compactions(t, K) ==
  LET n == Cardinality(K)
  IN  {[j \in 1 .. n |-> t[e[j]]] :
         e \in {f \in [1 .. n -> K] : /\ K = {f[a] : a \in 1 .. n}
                                    /\ \A a, b \in 1 .. n : a < b => f[a] < f[b]}}

=============================================================================
