---------------------------- MODULE HitsStoreProps ----------------------------
(***************************************************************************)
(* What the hit store promises: its type, the survival of saved history    *)
(* across crashes and card faults, the meaning of the dirty flag, and what *)
(* must eventually reach the card.                                         *)
(***************************************************************************)
EXTENDS HitsStore

\* The shape of the state; the table never outgrows its RECON_FLOCK_MAX slots,
\* although loads, reports and deletions all move its count.
TypeOK ==
  /\ csv \in File /\ tmp \in File
  /\ saveHits \in BOOLEAN
  /\ ignored \subseteq Devices
  /\ running \in BOOLEAN /\ scanning \in BOOLEAN /\ resident \in BOOLEAN
  /\ table \in Seq(Row) /\ Len(table) <= Cap
  /\ dirty \in BOOLEAN /\ seeded \in BOOLEAN
  /\ clock \in Nat
  /\ pc \in Places /\ job \in Jobs
  /\ target \subseteq Devices
  /\ total \in Nat /\ next \in Nat \ {0}
  /\ faults \in Nat /\ crashes \in Nat
  /\ vault \in BOOLEAN
  /\ steady \subseteq Devices

\* Once a save has completed, every state - in the middle of a later save, after
\* a failed write, after a power cut - has a complete file on the card where the
\* next launch looks for it, until the operator deletes or erases.  This is what
\* writing beside and then replacing is for in recon_hits_save().
AWholeCopySurvives == vault => Recoverable.there /\ Recoverable.whole

\* The order inside the swap, in every state a crash can interrupt: history is
\* only ever on a card that may be written; hits.csv is gone only between its
\* removal and the rename, and by then hits.tmp is complete; the file is erased
\* only when it has stopped counting.  (This is also what makes the survival of a
\* copy inductive.)
SwapDiscipline ==
  /\ pc # "idle" => running
  /\ vault => saveHits
  /\ pc \in {"rows", "swap", "rename"} => saveHits /\ tmp.there
  /\ pc \in {"offTmp", "offCsv"} => ~vault
  /\ pc \in {"swap", "rename"} => tmp.whole
  /\ running /\ vault /\ pc # "rename" => csv.there /\ csv.whole

\* A completed write holds every device that was in the table from the save's
\* first step to its last, although the worker appends, merges and evicts between
\* the rows: recon_hits_save() reads the table one index at a time.
SnapshotIsRegular == pc = "swap" => steady \subseteq MacsOf(tmp.rows)

\* The store seen as a ledger of devices.
Ledger == INSTANCE HitsLedger WITH
  held <- MacsOf(table), kept <- MacsOf(Recoverable.rows), durable <- vault,
  pledge <- steady, banned <- ignored, enabled <- saveHits

\* Every step of the store is a step of the ledger or changes nothing there: a
\* completed save is replaced only by another completed save or by the operator,
\* it holds every device that was held throughout, and a launch restores exactly
\* what is kept, less the exclusions.
KeepsTheLedger == Ledger!Spec

LiveRows(t) == {i \in DOMAIN t : ~t[i].archived}

\* Row i of the table is on the card as it stands.
OnCard(i) == \E k \in DOMAIN Recoverable.rows : Recoverable.rows[k] = Stored(table[i])

\* The dirty flag is honest: whenever the GUI thread is between handlers and the
\* flag is down, the card holds the latest sighting of every live row.  It is why
\* recon_hits_autosave_tick() clears the flag before it writes.  (vault: a save
\* has completed since Save hits was last switched.)
CleanMeansSaved ==
  Idle /\ saveHits /\ vault /\ ~dirty => \A i \in LiveRows(table) : OnCard(i)

\* A live row that no whole file on the card knows about.
Unsaved(d) ==
  /\ running /\ saveHits
  /\ \E i \in LiveRows(table) : table[i].mac = d
  /\ ~(Recoverable.whole /\ d \in MacsOf(Recoverable.rows))

\* A detection that dirtied the table reaches the card, or the app stops, the
\* setting is switched off, or the row is deleted: the autosave's 30 s bound.  One
\* refused rename does not change that: the copy under the temporary name counts.
UnsavedIsFlushed == \A d \in Devices : (dirty /\ Unsaved(d)) ~> ~Unsaved(d)

=============================================================================
