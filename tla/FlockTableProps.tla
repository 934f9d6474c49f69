--------------------------- MODULE FlockTableProps ---------------------------
(***************************************************************************)
(* What a session of the detection table promises: one row and at most one *)
(* alert per device, no camera that stays silent without a reason, no live *)
(* row lost to the worker, and exclusions that hold.                       *)
(***************************************************************************)
EXTENDS FlockTable

\* The lines of ignored.txt, and what may be read from it.
Texts == Seq((Devices \cup Fps \cup {"#"}) \X Nat)
Lines == [text : Texts, ended : BOOLEAN]

\* The shape of the state; the table stays within its capacity.
TypeOK ==
  /\ table \in Seq(Row) /\ Len(table) <= Cap
  /\ tick \in Nat /\ rung \in Rungs
  /\ haveFired \in BOOLEAN /\ lastAlert \in Nat /\ pending \in BOOLEAN
  /\ file \in Seq(Lines)
  /\ \A i \in DOMAIN file : ~file[i].ended => i = Len(file)
  /\ ramMacs \subseteq Texts /\ ramFps \subseteq Texts
  /\ Range(have.macs) \subseteq Texts /\ Range(have.fps) \subseteq Texts
  /\ apart \in BOOLEAN
  /\ menu \in 0 .. Cap /\ chosen \in Devices \cup {NoFp}
  /\ pc \in {"idle", "read", "listMac", "listFp", "reread", "purge"}
  /\ target \in [mac : Devices \cup {NoFp}, fp : Fps \cup {NoFp}]
  /\ Idle \/ target.mac \in Devices
  /\ wrote \in BOOLEAN
  /\ presses \in Nat /\ faults \in Nat
  /\ told \in [Devices -> Nat]
  /\ excused \subseteq Devices

Rows == DOMAIN table
Live == {i \in Rows : ~table[i].archived}

\* Within a session no address gets two rows, although rows are appended, evicted,
\* compacted and deleted by two threads.
OneRowEach == \A i, j \in Rows : table[i].mac = table[j].mac => i = j

\* flock_alert_should_fire_ex() "fires at most ONCE per device": not again when the
\* device climbs further, when its row was restored from an earlier session, when
\* the alert level changes, or when it is met after other devices.  (A row that the
\* operator removed makes its device a new one.)
OncePerDevice == \A d \in Devices : told[d] <= 1

\* No camera stays silent without a reason: a live row at or above the alert level
\* was announced, or its one crossing fell into the cooldown, or it came back from
\* the card below the level, or the level was moved under it.
NoSilentCamera ==
  \A i \in Live : table[i].conf >= rung =>
    told[table[i].mac] = 1 \/ table[i].mac \in excused

\* "A live entry is never evicted": what the worker does to make room costs a
\* restored row, never a live one; only a deletion and a purge take live rows.
LiveRowsStay ==
  [][~MenuDelete /\ ~Purge => \A i \in Live : \E j \in DOMAIN table' :
       table'[j].mac = table[i].mac /\ ~table'[j].archived]_vars

\* Once an exclusion is in force nothing excluded is on the list, whichever address
\* it used, whatever the worker reported while the exclusion was being written, and
\* whatever the card refused.  Remote ID has no gate, so drones are left out.
NoExcludedRow ==
  pc # "purge" =>
    \A i \in Rows : table[i].mac \in Drones \/ ~Excluded(table[i].mac, table[i].fp)

\* An exclusion that is about to be enforced has its address in ignored.txt, also
\* when the list is at its limit or the fingerprint would do: the fingerprint alone
\* would let the same unit back in after one bad capture.  (A card that failed is the
\* exception: if only the fingerprint could be written, the exclusion stands.)
AddressIsListed ==
  pc \in {"reread", "purge"} =>
    faults > 0 \/ Mac(target.mac) \in Range(sig_db_ignored_read.macs)

\* "Memory and card cannot disagree": what the gate enforces is what would be
\* enforced after a restart.  They do where the card takes a piece of a line and the
\* call ends there, does not give the file back, or does not delete it: from then
\* until the next exclusion that goes through, and never otherwise.
MemoryMatchesCard ==
  Idle /\ ~apart =>
    /\ ramMacs = Range(sig_db_ignored_read.macs)
    /\ ramFps = Range(sig_db_ignored_read.fps)

\* What the operator was promised by "Ignore": it holds now, and it holds after a
\* restart.
ExclusionsHold == NoExcludedRow /\ MemoryMatchesCard

-----------------------------------------------------------------------------
(* What the comments say and the code does not do.                         *)

\* detect_rules.h: a unit first seen below the level and later upgraded "alerts
\* exactly once"; README: the alert "fires once per device".
ExactlyOnce == \A i \in Live : table[i].conf >= rung => told[table[i].mac] = 1

\* recon_app_i.h on hit_menu_idx: "a detection landing mid-edit cannot redirect it
\* at a different camera" - every item acts on the device the menu was opened on.
MenuStaysOnItsDevice ==
  [][MenuEdit \/ MenuDelete \/ MenuIgnore => table[menu].mac = chosen]_vars

=============================================================================
