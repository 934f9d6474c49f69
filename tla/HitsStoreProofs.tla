--------------------------- MODULE HitsStoreProofs ---------------------------
(***************************************************************************)
(* What is proved of HitsStore for every set of devices, every capacity,   *)
(* every number of crashes and card faults: its type, the order inside the *)
(* swap, and that a completed save is never without a copy on the card.    *)
(***************************************************************************)
EXTENDS HitsStoreProps, FlockRowsProofs

-----------------------------------------------------------------------------
(* Types of the pieces the actions are made of.                            *)

\* The rungs and clock readings in a row are numbers, so rows can be ranked.
LEMMA RowFacts ==
  \A r \in Row : r.conf \in Nat /\ r.epoch \in Nat /\ r.mac \in Devices
<1> SUFFICES ASSUME NEW r \in Row
             PROVE  r.conf \in Nat /\ r.epoch \in Nat /\ r.mac \in Devices
  OBVIOUS
<1>1. r.conf \in Confs \cup {0} /\ r.epoch \in Nat /\ r.mac \in Devices
  BY DEF Row
<1>2. \A c \in Confs : c \in Nat
  BY ConfsAssumption
<1>3. r.conf \in Nat
  BY <1>1, <1>2
<1> QED BY <1>1, <1>3

\* A storage fault only counts itself.
LEMMA FaultType ==
  ASSUME TypeOK, NEW kind, Fault(kind)
  PROVE  faults' \in Nat /\ crashes' \in Nat
BY DEF TypeOK, Fault

\* The addresses in a table are devices.
LEMMA MacsType ==
  ASSUME NEW t \in Seq(Row)
  PROVE  MacsOf(t) \in SUBSET Devices
BY RowFacts DEF MacsOf

\* The empty table fits.
LEMMA EmptyTable == <<>> \in Seq(Row) /\ Len(<<>>) <= Cap
BY CapAssumption

\* Storing a row keeps it a row.
LEMMA StoredType ==
  ASSUME NEW r \in Row
  PROVE  Stored(r) \in Row
BY DEF Stored, Row

\* What a load may read is a table that fits.
LEMMA ReadableType ==
  ASSUME NEW f \in File
  PROVE  Readable(f) \in Seq(Row) /\ Len(Readable(f)) <= Cap
<1> DEFINE n == IF Len(f.rows) < Cap THEN Len(f.rows) ELSE Cap
<1>1. f.rows \in Seq(Row) /\ n \in Nat /\ n <= Len(f.rows) /\ n <= Cap
  BY CapAssumption DEF File
<1>2. SubSeq(f.rows, 1, n) \in Seq(Row) /\ Len(SubSeq(f.rows, 1, n)) = n
  BY <1>1
<1> QED BY <1>1, <1>2 DEF Readable

\* An exclusion purge only names rows that are there.
LEMMA NotIgnoredType ==
  ASSUME NEW t \in Seq(Row), NEW gone
  PROVE  NotIgnored(t, gone) \in SUBSET DOMAIN t
BY DEF NotIgnored

\* A purged table is a table, no longer than before.
LEMMA PurgeType ==
  ASSUME NEW t \in Seq(Row), NEW gone, NEW u \in Compactions(t, NotIgnored(t, gone))
  PROVE  u \in Seq(Row) /\ Len(u) <= Len(t)
<1>1. NotIgnored(t, gone) \in SUBSET DOMAIN t
  BY NotIgnoredType
<1> QED BY <1>1, CompactionType

\* Finishing an interrupted swap leaves two files.
LEMMA FinishSwapType ==
  ASSUME TypeOK, FinishSwap
  PROVE  csv' \in File /\ tmp' \in File /\ faults' \in Nat /\ crashes' \in Nat
<1>1. Missing \in File
  BY DEF Missing, File
<1> QED BY <1>1, FaultType DEF FinishSwap, TypeOK, card, env

\* A load fills the table with rows that fit.
LEMMA LoadType ==
  ASSUME TypeOK, LoadHits
  PROVE  /\ csv' \in File /\ tmp' \in File /\ faults' \in Nat /\ crashes' \in Nat
         /\ table' \in Seq(Row) /\ Len(table') <= Cap
         /\ dirty' \in BOOLEAN
<1> DEFINE read == IF saveHits /\ csv'.there THEN Readable(csv') ELSE <<>>
<1>1. csv' \in File /\ tmp' \in File /\ faults' \in Nat /\ crashes' \in Nat
  BY FinishSwapType DEF LoadHits
<1>2. read \in Seq(Row) /\ Len(read) <= Cap
  BY <1>1, ReadableType, CapAssumption
<1>3. table' \in Compactions(read, NotIgnored(read, ignored))
  BY DEF LoadHits
<1>4. table' \in Seq(Row) /\ Len(table') <= Len(read)
  BY <1>2, <1>3, PurgeType
<1>5. dirty' \in BOOLEAN
  BY DEF LoadHits, TypeOK
<1> QED BY <1>1, <1>2, <1>4, <1>5, CapAssumption

\* A sighting leaves a table that fits.
LEMMA SightingType ==
  ASSUME TypeOK, NEW d \in Devices, NEW c \in Confs, RecordSighting(d, c)
  PROVE  /\ table' \in Seq(Row) /\ Len(table') <= Cap
         /\ clock' \in Nat /\ steady' \in SUBSET Devices
<1> DEFINE k == SlotFor(table, d, Cap)
<1>1. table \in Seq(Row) /\ Len(table) <= Cap /\ clock \in Nat
  BY DEF TypeOK
<1>2. PICK now \in {clock, clock + 1} :
        /\ clock' = now
        /\ table' = (IF k = 0 THEN table ELSE Sighted(d, c, now, k))
        /\ steady' = steady \cap MacsOf(table')
  BY DEF RecordSighting
<1>3. \/ k = 0
      \/ k \in DOMAIN table
      \/ k = Len(table) + 1 /\ Len(table) < Cap /\ ~Has(table, d)
  BY <1>1, RowFacts, CapAssumption, SlotMeaning
<1>4. table' \in Seq(Row) /\ Len(table') <= Cap
  <2>1. CASE k = 0
    BY <1>1, <1>2, <2>1
  <2>2. CASE k # 0
    <3> DEFINE old == IF Has(table, d) THEN table[k] ELSE Fresh(d)
    <3>1. old \in Row
      <4>1. Fresh(d) \in Row
        BY DEF Fresh, Row
      <4> QED BY <1>1, <1>3, <2>2, <4>1
    <3>2. Merge(old, c, now) \in Row
      <4>1. (IF c > old.conf THEN c ELSE old.conf) \in Confs \cup {0}
        BY <3>1 DEF Row
      <4>2. now \in Nat
        BY <1>1, <1>2
      <4> HIDE DEF old
      <4> QED BY <3>1, <4>1, <4>2 DEF Merge, Row
    <3>3. table' = PutRow(table, k, Merge(old, c, now))
      BY <1>2, <2>2 DEF Sighted
    <3>4. k \in DOMAIN table \cup {Len(table) + 1}
      BY <1>3, <2>2
    <3>5. k = Len(table) + 1 => Len(table) < Cap
      BY <1>1, <1>3, <2>2
    <3> HIDE DEF old, k
    <3>6. /\ PutRow(table, k, Merge(old, c, now)) \in Seq(Row)
          /\ Len(PutRow(table, k, Merge(old, c, now)))
               = (IF k = Len(table) + 1 THEN Len(table) + 1 ELSE Len(table))
      BY <1>1, <3>2, <3>4, PutRowType
    <3> QED BY <3>3, <3>5, <3>6, <1>1, CapAssumption
  <2> QED BY <2>1, <2>2
<1>5. steady' \in SUBSET Devices
  BY <1>2, <1>4, MacsType
<1> QED BY <1>1, <1>2, <1>4, <1>5

-----------------------------------------------------------------------------
(* Type correctness.                                                       *)

\* The state the first launch finds has the right type.
LEMMA TypeInit == Init => TypeOK
<1> SUFFICES ASSUME Init PROVE TypeOK
  OBVIOUS
<1>1. Missing \in File
  BY DEF Missing, File
<1>2. table \in Seq(Row) /\ Len(table) <= Cap
  BY CapAssumption DEF Init
<1>3. pc \in Places /\ job \in Jobs
  BY DEF Init, Places, Jobs
<1>4. csv \in File /\ tmp \in File
  BY <1>1 DEF Init
<1>5. /\ clock \in Nat /\ total \in Nat /\ next \in Nat \ {0}
      /\ faults \in Nat /\ crashes \in Nat
  BY DEF Init
<1>6. /\ {saveHits, running, scanning, resident, dirty, seeded, vault} \subseteq BOOLEAN
      /\ ignored = {} /\ target = {} /\ steady = {}
  BY DEF Init
<1> QED BY <1>2, <1>3, <1>4, <1>5, <1>6 DEF TypeOK

\* The steps of the save keep the type.
LEMMA TypeSave ==
  ASSUME TypeOK, Save
  PROVE  TypeOK'
<1>1. Missing \in File /\ Emptied \in File
  BY DEF Missing, Emptied, File
<1>2. \A kind : Fault(kind) => faults' \in Nat /\ crashes' \in Nat
  BY FaultType
<1>3. CASE SaveSkip
  BY <1>3 DEF SaveSkip, Leave, SaveUnchanged, TypeOK, Places, card, env
<1>4. CASE SaveOpen
  <2>1. steady' \in SUBSET Devices /\ total' \in Nat /\ next' \in Nat \ {0}
    BY <1>4, MacsType DEF SaveOpen, TypeOK
  <2>2. tmp' \in File /\ pc' \in Places
    BY <1>1, <1>4 DEF SaveOpen, TypeOK, Places
  <2>3. faults' \in Nat /\ crashes' \in Nat
    BY <1>2, <1>4 DEF SaveOpen, TypeOK, env
  <2> QED BY <1>4, <2>1, <2>2, <2>3 DEF SaveOpen, SaveUnchanged, TypeOK
<1>5. CASE SaveRow
  <2>1. tmp' \in File
    <3>1. CASE /\ next <= Len(table)
               /\ tmp' = [tmp EXCEPT !.rows = Append(@, Stored(table[next]))]
      <4>1. Stored(table[next]) \in Row
        <5>1. next \in DOMAIN table
          BY <3>1 DEF TypeOK
        <5> QED BY <5>1, StoredType DEF TypeOK
      <4>2. tmp.rows \in Seq(Row) /\ tmp \in File
        BY DEF TypeOK, File
      <4>3. Append(tmp.rows, Stored(table[next])) \in Seq(Row)
        BY <4>1, <4>2
      <4> QED BY <3>1, <4>2, <4>3 DEF File
    <3>2. CASE UNCHANGED tmp
      BY <3>2 DEF TypeOK
    <3> QED BY <1>5, <3>1, <3>2 DEF SaveRow
  <2>2. next' \in Nat \ {0} /\ total' \in Nat /\ steady' \in SUBSET Devices /\ pc' \in Places
    BY <1>5 DEF SaveRow, TypeOK, Places
  <2>3. faults' \in Nat /\ crashes' \in Nat
    BY <1>2, <1>5 DEF SaveRow, TypeOK, env
  <2> QED BY <1>5, <2>1, <2>2, <2>3 DEF SaveRow, SaveUnchanged, TypeOK
<1>6. CASE SaveClose
  <2>1. tmp' \in File
    BY <1>6 DEF SaveClose, TypeOK, File
  <2> QED BY <1>6, <2>1 DEF SaveClose, SaveUnchanged, TypeOK, Places, loop, env
<1>7. CASE SaveAbandon
  <2>1. tmp' \in File /\ faults' \in Nat /\ crashes' \in Nat
    BY <1>1, <1>2, <1>7 DEF SaveAbandon, TypeOK, env
  <2> QED BY <1>7, <2>1 DEF SaveAbandon, Leave, SaveUnchanged, TypeOK, Places
<1>8. CASE SaveRemoveOld
  <2>1. csv' \in File /\ vault' \in BOOLEAN /\ faults' \in Nat /\ crashes' \in Nat
    BY <1>1, <1>2, <1>8 DEF SaveRemoveOld, TypeOK, env
  <2> QED BY <1>8, <2>1 DEF SaveRemoveOld, SaveUnchanged, TypeOK, Places, loop
<1>9. CASE SaveRename
  <2>1. csv' \in File /\ tmp' \in File /\ faults' \in Nat /\ crashes' \in Nat
    BY <1>1, <1>2, <1>9 DEF SaveRename, TypeOK, env, card
  <2> QED BY <1>9, <2>1 DEF SaveRename, Leave, SaveUnchanged, TypeOK, Places
<1>10. CASE SaveReturn
  BY <1>10 DEF SaveReturn, TypeOK, Places, Jobs, card, loop, env
<1> QED BY <1>3, <1>4, <1>5, <1>6, <1>7, <1>8, <1>9, <1>10 DEF Save

\* The erasures keep the type.
LEMMA TypeErase ==
  ASSUME TypeOK, Erase
  PROVE  TypeOK'
<1>1. Missing \in File
  BY DEF Missing, File
<1>2. \A kind : Fault(kind) => faults' \in Nat /\ crashes' \in Nat
  BY FaultType
<1>3. CASE Unlink
  <2>1. csv' \in File /\ vault' \in BOOLEAN /\ faults' \in Nat /\ crashes' \in Nat
    BY <1>1, <1>2, <1>3 DEF Unlink, TypeOK, env
  <2> QED BY <1>3, <2>1 DEF Unlink, TypeOK, Places, Jobs, loop
<1>4. CASE OffTmp
  <2>1. tmp' \in File /\ faults' \in Nat /\ crashes' \in Nat
    BY <1>1, <1>2, <1>4 DEF OffTmp, TypeOK, env
  <2> QED BY <1>4, <2>1 DEF OffTmp, SaveUnchanged, TypeOK, Places, loop
<1>5. CASE OffCsv
  <2>1. csv' \in File /\ faults' \in Nat /\ crashes' \in Nat
    BY <1>1, <1>2, <1>5 DEF OffCsv, TypeOK, env
  <2>2. table' \in Seq(Row) /\ Len(table') <= Cap
    <3>1. table \in Seq(Row) /\ Len(table) <= Cap /\ Len(table) \in Nat
      BY DEF TypeOK
    <3>2. table' \in Compactions(table, DOMAIN table \ ArchivedIn(table))
      BY <1>5 DEF OffCsv
    <3>3. table' \in Seq(Row) /\ Len(table') <= Len(table)
      BY <3>1, <3>2, CompactionType
    <3> QED BY <3>1, <3>3, CapAssumption
  <2> QED BY <1>5, <2>1, <2>2 DEF OffCsv, TypeOK, Places, loop
<1>6. CASE WipeTmp
  <2>1. tmp' \in File /\ faults' \in Nat /\ crashes' \in Nat
    BY <1>1, <1>2, <1>6 DEF WipeTmp, TypeOK, env
  <2> QED BY <1>6, <2>1 DEF WipeTmp, SaveUnchanged, TypeOK, Places, loop
<1>7. CASE WipeCsv
  <2>1. /\ csv' \in File /\ vault' \in BOOLEAN /\ dirty' \in BOOLEAN
        /\ faults' \in Nat /\ crashes' \in Nat
    BY <1>1, <1>2, <1>7 DEF WipeCsv, TypeOK, env
  <2>2. table' \in Seq(Row) /\ Len(table') <= Cap
    <3>1. table' = <<>> \/ table' = table
      BY <1>7 DEF WipeCsv
    <3> QED BY <3>1, EmptyTable DEF TypeOK
  <2> QED BY <1>7, <2>1, <2>2 DEF WipeCsv, TypeOK, Places, loop
<1> QED BY <1>3, <1>4, <1>5, <1>6, <1>7 DEF Erase

\* Switching off, by whatever cause, keeps the type.
LEMMA TypeOff ==
  ASSUME TypeOK, Off, tmp' \in File, faults' \in Nat, crashes' \in Nat
  PROVE  TypeOK'
<1>1. table' \in Seq(Row) /\ Len(table') <= Cap
  BY EmptyTable DEF Off
<1>2. /\ {running', scanning', resident', dirty', seeded'} \subseteq BOOLEAN
      /\ target' = {} /\ steady' = {} /\ total' = 0 /\ next' = 1
      /\ pc' \in Places /\ job' \in Jobs
  BY DEF Off, Places, Jobs
<1>3. /\ csv' \in File /\ saveHits' \in BOOLEAN /\ ignored' \subseteq Devices
      /\ clock' \in Nat /\ vault' \in BOOLEAN
  BY DEF Off, TypeOK
<1> QED BY <1>1, <1>2, <1>3 DEF TypeOK

\* Editing one row keeps the table's type.
LEMMA EditType ==
  ASSUME TypeOK, NEW i \in DOMAIN table, NEW b \in BOOLEAN
  PROVE  /\ [table EXCEPT ![i].noted = b] \in Seq(Row)
         /\ Len([table EXCEPT ![i].noted = b]) = Len(table)
<1>1. table \in Seq(Row) /\ table[i] \in Row
  BY DEF TypeOK
<1>2. [table[i] EXCEPT !.noted = b] \in Row
  BY <1>1 DEF Row
<1> HIDE DEF Row
<1> QED BY <1>1, <1>2

\* The operator's handlers keep the type.
LEMMA TypeHandler ==
  ASSUME TypeOK, Handler
  PROVE  TypeOK'
<1> USE DEF Places, Jobs
<1>1. table \in Seq(Row) /\ Len(table) <= Cap /\ Len(table) \in Nat
  BY DEF TypeOK
<1>2. CASE FirmwareEnter
  BY <1>2 DEF FirmwareEnter, TypeOK, card, loop, env
<1>3. CASE FirmwareExit
  <2>1. LoadHits
    BY <1>3 DEF FirmwareExit
  <2> QED BY <1>3, <2>1, LoadType DEF FirmwareExit, TypeOK, gui, loop
<1>4. CASE ScanStart
  BY <1>4 DEF ScanStart, TypeOK, card, gui, loop, env
<1>5. CASE ScanStop
  BY <1>5 DEF ScanStop, TypeOK, card, loop, env
<1>6. CASE Quit
  BY <1>6, TypeOff DEF Quit, TypeOK, env
<1>7. ASSUME NEW i \in 1 .. Cap, EditRow(i) PROVE TypeOK'
  <2>1. (~table[i].noted) \in BOOLEAN /\ i \in DOMAIN table
    BY <1>7 DEF EditRow
  <2>2. table' \in Seq(Row) /\ Len(table') <= Cap
    BY <1>1, <1>7, <2>1, EditType DEF EditRow
  <2> QED BY <1>7, <2>2 DEF EditRow, GuiUnchanged, TypeOK, card, loop, env
<1>8. ASSUME NEW i \in 1 .. Cap, MarkInDetail(i) PROVE TypeOK'
  <2>1. (~table[i].noted) \in BOOLEAN /\ i \in DOMAIN table
    BY <1>8 DEF MarkInDetail
  <2>2. table' \in Seq(Row) /\ Len(table') <= Cap
    BY <1>1, <1>8, <2>1, EditType DEF MarkInDetail
  <2> QED BY <1>8, <2>2 DEF MarkInDetail, GuiUnchanged, TypeOK, card, gui, loop, env
<1>9. ASSUME NEW i \in 1 .. Cap, DeleteRow(i) PROVE TypeOK'
  <2>1. table' = CloseGap(table, i) /\ i \in DOMAIN table
    BY <1>9 DEF DeleteRow
  <2>2. table' \in Seq(Row) /\ Len(table') <= Cap
    BY <1>1, <2>1, CloseGapType, CapAssumption
  <2>3. pc' \in Places /\ job' \in Jobs
    BY <1>9 DEF DeleteRow, SaveAfterDelete
  <2> QED BY <1>9, <2>2, <2>3 DEF DeleteRow, GuiUnchanged, TypeOK, card, loop, env
<1>10. ASSUME NEW i \in 1 .. Cap, IgnoreRow(i) PROVE TypeOK'
  <2>1. target' \subseteq Devices
    <3>1. table[i] \in Row
      BY <1>1, <1>10 DEF IgnoreRow
    <3> QED BY <1>10, <3>1, RowFacts DEF IgnoreRow
  <2> QED BY <1>10, <2>1 DEF IgnoreRow, GuiUnchanged, TypeOK, card, loop, env
<1>11. CASE ForgetIgnored
  BY <1>11 DEF ForgetIgnored, TypeOK, card, gui, loop, env
<1>12. CASE ToggleSaveHits
  BY <1>12 DEF ToggleSaveHits, TypeOK, card, loop, env
<1>13. CASE ClearSavedHits
  BY <1>13 DEF ClearSavedHits, SaveUnchanged, TypeOK, card, loop, env
<1>14. CASE ClearMarks
  <2>1. \A i \in DOMAIN table : [table[i] EXCEPT !.noted = FALSE] \in Row
    <3>1. \A i \in DOMAIN table : table[i] \in Row
      BY <1>1
    <3> QED BY <3>1 DEF Row
  <2>2. table' \in Seq(Row) /\ Len(table') <= Cap
    BY <1>1, <1>14, <2>1 DEF ClearMarks
  <2> QED BY <1>14, <2>2 DEF ClearMarks, GuiUnchanged, TypeOK, card, loop, env
<1> QED BY <1>2, <1>3, <1>4, <1>5, <1>6, <1>7, <1>8, <1>9, <1>10, <1>11, <1>12, <1>13,
           <1>14 DEF Handler

\* Every step keeps the type.
LEMMA TypeStep ==
  ASSUME TypeOK, [Next]_vars
  PROVE  TypeOK'
<1> USE DEF Places, Jobs
<1>1. CASE Launch
  <2>1. LoadHits
    BY <1>1 DEF Launch
  <2> QED BY <1>1, <2>1, LoadType DEF Launch, TypeOK, gui, loop
<1>2. CASE PowerLoss
  <2>1. tmp' \in File
    <3>1. ASSUME NEW k \in 0 .. Len(tmp.rows), tmp' = [tmp EXCEPT !.rows = SubSeq(@, 1, k)]
          PROVE  tmp' \in File
      <4>1. tmp \in File /\ tmp.rows \in Seq(Row)
        BY DEF TypeOK, File
      <4>2. SubSeq(tmp.rows, 1, k) \in Seq(Row)
        BY <4>1
      <4> QED BY <3>1, <4>1, <4>2 DEF File
    <3> QED BY <1>2, <3>1 DEF PowerLoss, TypeOK
  <2>2. faults' \in Nat /\ crashes' \in Nat
    BY <1>2 DEF PowerLoss, TypeOK
  <2> QED BY <1>2, <2>1, <2>2, TypeOff DEF PowerLoss
<1>3. CASE AutosaveTick
  <2>1. /\ dirty' \in BOOLEAN /\ seeded' \in BOOLEAN
        /\ pc' \in Places /\ job' \in Jobs
    BY <1>3, Zenon DEF AutosaveTick, TypeOK, Places, Jobs
  <2>2. GuiUnchanged /\ UNCHANGED <<card, table, target, vault>>
    BY <1>3 DEF AutosaveTick
  <2> QED BY <2>1, <2>2 DEF GuiUnchanged, TypeOK, card, loop, env
<1>4. CASE Handler
  BY <1>4, TypeHandler
<1>5. CASE Save
  BY <1>5, TypeSave
<1>6. CASE Erase
  BY <1>6, TypeErase
<1>7. CASE ReleaseTables
  BY <1>7, EmptyTable DEF ReleaseTables, TypeOK, card, loop, env
<1>8. CASE ExcludeDevice
  <2>1. table' \in Seq(Row) /\ Len(table') <= Cap
    <3>1. table \in Seq(Row) /\ Len(table) <= Cap /\ Len(table) \in Nat
      BY DEF TypeOK
    <3>2. CASE table' \in Compactions(table, NotIgnored(table, ignored'))
      <4>1. table' \in Seq(Row) /\ Len(table') <= Len(table)
        BY <3>1, <3>2, PurgeType
      <4> QED BY <3>1, <4>1, CapAssumption
    <3>3. CASE table' = table
      BY <3>1, <3>3
    <3> QED BY <1>8, <3>2, <3>3 DEF ExcludeDevice
  <2>2. /\ ignored' \subseteq Devices /\ target' \subseteq Devices
        /\ dirty' \in BOOLEAN /\ pc' \in Places /\ job' \in Jobs
    BY <1>8 DEF ExcludeDevice, SaveAfterDelete, TypeOK
  <2>3. faults' \in Nat /\ crashes' \in Nat
    BY <1>8, FaultType DEF ExcludeDevice, TypeOK, env
  <2> QED BY <1>8, <2>1, <2>2, <2>3 DEF ExcludeDevice, TypeOK, card, loop
<1>9. CASE QuitAfterSave
  BY <1>9, TypeOff DEF QuitAfterSave, TypeOK, env
<1>10. CASE Worker
  <2>1. ASSUME NEW d \in Devices, NEW c \in Confs, ReportFlock(d, c) PROVE TypeOK'
    <3>1. RecordSighting(d, c)
      BY <2>1 DEF ReportFlock
    <3> QED BY <2>1, <3>1, SightingType DEF ReportFlock, TypeOK, card, gui, loop, env
  <2>2. ASSUME NEW d \in Devices, ReportRemoteId(d) PROVE TypeOK'
    <3>1. RecordSighting(d, TopConf) /\ TopConf \in Confs
      BY <2>2, ConfsAssumption DEF ReportRemoteId
    <3> QED BY <2>2, <3>1, SightingType DEF ReportRemoteId, TypeOK, card, gui, loop, env
  <2> QED BY <1>10, <2>1, <2>2, DevicesAssumption DEF Worker
<1>11. CASE UNCHANGED vars
  BY <1>11 DEF vars, TypeOK
<1> QED BY <1>1, <1>2, <1>3, <1>4, <1>5, <1>6, <1>7, <1>8, <1>9, <1>10, <1>11 DEF Next

\* In every reachable state of every instance the variables have their types, and
\* the table is no longer than its capacity.
THEOREM TypeCorrect == Spec => []TypeOK
<1>1. Init => TypeOK
  BY TypeInit
<1>2. TypeOK /\ [Next]_vars => TypeOK'
  BY TypeStep
<1> QED BY <1>1, <1>2, PTL DEF Spec

-----------------------------------------------------------------------------
(* A completed save survives.  AWholeCopySurvives alone is not inductive: a *)
(* save that truncates hits.tmp is harmless only because hits.csv is there, *)
(* and a removal of hits.csv only because hits.tmp is complete by then.     *)
(* SwapDiscipline says both.                                                *)

Safe == TypeOK /\ SwapDiscipline /\ AWholeCopySurvives

\* A step in which the card refuses no rename: neither the save's nor the one by which
\* a load finishes an interrupted swap.
RenamesTaken ==
  /\ SaveRename /\ ~csv.there => csv' = tmp /\ tmp' = Missing
  /\ LoadHits /\ saveHits /\ ~csv.there /\ tmp.there => csv' = tmp /\ tmp' = Missing

\* A refusal is counted: where the count stands still there was none.
LEMMA NoFault ==
  ASSUME TypeOK, UNCHANGED faults
  PROVE  \A kind : ~Fault(kind)
BY DEF Fault, TypeOK

\* A card that refuses nothing refuses no rename.
LEMMA NoneRefused ==
  ASSUME TypeOK, UNCHANGED faults
  PROVE  RenamesTaken
BY NoFault DEF RenamesTaken, SaveRename, LoadHits, FinishSwap

\* A step that changes nothing refuses nothing.
LEMMA StillTaken ==
  ASSUME TypeOK, [RenamesTaken]_vars
  PROVE  RenamesTaken
<1>1. CASE UNCHANGED vars
  BY <1>1, NoneRefused DEF vars
<1> QED BY <1>1

\* Nothing has been saved yet when the first launch comes.
LEMMA SafeInit == Init => Safe
<1>1. Init => SwapDiscipline /\ AWholeCopySurvives
  BY DEF Init, SwapDiscipline, AWholeCopySurvives
<1> QED BY <1>1, TypeInit DEF Safe

\* The save keeps a whole copy at every one of its steps.
LEMMA SafeSave ==
  ASSUME RenamesTaken, Safe, Save
  PROVE  SwapDiscipline' /\ AWholeCopySurvives'
<1> USE DEF Safe, SwapDiscipline, AWholeCopySurvives, Recoverable
<1>1. CASE SaveSkip
  BY <1>1 DEF SaveSkip, Leave, SaveUnchanged, card
<1>2. CASE SaveOpen
  BY <1>2 DEF SaveOpen, SaveUnchanged, Emptied
<1>3. CASE SaveRow
  <2>1. tmp'.there
    BY <1>3 DEF SaveRow, TypeOK, File
  <2> QED BY <1>3, <2>1 DEF SaveRow, SaveUnchanged
<1>4. CASE SaveClose
  <2>1. tmp'.whole /\ tmp'.there = tmp.there
    BY <1>4 DEF SaveClose, TypeOK, File
  <2> QED BY <1>4, <2>1 DEF SaveClose, SaveUnchanged
<1>5. CASE SaveAbandon
  BY <1>5 DEF SaveAbandon, Leave, SaveUnchanged
<1>6. CASE SaveRemoveOld
  BY <1>6 DEF SaveRemoveOld, SaveUnchanged, Missing
<1>7. CASE SaveRename
  <2>1. \/ ~csv.there /\ csv' = tmp
        \/ csv.there /\ UNCHANGED csv
    BY <1>7 DEF SaveRename, RenamesTaken, card
  <2>2. /\ pc = "rename" /\ pc' = "return"
        /\ UNCHANGED <<vault, saveHits, running>>
    BY <1>7 DEF SaveRename, Leave, SaveUnchanged
  <2> QED BY <2>1, <2>2
<1>8. CASE SaveReturn
  BY <1>8 DEF SaveReturn, card
<1> QED BY <1>1, <1>2, <1>3, <1>4, <1>5, <1>6, <1>7, <1>8 DEF Save

\* A launch finishes the swap a crash cut short, and leaves the rest alone.
LEMMA SafeLoad ==
  ASSUME RenamesTaken, Safe, LoadHits, UNCHANGED <<vault, saveHits>>
  PROVE  /\ vault' => csv'.there /\ csv'.whole
         /\ pc = "idle" => AWholeCopySurvives'
BY DEF Safe, SwapDiscipline, AWholeCopySurvives, Recoverable, LoadHits, FinishSwap, RenamesTaken,
       card, TypeOK

\* Going off, orderly or not, leaves the copy for the next launch.
LEMMA SafeOff ==
  ASSUME Safe, Off, running, tmp' = tmp \/ pc = "rows"
  PROVE  SwapDiscipline' /\ AWholeCopySurvives'
BY DEF Safe, SwapDiscipline, AWholeCopySurvives, Recoverable, Off, TypeOK

\* The operator's handlers never touch a file themselves.
LEMMA SafeHandler ==
  ASSUME RenamesTaken, Safe, Handler
  PROVE  SwapDiscipline' /\ AWholeCopySurvives'
<1>1. CASE FirmwareExit
  <2>1. /\ LoadHits /\ UNCHANGED <<vault, saveHits, running, pc>> /\ pc = "idle"
        /\ running
    BY <1>1 DEF FirmwareExit, Idle, gui
  <2>2. (vault' => csv'.there /\ csv'.whole) /\ AWholeCopySurvives'
    BY <2>1, SafeLoad
  <2> QED BY <2>1, <2>2 DEF Safe, SwapDiscipline
<1>2. CASE Quit
  BY <1>2, SafeOff DEF Quit, Idle
<1> USE DEF Safe, SwapDiscipline, AWholeCopySurvives, Recoverable, Idle, GuiUnchanged, card
<1>3. CASE FirmwareEnter \/ ScanStart \/ ScanStop
  BY <1>3 DEF FirmwareEnter, ScanStart, ScanStop, gui
<1>4. ASSUME NEW i \in 1 .. Cap, EditRow(i) \/ MarkInDetail(i) \/ IgnoreRow(i)
      PROVE  SwapDiscipline' /\ AWholeCopySurvives'
  BY <1>4 DEF EditRow, MarkInDetail, IgnoreRow, gui
<1>5. ASSUME NEW i \in 1 .. Cap, DeleteRow(i)
      PROVE  SwapDiscipline' /\ AWholeCopySurvives'
  BY <1>5 DEF DeleteRow, SaveAfterDelete
<1>6. CASE ForgetIgnored \/ ClearMarks
  BY <1>6 DEF ForgetIgnored, ClearMarks, gui
<1>7. CASE ToggleSaveHits
  BY <1>7 DEF ToggleSaveHits
<1>8. CASE ClearSavedHits
  BY <1>8 DEF ClearSavedHits, SaveUnchanged
<1> QED BY <1>1, <1>2, <1>3, <1>4, <1>5, <1>6, <1>7, <1>8 DEF Handler

\* Every step keeps the order of the swap and the copy.
LEMMA SafeStep ==
  ASSUME RenamesTaken, Safe, [Next]_vars
  PROVE  Safe'
<1>1. TypeOK'
  BY TypeStep DEF Safe
<1>2. SwapDiscipline' /\ AWholeCopySurvives'
  <2>1. CASE Launch
    <3>1. LoadHits /\ UNCHANGED <<vault, saveHits, pc>> /\ ~running
      BY <2>1 DEF Launch, gui
    <3>2. pc = "idle"
      BY <3>1 DEF Safe, SwapDiscipline
    <3>3. (vault' => csv'.there /\ csv'.whole) /\ AWholeCopySurvives'
      BY <3>1, <3>2, SafeLoad
    <3> QED BY <3>1, <3>2, <3>3 DEF Safe, SwapDiscipline
  <2>2. CASE PowerLoss
    BY <2>2, SafeOff DEF PowerLoss
  <2>3. CASE QuitAfterSave
    <3>1. running
      BY <2>3 DEF QuitAfterSave, Safe, SwapDiscipline
    <3> QED BY <2>3, <3>1, SafeOff DEF QuitAfterSave
  <2>4. CASE Handler
    BY <2>4, SafeHandler
  <2>5. CASE Save
    BY <2>5, SafeSave
  <2> USE DEF Safe, SwapDiscipline, AWholeCopySurvives, Recoverable
  <2>6. CASE AutosaveTick
    BY <2>6 DEF AutosaveTick, Idle, GuiUnchanged, card
  <2>7. CASE Erase
    BY <2>7 DEF Erase, Unlink, OffTmp, OffCsv, WipeTmp, WipeCsv, SaveUnchanged, Missing
  <2>8. CASE ReleaseTables \/ ExcludeDevice
    BY <2>8 DEF ReleaseTables, ExcludeDevice, SaveAfterDelete, card
  <2>9. CASE Worker
    BY <2>9 DEF Worker, ReportFlock, ReportRemoteId, card, gui
  <2>10. CASE UNCHANGED vars
    BY <2>10 DEF vars
  <2> QED BY <2>1, <2>2, <2>3, <2>4, <2>5, <2>6, <2>7, <2>8, <2>9, <2>10 DEF Next
<1> QED BY <1>1, <1>2 DEF Safe

\* However many devices report, however often power is lost and however many writes
\* and removals fail: once a save has completed there is a whole file where the next
\* launch looks, until the operator deletes or erases.  The one card operation that
\* must not fail is the rename: a refusal leaves the one good copy under the temporary
\* name, where the next save truncates it.
THEOREM SavedHistorySurvives ==
  Spec /\ [][RenamesTaken]_vars => []AWholeCopySurvives
<1>1. Init => Safe
  BY SafeInit
<1>2. Safe /\ [Next]_vars /\ [RenamesTaken]_vars => Safe'
  BY SafeStep, StillTaken DEF Safe
<1>3. Safe => AWholeCopySurvives
  BY DEF Safe
<1> QED BY <1>1, <1>2, <1>3, PTL DEF Spec

\* In the same behaviours the order inside the swap is never broken.
THEOREM SwapInOrder ==
  Spec /\ [][RenamesTaken]_vars => []SwapDiscipline
<1>1. Init => Safe
  BY SafeInit
<1>2. Safe /\ [Next]_vars /\ [RenamesTaken]_vars => Safe'
  BY SafeStep, StillTaken DEF Safe
<1>3. Safe => SwapDiscipline
  BY DEF Safe
<1> QED BY <1>1, <1>2, <1>3, PTL DEF Spec


-----------------------------------------------------------------------------
(* A completed write is a regular snapshot.  While the rows are written one *)
(* index at a time, a device held since the save began keeps its index, so  *)
(* each index below `next` that carries one has been written already, and   *)
(* none lies beyond the count the save started from.                        *)

Traced ==
  /\ steady \subseteq MacsOf(table)
  /\ \A i \in DOMAIN table : table[i].mac \in steady =>
       i <= total /\ (i < next => table[i].mac \in MacsOf(tmp.rows))

Regular ==
  /\ pc # "idle" => running
  /\ pc = "rows" => Traced
  /\ SnapshotIsRegular

\* A report changes the address in one slot at most, and puts there a device the
\* table did not hold.
LEMMA SightingMacs ==
  ASSUME TypeOK, NEW d \in Devices, NEW c \in Confs, RecordSighting(d, c)
  PROVE  \A i \in DOMAIN table' :
           \/ i \in DOMAIN table /\ table'[i].mac = table[i].mac
           \/ table'[i].mac \notin MacsOf(table)
<1> DEFINE k == SlotFor(table, d, Cap)
           old == IF Has(table, d) THEN table[k] ELSE Fresh(d)
<1>1. table \in Seq(Row)
  BY DEF TypeOK
<1>2. PICK now \in {clock, clock + 1} :
        table' = (IF k = 0 THEN table ELSE Sighted(d, c, now, k))
  BY DEF RecordSighting
<1>3. \/ k = 0 /\ ~Has(table, d)
      \/ k \in DOMAIN table /\ Has(table, d) /\ table[k].mac = d
      \/ k \in DOMAIN table /\ ~Has(table, d) /\ table[k].archived
      \/ k = Len(table) + 1 /\ Len(table) < Cap /\ ~Has(table, d)
  BY <1>1, RowFacts, CapAssumption, SlotMeaning
<1>4. CASE k = 0
  BY <1>2, <1>4
<1>5. CASE k # 0
  <2> DEFINE m == Merge(old, c, now)
  <2>1. table' = PutRow(table, k, m)
    BY <1>2, <1>5 DEF Sighted
  <2>2. m.mac = d
    <3>1. old \in Row /\ old.mac = d
      <4>1. Fresh(d) \in Row /\ Fresh(d).mac = d
        BY DEF Fresh, Row
      <4>2. CASE Has(table, d)
        BY <1>1, <1>3, <1>5, <4>2
      <4>3. CASE ~Has(table, d)
        BY <4>1, <4>3
      <4> QED BY <4>2, <4>3
    <3> HIDE DEF old, k
    <3> QED BY <3>1 DEF Merge, Row
  <2>3. k \in DOMAIN table \/ k = Len(table) + 1
    BY <1>3, <1>5
  <2>4. ~Has(table, d) => d \notin MacsOf(table)
    BY DEF Has, RowsOf, MacsOf
  <2>5. k = Len(table) + 1 => ~Has(table, d)
    BY <1>1, <1>3, <1>5
  <2>6. k \in DOMAIN table => table[k].mac = d \/ ~Has(table, d)
    BY <1>1, <1>3, <1>5
  <2> HIDE DEF k, m
  <2>7. CASE k = Len(table) + 1
    <3>1. table' = Append(table, m)
      BY <2>1, <2>7 DEF PutRow
    <3> QED BY <1>1, <2>2, <2>4, <2>5, <2>7, <3>1
  <2>8. CASE k # Len(table) + 1
    <3>1. table' = [table EXCEPT ![k] = m]
      BY <2>1, <2>8 DEF PutRow
    <3> QED BY <1>1, <2>2, <2>3, <2>4, <2>6, <2>8, <3>1
  <2> QED BY <2>7, <2>8
<1> QED BY <1>4, <1>5

\* What a report leaves of the trace.
LEMMA RegularReport ==
  ASSUME TypeOK, Regular, NEW d \in Devices, NEW c \in Confs, RecordSighting(d, c),
         UNCHANGED <<pc, running, total, next, tmp>>
  PROVE  Regular'
<1>1. steady' = steady \cap MacsOf(table')
  BY DEF RecordSighting
<1>2. ASSUME pc = "rows" PROVE Traced'
  <2> SUFFICES ASSUME NEW i \in DOMAIN table', table'[i].mac \in steady'
               PROVE  i <= total /\ (i < next => table'[i].mac \in MacsOf(tmp.rows))
    BY <1>1 DEF Traced
  <2>1. Traced
    BY <1>2 DEF Regular
  <2>2. table'[i].mac \in MacsOf(table)
    BY <1>1, <2>1 DEF Traced
  <2>3. i \in DOMAIN table /\ table'[i].mac = table[i].mac
    BY <2>2, SightingMacs
  <2> QED BY <1>1, <2>1, <2>3 DEF Traced
<1>3. SnapshotIsRegular'
  BY <1>1 DEF Regular, SnapshotIsRegular
<1> QED BY <1>2, <1>3 DEF Regular

\* A row that is written is in the file, and what was there stays there.
LEMMA AppendMacs ==
  ASSUME NEW s \in Seq(Row), NEW r \in Row
  PROVE  MacsOf(Append(s, r)) = MacsOf(s) \cup {r.mac}
<1>1. \A i \in 1 .. Len(s) : Append(s, r)[i] = s[i]
  OBVIOUS
<1>2. Append(s, r)[Len(s) + 1] = r /\ DOMAIN Append(s, r) = 1 .. Len(s) + 1
  OBVIOUS
<1> QED BY <1>1, <1>2 DEF MacsOf

\* The save's own steps write each index before they pass it.
LEMMA RegularSave ==
  ASSUME TypeOK, Regular, Save
  PROVE  Regular'
<1> USE DEF Regular, SnapshotIsRegular
<1>1. CASE SaveSkip
  BY <1>1 DEF SaveSkip, Leave, SaveUnchanged
<1>2. CASE SaveOpen
  <2>1. total' = Len(table) /\ next' = 1 /\ steady' = MacsOf(table) /\ table' = table
    BY <1>2 DEF SaveOpen, SaveUnchanged
  <2>2. Traced'
    <3>1. \A i \in DOMAIN table : i <= Len(table) /\ ~(i < 1)
      BY DEF TypeOK
    <3> QED BY <2>1, <3>1 DEF Traced
  <2>3. pc' \in {"rows", "abandon"} /\ running' = running /\ pc = "begin"
    BY <1>2 DEF SaveOpen, SaveUnchanged
  <2> QED BY <2>2, <2>3
<1>3. CASE SaveRow
  <2>1. pc = "rows" /\ Traced /\ UNCHANGED <<total, steady, table, running>>
    BY <1>3 DEF SaveRow, SaveUnchanged
  <2>2. pc' \in {"rows", "abandon"}
    BY <1>3 DEF SaveRow
  <2>3. tmp.rows \in Seq(Row) /\ next \in Nat
    BY DEF TypeOK, File
  <2>4. CASE next <= Len(table) /\ next' = next + 1
             /\ tmp' = [tmp EXCEPT !.rows = Append(@, Stored(table[next]))]
    <3>1. table[next] \in Row
      BY <2>4 DEF TypeOK
    <3>2. Stored(table[next]) \in Row /\ Stored(table[next]).mac = table[next].mac
      BY <3>1, StoredType DEF Stored, Row
    <3>3. tmp'.rows = Append(tmp.rows, Stored(table[next]))
      BY <2>4 DEF TypeOK, File
    <3>4. MacsOf(tmp'.rows) = MacsOf(tmp.rows) \cup {table[next].mac}
      BY <2>3, <3>2, <3>3, AppendMacs
    <3>5. \A i \in DOMAIN table : i < next + 1 => i < next \/ i = next
      BY <2>3 DEF TypeOK
    <3>6. Traced'
      BY <2>1, <2>4, <3>4, <3>5 DEF Traced
    <3> QED BY <2>1, <2>2, <3>6
  <2>5. CASE next > Len(table) /\ next' = next + 1 /\ UNCHANGED tmp
    <3>1. \A i \in DOMAIN table : i < next
      BY <2>3, <2>5 DEF TypeOK
    <3>2. Traced'
      BY <2>1, <2>5, <3>1 DEF Traced
    <3> QED BY <2>1, <2>2, <3>2
  <2>6. CASE pc' = "abandon"
    BY <2>1, <2>6
  <2> QED BY <1>3, <2>4, <2>5, <2>6 DEF SaveRow
<1>4. CASE SaveClose
  <2>1. pc = "rows" /\ Traced /\ next > total /\ UNCHANGED <<steady, running>>
    BY <1>4 DEF SaveClose, SaveUnchanged
  <2>2. pc' = "swap" /\ tmp'.rows = tmp.rows
    BY <1>4 DEF SaveClose, TypeOK, File
  <2>3. steady \subseteq MacsOf(tmp.rows)
    <3> SUFFICES ASSUME NEW d \in steady PROVE d \in MacsOf(tmp.rows)
      OBVIOUS
    <3>1. PICK i \in DOMAIN table : table[i].mac = d
      BY <2>1 DEF Traced, MacsOf
    <3>2. i <= total
      BY <2>1, <3>1 DEF Traced
    <3>3. i < next
      BY <2>1, <3>2 DEF TypeOK
    <3> QED BY <2>1, <3>1, <3>3 DEF Traced
  <2> QED BY <2>1, <2>2, <2>3
<1>5. CASE SaveAbandon
  BY <1>5 DEF SaveAbandon, Leave, SaveUnchanged
<1>6. CASE SaveRemoveOld
  BY <1>6 DEF SaveRemoveOld, SaveUnchanged
<1>7. CASE SaveRename
  BY <1>7 DEF SaveRename, Leave, SaveUnchanged
<1>8. CASE SaveReturn
  BY <1>8 DEF SaveReturn
<1> QED BY <1>1, <1>2, <1>3, <1>4, <1>5, <1>6, <1>7, <1>8 DEF Save

\* Every step keeps the trace.
LEMMA RegularStep ==
  ASSUME TypeOK, Regular, [Next]_vars
  PROVE  Regular'
<1>1. CASE Save
  BY <1>1, RegularSave
<1>2. CASE Worker
  <2>1. ASSUME NEW d \in Devices, NEW c \in Confs, ReportFlock(d, c) PROVE Regular'
    BY <2>1, RegularReport DEF ReportFlock, gui, loop, card
  <2>2. ASSUME NEW d \in Devices, ReportRemoteId(d) PROVE Regular'
    BY <2>2, RegularReport, ConfsAssumption DEF ReportRemoteId, gui, loop, card
  <2> QED BY <1>2, <2>1, <2>2, DevicesAssumption DEF Worker
<1> USE DEF Regular, SnapshotIsRegular
<1>3. CASE Launch
  BY <1>3 DEF Launch, gui
<1>4. CASE PowerLoss \/ QuitAfterSave
  BY <1>4 DEF PowerLoss, QuitAfterSave, Off
<1>5. CASE AutosaveTick
  BY <1>5 DEF AutosaveTick, Idle, GuiUnchanged
<1>6. CASE Handler
  <2> USE DEF Idle, gui, GuiUnchanged, SaveUnchanged
  <2>1. CASE FirmwareEnter \/ FirmwareExit
    BY <2>1 DEF FirmwareEnter, FirmwareExit
  <2>2. CASE ScanStart \/ ScanStop
    BY <2>2 DEF ScanStart, ScanStop
  <2>3. CASE Quit
    BY <2>3 DEF Quit, Off
  <2>4. ASSUME NEW i \in 1 .. Cap, EditRow(i) \/ MarkInDetail(i) \/ IgnoreRow(i)
        PROVE  Regular'
    BY <2>4 DEF EditRow, MarkInDetail, IgnoreRow
  <2>5. ASSUME NEW i \in 1 .. Cap, DeleteRow(i) PROVE Regular'
    BY <2>5 DEF DeleteRow, SaveAfterDelete
  <2>6. CASE ForgetIgnored \/ ClearMarks
    BY <2>6 DEF ForgetIgnored, ClearMarks
  <2>7. CASE ToggleSaveHits \/ ClearSavedHits
    BY <2>7 DEF ToggleSaveHits, ClearSavedHits
  <2> QED BY <1>6, <2>1, <2>2, <2>3, <2>4, <2>5, <2>6, <2>7 DEF Handler
<1>7. CASE Erase
  BY <1>7 DEF Erase, Unlink, OffTmp, OffCsv, WipeTmp, WipeCsv, SaveUnchanged
<1>8. CASE ReleaseTables \/ ExcludeDevice
  BY <1>8 DEF ReleaseTables, ExcludeDevice, SaveAfterDelete
<1>9. CASE UNCHANGED vars
  BY <1>9 DEF vars, Traced
<1> QED BY <1>1, <1>2, <1>3, <1>4, <1>5, <1>6, <1>7, <1>8, <1>9 DEF Next

\* For every capacity, every number of devices and whatever fails: a write that
\* completes holds each device the table held throughout, although the worker
\* appends, merges and evicts between its rows.
THEOREM SnapshotStaysRegular == Spec => []SnapshotIsRegular
<1>1. Init => Regular
  BY DEF Init, Regular, SnapshotIsRegular
<1>2. TypeOK /\ Regular /\ [Next]_vars => Regular'
  BY RegularStep
<1>3. Regular => SnapshotIsRegular
  BY DEF Regular
<1> QED BY <1>1, <1>2, <1>3, TypeCorrect, PTL DEF Spec

-----------------------------------------------------------------------------
(* The store implements the ledger.  What that rests on besides the swap    *)
(* and the trace: a file never holds more rows than a load reads back, a    *)
(* file that is not there has none, the table is empty whenever its memory  *)
(* is gone, and nothing is pledged outside a save.                          *)

Filed ==
  /\ Len(csv.rows) <= Cap /\ Len(tmp.rows) <= Cap
  /\ csv.there \/ csv.rows = <<>>
  /\ tmp.there \/ tmp.rows = <<>>
  /\ pc = "rows" => Len(tmp.rows) < next /\ total <= Cap

Housed ==
  /\ ~running \/ ~resident => table = <<>>
  /\ scanning => running /\ resident
  /\ job = "release" => ~scanning
  /\ pc \in {"idle", "offTmp", "offCsv", "wipeTmp", "wipeCsv"} => job = "none"
  /\ pc \notin {"rows", "swap", "rename", "abandon"} => steady = {}
  /\ steady \subseteq MacsOf(table)
  /\ job = "ignore" => \E d \in Devices : target = {d}

Sane == Safe /\ Regular /\ Filed /\ Housed

\* No file outgrows the table it was written from.
LEMMA FiledStep ==
  ASSUME Safe, Regular, Filed, [Next]_vars
  PROVE  Filed'
<1> USE DEF Filed
<1>0. TypeOK /\ Len(Missing.rows) = 0 /\ Missing.rows = <<>> /\ Len(Emptied.rows) = 0
  BY DEF Safe, Missing, Emptied
<1>1. CASE Launch \/ FirmwareExit
  <2>1. FinishSwap /\ pc' = pc /\ pc # "rows"
    BY <1>1 DEF Launch, FirmwareExit, LoadHits, gui, Idle, Regular
  <2> QED BY <1>0, <2>1, CapAssumption DEF FinishSwap, card
<1>2. CASE PowerLoss
  <2>1. csv' = csv /\ pc' = "idle"
    BY <1>2 DEF PowerLoss, Off
  <2>2. CASE pc = "rows"
    <3>1. PICK k \in 0 .. Len(tmp.rows) : tmp' = [tmp EXCEPT !.rows = SubSeq(@, 1, k)]
      BY <1>2, <2>2 DEF PowerLoss
    <3>2. tmp'.rows = SubSeq(tmp.rows, 1, k) /\ tmp'.there = tmp.there
      BY <1>0, <3>1 DEF TypeOK, File
    <3>3. Len(SubSeq(tmp.rows, 1, k)) = k /\ k <= Len(tmp.rows) /\ Len(tmp.rows) \in Nat
      BY <1>0 DEF TypeOK, File
    <3>4. tmp.there
      BY <2>2 DEF Safe, SwapDiscipline
    <3> QED BY <2>1, <3>2, <3>3, <3>4, CapAssumption
  <2>3. CASE pc # "rows"
    BY <1>2, <2>1, <2>3 DEF PowerLoss
  <2> QED BY <2>2, <2>3
<1>3. CASE QuitAfterSave \/ Quit
  BY <1>3 DEF QuitAfterSave, Quit, Off
<1>4. CASE SaveOpen
  <2>1. csv' = csv /\ total' = Len(table) /\ next' = 1 /\ tmp' \in {tmp, Emptied}
    BY <1>4 DEF SaveOpen
  <2>2. tmp' = Emptied \/ pc' = "abandon"
    BY <1>4 DEF SaveOpen
  <2>3. Emptied.there
    BY DEF Emptied
  <2> QED BY <1>0, <2>1, <2>2, <2>3, CapAssumption DEF TypeOK
<1>5. CASE SaveRow
  <2>1. csv' = csv /\ total' = total /\ next <= total /\ pc = "rows"
    BY <1>5 DEF SaveRow
  <2>2. next \in Nat /\ total \in Nat /\ tmp \in File /\ Len(tmp.rows) \in Nat
    BY <1>0 DEF TypeOK, File
  <2>3. CASE tmp' = [tmp EXCEPT !.rows = Append(@, Stored(table[next]))] /\ next' = next + 1
    <3>1. tmp'.rows = Append(tmp.rows, Stored(table[next])) /\ tmp'.there = tmp.there
      BY <2>2, <2>3 DEF File
    <3>2. Len(tmp'.rows) = Len(tmp.rows) + 1
      BY <2>2, <3>1 DEF File
    <3>3. tmp.there
      BY <2>1 DEF Safe, SwapDiscipline
    <3> QED BY <2>1, <2>2, <2>3, <3>1, <3>2, <3>3, CapAssumption
  <2>4. CASE UNCHANGED tmp /\ next' \in {next, next + 1}
    BY <2>1, <2>2, <2>4
  <2> QED BY <1>5, <2>3, <2>4 DEF SaveRow
<1>6. CASE SaveClose
  BY <1>0, <1>6 DEF SaveClose, TypeOK, File
<1>7. CASE SaveSkip \/ SaveReturn
  BY <1>7 DEF SaveSkip, SaveReturn, Leave, card
<1>8. CASE SaveAbandon \/ SaveRemoveOld \/ SaveRename
  BY <1>0, <1>8, CapAssumption DEF SaveAbandon, SaveRemoveOld, SaveRename, Leave, card
<1>9. CASE AutosaveTick
  BY <1>9 DEF AutosaveTick, card, GuiUnchanged, loop
<1>10. CASE Handler
  <2> USE DEF card, gui, loop, GuiUnchanged, SaveUnchanged
  <2>1. CASE FirmwareEnter \/ ScanStart \/ ScanStop
    BY <2>1 DEF FirmwareEnter, ScanStart, ScanStop
  <2>2. ASSUME NEW i \in 1 .. Cap, EditRow(i) \/ MarkInDetail(i) \/ IgnoreRow(i)
        PROVE  Filed'
    BY <2>2 DEF EditRow, MarkInDetail, IgnoreRow, Idle
  <2>3. ASSUME NEW i \in 1 .. Cap, DeleteRow(i) PROVE Filed'
    BY <2>3 DEF DeleteRow, SaveAfterDelete
  <2>4. CASE ForgetIgnored \/ ClearMarks
    BY <2>4 DEF ForgetIgnored, ClearMarks
  <2>5. CASE ToggleSaveHits \/ ClearSavedHits
    BY <2>5 DEF ToggleSaveHits, ClearSavedHits
  <2> QED BY <1>1, <1>3, <1>10, <2>1, <2>2, <2>3, <2>4, <2>5 DEF Handler
<1>11. CASE Erase
  BY <1>0, <1>11, CapAssumption
     DEF Erase, Unlink, OffTmp, OffCsv, WipeTmp, WipeCsv, SaveUnchanged
<1>12. CASE ReleaseTables \/ ExcludeDevice
  BY <1>12 DEF ReleaseTables, ExcludeDevice, SaveAfterDelete, card, loop
<1>13. CASE Worker
  BY <1>13 DEF Worker, ReportFlock, ReportRemoteId, card, gui, loop
<1>14. CASE UNCHANGED vars
  BY <1>14 DEF vars, card, gui, loop
<1> QED BY <1>1, <1>2, <1>3, <1>4, <1>5, <1>6, <1>7, <1>8, <1>9, <1>10, <1>11, <1>12,
     <1>13, <1>14 DEF Next, Save

\* An empty table has no room for a row: the handlers that need one are off, and
\* the worker only reports to a table that is there.
LEMMA HousedStep ==
  ASSUME TypeOK, Regular, Housed, [Next]_vars
  PROVE  Housed'
<1> USE DEF Housed
<1>1. CASE Launch \/ FirmwareExit
  BY <1>1 DEF Launch, FirmwareExit, gui, Idle, Regular
<1>2. CASE PowerLoss \/ QuitAfterSave \/ Quit
  BY <1>2 DEF PowerLoss, QuitAfterSave, Quit, Off
<1>3. CASE Save
  <2> USE DEF SaveUnchanged, Leave
  <2>1. CASE SaveSkip \/ SaveReturn
    BY <2>1 DEF SaveSkip, SaveReturn
  <2>2. CASE SaveOpen
    BY <2>2 DEF SaveOpen
  <2>3. CASE SaveRow \/ SaveClose
    BY <2>3 DEF SaveRow, SaveClose
  <2>4. CASE SaveAbandon \/ SaveRemoveOld \/ SaveRename
    BY <2>4 DEF SaveAbandon, SaveRemoveOld, SaveRename
  <2> QED BY <1>3, <2>1, <2>2, <2>3, <2>4 DEF Save
<1>4. CASE AutosaveTick
  BY <1>4 DEF AutosaveTick, Idle, GuiUnchanged
<1>5. CASE Handler
  <2> USE DEF gui, GuiUnchanged, SaveUnchanged, Idle
  <2>1. CASE FirmwareEnter \/ ScanStart \/ ScanStop
    BY <2>1 DEF FirmwareEnter, ScanStart, ScanStop
  <2>2. ASSUME NEW i \in 1 .. Cap, EditRow(i) \/ MarkInDetail(i) \/ IgnoreRow(i)
        PROVE  Housed'
    <3>1. i \in DOMAIN table /\ table # <<>> /\ table[i].mac \in Devices
      BY <2>2, RowFacts DEF EditRow, MarkInDetail, IgnoreRow, TypeOK
    <3> QED BY <2>2, <3>1 DEF EditRow, MarkInDetail, IgnoreRow
  <2>3. ASSUME NEW i \in 1 .. Cap, DeleteRow(i) PROVE Housed'
    <3>1. table # <<>>
      BY <2>3 DEF DeleteRow
    <3> QED BY <2>3, <3>1 DEF DeleteRow, SaveAfterDelete
  <2>4. CASE ForgetIgnored \/ ClearMarks
    BY <2>4 DEF ForgetIgnored, ClearMarks
  <2>5. CASE ToggleSaveHits \/ ClearSavedHits
    BY <2>5 DEF ToggleSaveHits, ClearSavedHits
  <2> QED BY <1>1, <1>2, <1>5, <2>1, <2>2, <2>3, <2>4, <2>5 DEF Handler
<1>6. CASE Erase
  <2>1. OffCsv => (table = <<>> => table' = <<>>)
    <3> SUFFICES ASSUME OffCsv, table = <<>> PROVE table' = <<>>
      OBVIOUS
    <3>1. table' \in Seq(Row) /\ Len(table') <= Len(table)
      <4>1. (DOMAIN table \ ArchivedIn(table)) \in SUBSET DOMAIN table
        OBVIOUS
      <4> QED BY <4>1, CompactionType DEF OffCsv, TypeOK
    <3> QED BY <3>1
  <2> QED BY <1>6, <2>1 DEF Erase, Unlink, OffTmp, OffCsv, WipeTmp, WipeCsv, SaveUnchanged
<1>7. CASE ReleaseTables
  BY <1>7 DEF ReleaseTables
<1>8. CASE ExcludeDevice
  <2>1. table = <<>> => table' = <<>>
    <3> SUFFICES ASSUME table = <<>>, table' # table PROVE table' = <<>>
      OBVIOUS
    <3>1. table' \in Compactions(table, NotIgnored(table, ignored'))
      BY <1>8 DEF ExcludeDevice
    <3>2. table' \in Seq(Row) /\ Len(table') <= Len(table)
      BY <3>1, PurgeType DEF TypeOK
    <3> QED BY <3>2
  <2> QED BY <1>8, <2>1 DEF ExcludeDevice, SaveAfterDelete
<1>9. CASE Worker
  <2>1. running /\ scanning /\ UNCHANGED <<running, scanning, resident, gui>>
        /\ steady' = steady \cap MacsOf(table')
    BY <1>9 DEF Worker, ReportFlock, ReportRemoteId, RecordSighting
  <2> QED BY <2>1 DEF gui
<1>10. CASE UNCHANGED vars
  BY <1>10 DEF vars, gui
<1> QED BY <1>1, <1>2, <1>3, <1>4, <1>5, <1>6, <1>7, <1>8, <1>9, <1>10 DEF Next

LEMMA SaneInit == Init => Sane
<1>1. Init => Regular /\ Housed
  BY DEF Init, Regular, SnapshotIsRegular, Housed
<1>2. Init => Filed
  BY CapAssumption DEF Init, Filed, Missing
<1> QED BY <1>1, <1>2, SafeInit DEF Sane

LEMMA SaneStep ==
  ASSUME RenamesTaken, Sane, [Next]_vars
  PROVE  Sane'
BY SafeStep, RegularStep, FiledStep, HousedStep DEF Sane, Safe

-----------------------------------------------------------------------------
(* The operators of the store as the ledger sees them.                     *)

\* A report adds its device to those held and costs one other at most.
LEMMA SightingHeld ==
  ASSUME TypeOK, NEW d \in Devices, NEW c \in Confs, RecordSighting(d, c)
  PROVE  \/ table' = table
         \/ \E lost \in MacsOf(table) \cup {d} :
              MacsOf(table') = (MacsOf(table) \ {lost}) \cup {d}
<1> DEFINE k == SlotFor(table, d, Cap)
           old == IF Has(table, d) THEN table[k] ELSE Fresh(d)
<1>1. table \in Seq(Row)
  BY DEF TypeOK
<1>2. PICK now \in {clock, clock + 1} :
        table' = (IF k = 0 THEN table ELSE Sighted(d, c, now, k))
  BY DEF RecordSighting
<1>3. \/ k = 0 /\ ~Has(table, d)
      \/ k \in DOMAIN table /\ Has(table, d) /\ table[k].mac = d
      \/ k \in DOMAIN table /\ ~Has(table, d) /\ table[k].archived
      \/ k = Len(table) + 1 /\ Len(table) < Cap /\ ~Has(table, d)
  BY <1>1, RowFacts, CapAssumption, SlotMeaning
<1>4. CASE k = 0
  BY <1>2, <1>4
<1>5. CASE k # 0
  <2> DEFINE m == Merge(old, c, now)
  <2>1. table' = PutRow(table, k, m)
    BY <1>2, <1>5 DEF Sighted
  <2>2. m.mac = d
    <3>1. old \in Row /\ old.mac = d
      <4>1. Fresh(d) \in Row /\ Fresh(d).mac = d
        BY DEF Fresh, Row
      <4>2. CASE Has(table, d)
        BY <1>1, <1>3, <1>5, <4>2
      <4>3. CASE ~Has(table, d)
        BY <4>1, <4>3
      <4> QED BY <4>2, <4>3
    <3> HIDE DEF old, k
    <3> QED BY <3>1 DEF Merge, Row
  <2>3. k \in DOMAIN table \/ k = Len(table) + 1
    BY <1>3, <1>5
  <2> HIDE DEF k, m
  <2>4. CASE k = Len(table) + 1
    <3>1. table' = Append(table, m)
      BY <2>1, <2>4 DEF PutRow
    <3>2. \A i \in 1 .. Len(table) : table'[i] = table[i]
      BY <1>1, <3>1
    <3>3. table'[Len(table) + 1] = m /\ DOMAIN table' = 1 .. Len(table) + 1
      BY <1>1, <3>1
    <3>4. MacsOf(table') = MacsOf(table) \cup {d}
      BY <1>1, <2>2, <3>2, <3>3 DEF MacsOf
    <3> QED BY <3>4
  <2>5. CASE k # Len(table) + 1
    <3>1. table' = [table EXCEPT ![k] = m] /\ k \in DOMAIN table
      BY <2>1, <2>3, <2>5 DEF PutRow
    <3>2. /\ DOMAIN table' = DOMAIN table /\ table'[k].mac = d
          /\ \A i \in DOMAIN table : i # k => table'[i] = table[i]
      BY <1>1, <2>2, <3>1
    <3>3. CASE \E j \in DOMAIN table : j # k /\ table[j].mac = table[k].mac
      <4>1. MacsOf(table') = (MacsOf(table) \ {d}) \cup {d}
        BY <3>1, <3>2, <3>3 DEF MacsOf
      <4> QED BY <4>1
    <3>4. CASE \A j \in DOMAIN table : j # k => table[j].mac # table[k].mac
      <4>1. MacsOf(table') = (MacsOf(table) \ {table[k].mac}) \cup {d}
        BY <3>1, <3>2, <3>4 DEF MacsOf
      <4>2. table[k].mac \in MacsOf(table)
        BY <3>1 DEF MacsOf
      <4> QED BY <4>1, <4>2
    <3> QED BY <3>3, <3>4
  <2> QED BY <2>4, <2>5
<1> QED BY <1>4, <1>5

\* Deleting a row costs its device, unless another row carries the address.
LEMMA GapHeld ==
  ASSUME NEW t \in Seq(Row), NEW i \in DOMAIN t
  PROVE  MacsOf(CloseGap(t, i)) \in {MacsOf(t), MacsOf(t) \ {t[i].mac}}
<1> DEFINE u == CloseGap(t, i)
<1>1. DOMAIN u = 1 .. Len(t) - 1
  BY DEF CloseGap
<1>2. \A j \in DOMAIN u : u[j] = t[j] \/ u[j] = t[j + 1]
  BY DEF CloseGap
<1>3. MacsOf(u) \subseteq MacsOf(t)
  BY <1>1, <1>2 DEF MacsOf
<1>4. ASSUME NEW j \in DOMAIN t, j # i PROVE t[j].mac \in MacsOf(u)
  <2>1. CASE j < i
    <3>1. j \in DOMAIN u /\ u[j] = t[j]
      BY <2>1 DEF CloseGap
    <3> QED BY <3>1 DEF MacsOf
  <2>2. CASE j > i
    <3>1. j - 1 \in DOMAIN u /\ u[j - 1] = t[j]
      BY <2>2 DEF CloseGap
    <3> QED BY <3>1 DEF MacsOf
  <2> QED BY <1>4, <2>1, <2>2
<1> HIDE DEF u
<1>5. MacsOf(t) \ {t[i].mac} \subseteq MacsOf(u)
  BY <1>4 DEF MacsOf
<1>6. t[i].mac \in MacsOf(u) \/ t[i].mac \notin MacsOf(u)
  OBVIOUS
<1>7. CASE t[i].mac \in MacsOf(u)
  <2>1. MacsOf(u) = MacsOf(t)
    BY <1>3, <1>5, <1>7
  <2> QED BY <2>1 DEF u
<1>8. CASE t[i].mac \notin MacsOf(u)
  <2>1. MacsOf(u) = MacsOf(t) \ {t[i].mac}
    BY <1>3, <1>5, <1>8
  <2> QED BY <2>1 DEF u
<1> QED BY <1>7, <1>8

\* A purge keeps every device but the excluded ones.
LEMMA PurgeHeld ==
  ASSUME NEW t \in Seq(Row), NEW gone, NEW u \in Compactions(t, NotIgnored(t, gone))
  PROVE  MacsOf(u) = MacsOf(t) \ gone
<1>1. MacsOf(u) = {t[i].mac : i \in NotIgnored(t, gone)}
  BY NotIgnoredType, CompactionKeeps
<1> QED BY <1>1 DEF NotIgnored, MacsOf

\* A load gives back what the card keeps, less the excluded devices, and takes
\* nothing from the card.
LEMMA LoadHeld ==
  ASSUME RenamesTaken, TypeOK, Filed, LoadHits, UNCHANGED saveHits
  PROVE  /\ MacsOf(Recoverable.rows)' = MacsOf(Recoverable.rows)
         /\ MacsOf(table') = IF saveHits THEN MacsOf(Recoverable.rows) \ ignored ELSE {}
<1> DEFINE read == IF saveHits /\ csv'.there THEN Readable(csv') ELSE <<>>
<1>1. FinishSwap /\ table' \in Compactions(read, NotIgnored(read, ignored))
  BY DEF LoadHits
<1>2. csv \in File /\ tmp \in File /\ csv' \in File
  BY FinishSwapType, <1>1 DEF TypeOK
<1>3. \/ saveHits /\ ~csv.there /\ tmp.there /\ csv' = tmp /\ tmp' = Missing
      \/ (~saveHits \/ csv.there \/ ~tmp.there) /\ csv' = csv /\ tmp' = tmp
  BY <1>1 DEF FinishSwap, RenamesTaken, card
<1>4. UNCHANGED Recoverable
  BY <1>3 DEF Recoverable
<1>5. read \in Seq(Row)
  BY <1>2, ReadableType
<1>6. MacsOf(table') = MacsOf(read) \ ignored
  BY <1>1, <1>5, PurgeHeld
<1>7. MacsOf(<<>>) = {}
  BY DEF MacsOf
<1>8. saveHits => MacsOf(read) = MacsOf(Recoverable.rows)
  <2> SUFFICES ASSUME saveHits PROVE MacsOf(read) = MacsOf(Recoverable.rows)
    OBVIOUS
  <2>1. CASE csv'.there
    <3>1. Recoverable = csv'
      BY <1>3, <2>1 DEF Recoverable
    <3>2. csv'.rows \in Seq(Row) /\ Len(csv'.rows) \in Nat /\ Len(csv'.rows) <= Cap
      BY <1>2, <1>3 DEF File, Filed
    <3>3. Readable(csv') = SubSeq(csv'.rows, 1, Len(csv'.rows))
      BY <3>2, CapAssumption DEF Readable
    <3>4. SubSeq(csv'.rows, 1, Len(csv'.rows)) = csv'.rows
      BY <3>2
    <3> QED BY <2>1, <3>1, <3>3, <3>4
  <2>2. CASE ~csv'.there
    <3>1. Recoverable.rows = <<>>
      BY <1>3, <2>2 DEF Recoverable, Filed
    <3> QED BY <2>2, <3>1
  <2> QED BY <2>1, <2>2
<1>9. ~saveHits => MacsOf(read) = {}
  BY <1>7
<1> HIDE DEF read
<1> QED BY <1>4, <1>6, <1>8, <1>9

-----------------------------------------------------------------------------
(* Each step of the store is a step of the ledger, or changes nothing in   *)
(* it.                                                                     *)

held == MacsOf(table)
kept == MacsOf(Recoverable.rows)

Stutter == UNCHANGED <<held, kept, vault, steady, ignored, saveHits>>

LEMMA StutterMaps == Stutter => [Ledger!Next]_(Ledger!vars)
BY DEF Stutter, held, kept, Ledger!vars

\* What the card keeps is a set of devices, before and after a step.
LEMMA KeptType ==
  ASSUME TypeOK, TypeOK'
  PROVE  kept \in SUBSET Devices /\ kept' \in SUBSET Devices
<1>1. Recoverable.rows \in Seq(Row) /\ Recoverable'.rows \in Seq(Row)
  BY DEF TypeOK, Recoverable, File
<1> QED BY <1>1, MacsType DEF kept

\* The save: it pledges to what it finds, settles when the new file takes over,
\* and touches the card before that only while no completed save is on it.
LEMMA SaveMaps ==
  ASSUME RenamesTaken, Sane, Sane', Save
  PROVE  [Ledger!Next]_(Ledger!vars)
<1>1. /\ held' = held /\ UNCHANGED <<ignored, saveHits>>
      /\ kept' \in SUBSET Devices
  <2>1. UNCHANGED <<table, ignored, saveHits>>
    BY DEF Save, SaveSkip, SaveOpen, SaveRow, SaveClose, SaveAbandon, SaveRemoveOld,
           SaveRename, SaveReturn, SaveUnchanged
  <2>2. TypeOK /\ TypeOK'
    BY DEF Sane, Safe
  <2>3. kept' \in SUBSET Devices
    BY <2>2, KeptType
  <2> QED BY <2>1, <2>3 DEF held
<1>2. SwapDiscipline /\ running
  BY DEF Sane, Safe, Regular, SwapDiscipline, Save, SaveSkip, SaveOpen, SaveRow, SaveClose,
         SaveAbandon, SaveRemoveOld, SaveRename, SaveReturn
<1>3. vault /\ pc # "rename" => csv.there
  BY <1>2 DEF SwapDiscipline
<1>4. ASSUME steady' \in {steady, {}}, UNCHANGED vault, vault => kept' = kept
      PROVE  [Ledger!Next]_(Ledger!vars)
  <2>1. Ledger!Withdraw
    BY <1>1, <1>4 DEF Ledger!Withdraw, Ledger!Untouched, held, kept
  <2> QED BY <2>1 DEF Ledger!Next
<1>5. ASSUME UNCHANGED csv, csv.there PROVE kept' = kept
  BY <1>5 DEF kept, Recoverable
<1>6. CASE SaveSkip
  BY <1>4, <1>6 DEF SaveSkip, Leave, card, kept, Recoverable
<1>7. CASE SaveOpen
  <2>1. steady' = held /\ saveHits /\ UNCHANGED <<csv, vault>> /\ pc = "begin"
    BY <1>7 DEF SaveOpen, held
  <2>2. vault => kept' = kept
    BY <1>3, <1>5, <2>1
  <2>3. Ledger!Pledge
    BY <1>1, <2>1, <2>2 DEF Ledger!Pledge, Ledger!Untouched, held, kept
  <2> QED BY <2>3 DEF Ledger!Next
<1>8. CASE SaveRow \/ SaveClose
  <2>1. UNCHANGED <<csv, vault, steady>> /\ pc = "rows"
    BY <1>8 DEF SaveRow, SaveClose
  <2> QED BY <1>3, <1>4, <1>5, <2>1
<1>9. CASE SaveAbandon
  <2>1. UNCHANGED <<csv, vault>> /\ pc = "abandon" /\ steady' = {}
    BY <1>9 DEF SaveAbandon, Leave
  <2> QED BY <1>3, <1>4, <1>5, <2>1
<1>10. CASE SaveRemoveOld
  <2>1. saveHits /\ steady \subseteq MacsOf(tmp.rows) /\ UNCHANGED <<tmp, steady>>
    BY <1>2, <1>10 DEF SaveRemoveOld, SwapDiscipline, Sane, Regular, SnapshotIsRegular
  <2>2. CASE csv' = Missing /\ vault'
    <3>1. kept' = MacsOf(tmp.rows)
      BY <2>1, <2>2 DEF kept, Recoverable, Missing
    <3>2. Ledger!Settle
      BY <1>1, <2>1, <2>2, <3>1 DEF Ledger!Settle, held, kept
    <3> QED BY <3>2 DEF Ledger!Next
  <2>3. CASE UNCHANGED <<csv, vault>>
    BY <1>4, <2>1, <2>3 DEF kept, Recoverable
  <2> QED BY <1>10, <2>2, <2>3 DEF SaveRemoveOld
<1>11. CASE SaveRename
  <2>1. UNCHANGED vault /\ steady' = {}
    BY <1>11 DEF SaveRename, Leave
  <2>2. kept' = kept
    <3>1. CASE ~csv.there /\ csv' = tmp /\ tmp' = Missing
      BY <1>2, <1>11, <3>1 DEF kept, Recoverable, SaveRename, SwapDiscipline
    <3>2. CASE UNCHANGED card
      BY <3>2 DEF kept, Recoverable, card
    <3> QED BY <1>11, <3>1, <3>2 DEF SaveRename
  <2> QED BY <1>4, <2>1, <2>2
<1>12. CASE SaveReturn
  BY <1>4, <1>12 DEF SaveReturn, card, kept, Recoverable
<1> QED BY <1>6, <1>7, <1>8, <1>9, <1>10, <1>11, <1>12 DEF Save

\* The operator's erasures.  "It no longer counts" comes before the file goes.
LEMMA EraseMaps ==
  ASSUME RenamesTaken, Sane, Sane', Erase
  PROVE  [Ledger!Next]_(Ledger!vars)
<1>1. steady = {} /\ steady' = {} /\ UNCHANGED <<ignored, saveHits>>
  BY DEF Sane, Housed, Erase, Unlink, OffTmp, OffCsv, WipeTmp, WipeCsv, SaveUnchanged
<1>2. SwapDiscipline /\ running /\ TypeOK
  BY DEF Sane, Safe, Regular, Erase, Unlink, OffTmp, OffCsv, WipeTmp, WipeCsv
<1>3. kept' \in SUBSET Devices
  <2>1. TypeOK /\ TypeOK'
    BY DEF Sane, Safe
  <2> QED BY <2>1, KeptType
<1>4. ASSUME ~vault', held' \subseteq held PROVE [Ledger!Next]_(Ledger!vars)
  <2>1. Ledger!Erase
    BY <1>1, <1>2, <1>3, <1>4 DEF Ledger!Erase, held, kept, TypeOK
  <2> QED BY <2>1 DEF Ledger!Next
<1>5. ASSUME UNCHANGED <<vault, table, csv>>, vault => csv.there
      PROVE  [Ledger!Next]_(Ledger!vars)
  <2>1. vault => kept' = kept
    BY <1>5 DEF kept, Recoverable
  <2>2. Ledger!Withdraw
    BY <1>1, <1>3, <1>5, <2>1 DEF Ledger!Withdraw, Ledger!Untouched, held, kept
  <2> QED BY <2>2 DEF Ledger!Next
<1>6. CASE Unlink
  BY <1>2, <1>4, <1>5, <1>6 DEF Unlink, SwapDiscipline, held
<1>7. CASE OffTmp
  BY <1>2, <1>5, <1>7 DEF OffTmp, SwapDiscipline, SaveUnchanged
<1>8. CASE OffCsv
  <2>1. ~vault'
    BY <1>2, <1>8 DEF OffCsv, SwapDiscipline
  <2>2. held' \subseteq held
    <3> DEFINE K == DOMAIN table \ ArchivedIn(table)
    <3>1. table' \in Compactions(table, K) /\ table \in Seq(Row) /\ K \in SUBSET DOMAIN table
      BY <1>2, <1>8 DEF OffCsv, TypeOK
    <3>2. MacsOf(table') = {table[i].mac : i \in K}
      BY <3>1, CompactionKeeps
    <3> QED BY <3>1, <3>2 DEF held, MacsOf
  <2> QED BY <1>4, <2>1, <2>2
<1>9. CASE WipeTmp
  BY <1>2, <1>5, <1>9 DEF WipeTmp, SwapDiscipline, SaveUnchanged
<1>10. CASE WipeCsv
  <2>1. MacsOf(<<>>) = {}
    BY DEF MacsOf
  <2> QED BY <1>2, <1>4, <1>5, <1>10, <2>1 DEF WipeCsv, SwapDiscipline, held
<1> QED BY <1>6, <1>7, <1>8, <1>9, <1>10 DEF Erase

\* The operator's handlers and what is left of them after their save.
LEMMA HandlerMaps ==
  ASSUME RenamesTaken, Sane, Sane', Handler
  PROVE  [Ledger!Next]_(Ledger!vars)
<1>1. /\ TypeOK /\ TypeOK' /\ running /\ pc = "idle" /\ steady = {} /\ steady' = {}
      /\ kept \in SUBSET Devices /\ kept' \in SUBSET Devices
  <2>1. TypeOK /\ TypeOK'
    BY DEF Sane, Safe
  <2>2. running /\ pc = "idle"
    BY DEF Handler, FirmwareEnter, FirmwareExit, ScanStart, ScanStop, Quit, EditRow,
           MarkInDetail, DeleteRow, IgnoreRow, ForgetIgnored, ToggleSaveHits,
           ClearSavedHits, ClearMarks, Idle
  <2>3. steady = {} /\ steady' = {}
    <3>1. steady = {}
      BY <2>2 DEF Sane, Housed
    <3>2. steady' = steady \/ steady' = {}
      BY DEF Handler, FirmwareEnter, FirmwareExit, ScanStart, ScanStop, Quit, EditRow,
             MarkInDetail, DeleteRow, IgnoreRow, ForgetIgnored, ToggleSaveHits,
             ClearSavedHits, ClearMarks, GuiUnchanged, SaveUnchanged, Off
    <3> QED BY <3>1, <3>2
  <2> QED BY <2>1, <2>2, <2>3, KeptType
<1>2. ASSUME UNCHANGED <<table, csv, tmp, vault, ignored, saveHits>>
      PROVE  [Ledger!Next]_(Ledger!vars)
  <2>1. Stutter
    BY <1>1, <1>2 DEF Stutter, held, kept, Recoverable
  <2> QED BY <2>1, StutterMaps
<1>3. CASE FirmwareEnter \/ ScanStart \/ ScanStop
  BY <1>2, <1>3 DEF FirmwareEnter, ScanStart, ScanStop, card
<1>4. CASE FirmwareExit
  <2>1. LoadHits /\ UNCHANGED <<saveHits, ignored, vault>> /\ table = <<>>
    BY <1>4 DEF FirmwareExit, Sane, Housed
  <2>2. kept' = kept /\ held' = (IF saveHits THEN kept \ ignored ELSE {})
    BY <1>1, <2>1, LoadHeld DEF Sane, kept, held
  <2>3. held = {}
    BY <2>1 DEF held, MacsOf
  <2>4. Ledger!Resume
    BY <1>1, <2>1, <2>2, <2>3 DEF Ledger!Resume, held, kept
  <2> QED BY <2>4 DEF Ledger!Next
<1>5. CASE Quit
  <2>1. held' = {} /\ UNCHANGED <<csv, tmp, vault, ignored, saveHits>>
    BY <1>5 DEF Quit, Off, held, MacsOf
  <2>2. kept' = kept
    BY <2>1 DEF kept, Recoverable
  <2>3. Ledger!Suspend
    BY <1>1, <2>1, <2>2 DEF Ledger!Suspend, Ledger!Untouched, held, kept
  <2> QED BY <2>3 DEF Ledger!Next
<1>6. ASSUME NEW i \in 1 .. Cap, EditRow(i) \/ MarkInDetail(i)
      PROVE  [Ledger!Next]_(Ledger!vars)
  <2>1. /\ table' = [table EXCEPT ![i].noted = ~@]
        /\ UNCHANGED <<csv, tmp, vault, ignored, saveHits>>
    BY <1>6 DEF EditRow, MarkInDetail, GuiUnchanged, card
  <2>2. /\ DOMAIN table' = DOMAIN table
        /\ \A j \in DOMAIN table : table'[j].mac = table[j].mac
    BY <1>1, <2>1, RowFacts DEF TypeOK, Row
  <2>3. held' = held
    BY <2>2 DEF held, MacsOf
  <2>4. Stutter
    BY <1>1, <2>1, <2>3 DEF Stutter, kept, Recoverable
  <2> QED BY <2>4, StutterMaps
<1>7. ASSUME NEW i \in 1 .. Cap, DeleteRow(i)
      PROVE  [Ledger!Next]_(Ledger!vars)
  <2>1. /\ i \in DOMAIN table /\ table' = CloseGap(table, i)
        /\ UNCHANGED <<csv, tmp, vault, ignored, saveHits>>
    BY <1>7 DEF DeleteRow, GuiUnchanged, card
  <2>2. held' \in {held, held \ {table[i].mac}}
    <3>1. table \in Seq(Row)
      BY <1>1 DEF TypeOK
    <3>2. MacsOf(CloseGap(table, i)) \in {MacsOf(table), MacsOf(table) \ {table[i].mac}}
      BY <2>1, <3>1, GapHeld
    <3> QED BY <2>1, <3>2 DEF held
  <2>3. kept' = kept /\ table[i].mac \in held
    BY <2>1 DEF kept, Recoverable, held, MacsOf
  <2>4. Ledger!Delete
    BY <1>1, <2>1, <2>2, <2>3 DEF Ledger!Delete, held, kept
  <2> QED BY <2>4 DEF Ledger!Next
<1>8. ASSUME NEW i \in 1 .. Cap, IgnoreRow(i)
      PROVE  [Ledger!Next]_(Ledger!vars)
  BY <1>2, <1>8 DEF IgnoreRow, GuiUnchanged, card
<1>9. CASE ForgetIgnored
  <2>1. ignored' = {} /\ UNCHANGED <<table, csv, tmp, vault, saveHits>>
    BY <1>9 DEF ForgetIgnored, card
  <2>2. held' = held /\ kept' = kept
    BY <2>1 DEF held, kept, Recoverable
  <2>3. Ledger!Unban
    BY <1>1, <2>1, <2>2 DEF Ledger!Unban, held, kept
  <2> QED BY <2>3 DEF Ledger!Next
<1>10. CASE ToggleSaveHits
  <2>1. saveHits' = ~saveHits /\ ~vault' /\ UNCHANGED <<table, csv, tmp, ignored>>
    BY <1>10 DEF ToggleSaveHits, card
  <2>2. held' = held /\ kept' = kept
    BY <2>1 DEF held, kept, Recoverable
  <2>3. Ledger!Switch
    BY <1>1, <1>10, <2>1, <2>2, Zenon DEF Ledger!Switch, held, kept, ToggleSaveHits
  <2> QED BY <2>3 DEF Ledger!Next
<1>11. CASE ClearSavedHits
  BY <1>2, <1>11 DEF ClearSavedHits, SaveUnchanged, card
<1>12. CASE ClearMarks
  <2>1. /\ table' = [i \in DOMAIN table |-> [table[i] EXCEPT !.noted = FALSE]]
        /\ UNCHANGED <<csv, tmp, vault, ignored, saveHits>>
    BY <1>12 DEF ClearMarks, GuiUnchanged, card
  <2>2. /\ DOMAIN table' = DOMAIN table
        /\ \A j \in DOMAIN table : table'[j].mac = table[j].mac
    <3>1. \A j \in DOMAIN table : table[j] \in Row
      BY <1>1 DEF TypeOK
    <3>2. \A r \in Row : [r EXCEPT !.noted = FALSE].mac = r.mac
      BY DEF Row
    <3> QED BY <2>1, <3>1, <3>2
  <2>3. held' = held
    BY <2>2 DEF held, MacsOf
  <2>4. Stutter
    BY <1>1, <2>1, <2>3 DEF Stutter, kept, Recoverable
  <2> QED BY <2>4, StutterMaps
<1> QED BY <1>3, <1>4, <1>5, <1>6, <1>7, <1>8, <1>9, <1>10, <1>11, <1>12 DEF Handler

\* Everything that is not a handler's first step, the save or an erasure.
LEMMA StepMaps ==
  ASSUME RenamesTaken, Sane, Sane', [Next]_vars
  PROVE  [Ledger!Next]_(Ledger!vars)
<1>1. TypeOK /\ TypeOK' /\ kept \in SUBSET Devices /\ kept' \in SUBSET Devices
  BY KeptType DEF Sane, Safe
<1>2. SwapDiscipline /\ Housed /\ Regular
  BY DEF Sane, Safe
<1>3. CASE Save
  BY <1>3, SaveMaps
<1>4. CASE Erase
  BY <1>4, EraseMaps
<1>5. CASE Handler
  BY <1>5, HandlerMaps
<1>6. ASSUME held' = {}, steady' = {}, UNCHANGED <<csv, vault, ignored, saveHits>>,
             UNCHANGED tmp \/ pc = "rows", running
      PROVE  [Ledger!Next]_(Ledger!vars)
  <2>1. vault => kept' = kept
    BY <1>2, <1>6 DEF kept, Recoverable, SwapDiscipline
  <2>2. Ledger!Suspend
    BY <1>1, <1>6, <2>1 DEF Ledger!Suspend, Ledger!Untouched, held, kept
  <2> QED BY <2>2 DEF Ledger!Next
<1>7. CASE PowerLoss \/ QuitAfterSave \/ ReleaseTables
  <2>1. held' = {}
    BY <1>7 DEF PowerLoss, QuitAfterSave, ReleaseTables, Off, held, MacsOf
  <2>2. UNCHANGED <<csv, vault, ignored, saveHits>> /\ running
    BY <1>2, <1>7 DEF PowerLoss, QuitAfterSave, ReleaseTables, Off, card, Regular
  <2>3. steady' = {}
    BY <1>2, <1>7 DEF PowerLoss, QuitAfterSave, ReleaseTables, Off, Housed
  <2>4. UNCHANGED tmp \/ pc = "rows"
    BY <1>7 DEF PowerLoss, QuitAfterSave, ReleaseTables, card
  <2> QED BY <1>6, <2>1, <2>2, <2>3, <2>4
<1>8. CASE Launch
  <2>1. LoadHits /\ UNCHANGED <<saveHits, ignored, vault, steady>> /\ table = <<>>
    BY <1>2, <1>8 DEF Launch, Housed
  <2>2. kept' = kept /\ held' = (IF saveHits THEN kept \ ignored ELSE {})
    BY <1>1, <2>1, LoadHeld DEF Sane, kept, held
  <2>3. held = {}
    BY <2>1 DEF held, MacsOf
  <2>4. Ledger!Resume
    BY <2>1, <2>2, <2>3 DEF Ledger!Resume, held, kept
  <2> QED BY <2>4 DEF Ledger!Next
<1>9. CASE AutosaveTick
  <2>1. Stutter
    BY <1>9 DEF AutosaveTick, GuiUnchanged, card, Stutter, held, kept, Recoverable
  <2> QED BY <2>1, StutterMaps
<1>10. CASE ExcludeDevice
  <2>1. steady = {} /\ steady' = {}
    BY <1>2, <1>10 DEF ExcludeDevice, Housed
  <2>2. UNCHANGED <<csv, tmp, vault, saveHits>> /\ kept' = kept
    BY <1>10 DEF ExcludeDevice, card, kept, Recoverable
  <2>3. PICK d \in Devices : target = {d}
    BY <1>2, <1>10 DEF ExcludeDevice, Housed
  <2>4. CASE ignored' = ignored \cup target
             /\ table' \in Compactions(table, NotIgnored(table, ignored'))
    <3>1. held' = held \ ignored'
      BY <1>1, <2>4, PurgeHeld DEF held, TypeOK
    <3>2. Ledger!Ban
      BY <2>1, <2>2, <2>3, <2>4, <3>1 DEF Ledger!Ban, held, kept
    <3> QED BY <3>2 DEF Ledger!Next
  <2>5. CASE UNCHANGED <<ignored, table>>
    <3>1. Stutter
      BY <2>1, <2>2, <2>5 DEF Stutter, held
    <3> QED BY <3>1, StutterMaps
  <2> QED BY <1>10, <2>4, <2>5 DEF ExcludeDevice
<1>11. CASE Worker
  <2>1. ASSUME NEW d \in Devices, NEW c \in Confs, RecordSighting(d, c),
               UNCHANGED <<csv, tmp, vault, ignored, saveHits>>
        PROVE  [Ledger!Next]_(Ledger!vars)
    <3>1. kept' = kept
      BY <2>1 DEF kept, Recoverable
    <3>2. steady' = steady \cap held'
      BY <2>1 DEF RecordSighting, held
    <3>3. CASE table' = table
      <4>1. Stutter
        BY <1>2, <2>1, <3>1, <3>2, <3>3 DEF Stutter, held, Housed
      <4> QED BY <4>1, StutterMaps
    <3>4. CASE \E lost \in held \cup {d} : held' = (held \ {lost}) \cup {d}
      <4>1. Ledger!Observe
        BY <2>1, <3>1, <3>2, <3>4 DEF Ledger!Observe, held, kept
      <4> QED BY <4>1 DEF Ledger!Next
    <3> QED BY <1>1, <2>1, <3>3, <3>4, SightingHeld DEF held
  <2> QED BY <1>11, <2>1, DevicesAssumption, ConfsAssumption
       DEF Worker, ReportFlock, ReportRemoteId, card
<1>12. CASE UNCHANGED vars
  <2>1. Stutter
    BY <1>12 DEF vars, card, Stutter, held, kept, Recoverable
  <2> QED BY <2>1, StutterMaps
<1> QED BY <1>3, <1>4, <1>5, <1>7, <1>8, <1>9, <1>10, <1>11, <1>12 DEF Next

\* The store implements the ledger for every set of devices and every capacity,
\* whatever power cuts and refused writes and removals fall into a save: a completed
\* save gives way only to another completed save or to the operator, it holds every
\* device held throughout, and a launch restores what is kept, less the exclusions.
\* As above, the rename is the one call that must not be refused.
THEOREM ImplementsTheLedger ==
  Spec /\ [][RenamesTaken]_vars => KeepsTheLedger
<1>1. Init => Sane
  BY SaneInit
<1>2. Sane /\ [Next]_vars /\ [RenamesTaken]_vars => Sane'
  BY SaneStep, StillTaken DEF Sane, Safe
<1>3. Init => Ledger!Init
  BY DEF Init, Ledger!Init, MacsOf, Recoverable, Missing
<1>4. Sane /\ Sane' /\ [Next]_vars /\ [RenamesTaken]_vars => [Ledger!Next]_(Ledger!vars)
  BY StepMaps, StillTaken DEF Sane, Safe
<1> QED BY <1>1, <1>2, <1>3, <1>4, PTL DEF Spec, KeepsTheLedger, Ledger!Spec

-----------------------------------------------------------------------------
(* The dirty flag is honest while the card refuses nothing.  The flag goes   *)
(* down before the write, so that from then to the end of the save either   *)
(* the table stands still and the rows below `next` are in the new file, or *)
(* a report has put the flag up again.                                      *)

InFile(f, i) == \E k \in DOMAIN f.rows : f.rows[k] = Stored(table[i])

AllIn(f) == \A i \in LiveRows(table) : InFile(f, i)

Followed ==
  /\ pc = "rows" =>
       total = Len(table) /\ \A i \in LiveRows(table) : i < next => InFile(tmp, i)
  /\ pc \in {"swap", "rename"} => AllIn(tmp)
  /\ pc \in {"return", "idle", "wipeTmp", "wipeCsv"} /\ vault => AllIn(Recoverable)

Clean ==
  /\ \A k \in DOMAIN csv.rows : csv.rows[k].archived
  /\ \A k \in DOMAIN tmp.rows : tmp.rows[k].archived
  /\ pc # "abandon"
  /\ pc = "rename" => ~csv.there
  /\ saveHits /\ ~dirty => Followed

\* What a load restores is archived to the last row.
LEMMA LoadArchived ==
  ASSUME TypeOK, Clean, UNCHANGED faults, LoadHits
  PROVE  /\ \A k \in DOMAIN csv'.rows : csv'.rows[k].archived
         /\ \A k \in DOMAIN tmp'.rows : tmp'.rows[k].archived
         /\ LiveRows(table') = {}
<1> DEFINE read == IF saveHits /\ csv'.there THEN Readable(csv') ELSE <<>>
<1>1. FinishSwap /\ table' \in Compactions(read, NotIgnored(read, ignored))
  BY DEF LoadHits
<1>2. \/ csv' = tmp /\ tmp' = Missing
      \/ csv' = csv /\ tmp' = tmp
  BY <1>1 DEF FinishSwap, card
<1>3. /\ \A k \in DOMAIN csv'.rows : csv'.rows[k].archived
      /\ \A k \in DOMAIN tmp'.rows : tmp'.rows[k].archived
  <2>1. DOMAIN Missing.rows = {}
    BY DEF Missing
  <2> QED BY <1>2, <2>1 DEF Clean
<1>4. csv' \in File
  BY FinishSwapType, <1>1
<1>5. read \in Seq(Row) /\ \A i \in DOMAIN read : read[i].archived
  <2>1. CASE saveHits /\ csv'.there
    <3> DEFINE n == IF Len(csv'.rows) < Cap THEN Len(csv'.rows) ELSE Cap
    <3>1. csv'.rows \in Seq(Row) /\ n \in Nat /\ n <= Len(csv'.rows)
      BY <1>4, CapAssumption DEF File
    <3>2. read = SubSeq(csv'.rows, 1, n)
      BY <2>1 DEF Readable
    <3> HIDE DEF n, read
    <3>3. read \in Seq(Row) /\ \A i \in DOMAIN read : i \in DOMAIN csv'.rows /\ read[i] = csv'.rows[i]
      BY <3>1, <3>2
    <3> QED BY <1>3, <3>3
  <2>2. CASE ~(saveHits /\ csv'.there)
    BY <2>2
  <2> QED BY <2>1, <2>2
<1> HIDE DEF read
<1>6. PICK e \in [DOMAIN table' -> NotIgnored(read, ignored)] :
         \A a \in DOMAIN table' : table'[a] = read[e[a]]
  BY <1>1, <1>5, NotIgnoredType, CompactionOrigin
<1>7. \A a \in DOMAIN table' : e[a] \in DOMAIN read
  BY <1>6 DEF NotIgnored
<1>8. \A a \in DOMAIN table' : table'[a].archived
  BY <1>5, <1>6, <1>7
<1> QED BY <1>3, <1>8 DEF LiveRows

\* No table, no live rows.
LEMMA NoneLive == table = <<>> => LiveRows(table) = {}
BY DEF LiveRows

\* The save writes what it passes.
LEMMA CleanSave ==
  ASSUME Safe, Clean, UNCHANGED faults, Save
  PROVE  Clean'
<1>0. TypeOK /\ \A kind : ~Fault(kind)
  BY NoFault DEF Safe
<1> USE <1>0 DEF Clean, Followed, AllIn, InFile
<1>1. CASE SaveSkip
  BY <1>1, NoneLive DEF SaveSkip, Leave, SaveUnchanged, card
<1>2. CASE SaveOpen
  <2>1. /\ pc' = "rows" /\ tmp' = Emptied /\ next' = 1 /\ total' = Len(table)
        /\ UNCHANGED <<csv, table, saveHits, dirty>>
    BY <1>2 DEF SaveOpen, SaveUnchanged
  <2>2. DOMAIN Emptied.rows = {}
    BY DEF Emptied
  <2>3. \A i \in LiveRows(table) : ~(i < 1)
    BY DEF LiveRows, TypeOK
  <2> QED BY <2>1, <2>2, <2>3
<1>3. CASE SaveRow
  <2>1. pc = "rows" /\ next <= total /\ UNCHANGED <<pc, csv, total, table, saveHits, dirty>>
    BY <1>3 DEF SaveRow, SaveUnchanged
  <2>2. next \in Nat /\ total \in Nat /\ Len(table) \in Nat /\ tmp.rows \in Seq(Row)
    BY DEF TypeOK, File
  <2>3. CASE next > Len(table) /\ next' = next + 1 /\ UNCHANGED tmp
    BY <2>1, <2>2, <2>3
  <2>4. CASE next <= Len(table) /\ next' = next + 1
             /\ tmp' = [tmp EXCEPT !.rows = Append(@, Stored(table[next]))]
    <3>1. tmp'.rows = Append(tmp.rows, Stored(table[next]))
      BY <2>4 DEF TypeOK, File
    <3>2. table[next] \in Row
      BY <2>2, <2>4 DEF TypeOK
    <3>3. Stored(table[next]).archived /\ Stored(table[next]) \in Row
      BY <3>2, StoredType DEF Stored, Row
    <3>4. /\ DOMAIN tmp'.rows = 1 .. Len(tmp.rows) + 1
          /\ \A k \in DOMAIN tmp.rows : k \in DOMAIN tmp'.rows /\ tmp'.rows[k] = tmp.rows[k]
          /\ tmp'.rows[Len(tmp.rows) + 1] = Stored(table[next])
      BY <2>2, <3>1, <3>3
    <3>5. \A k \in DOMAIN tmp'.rows : k \in DOMAIN tmp.rows \/ k = Len(tmp.rows) + 1
      BY <2>2, <3>4
    <3>6. \A k \in DOMAIN tmp'.rows : tmp'.rows[k].archived
      BY <3>3, <3>4, <3>5
    <3>7. \A i \in LiveRows(table) : i < next + 1 => i < next \/ i = next
      BY <2>2 DEF LiveRows, TypeOK
    <3>8. ASSUME saveHits, ~dirty
          PROVE  \A i \in LiveRows(table) : i < next + 1 =>
                   \E k \in DOMAIN tmp'.rows : tmp'.rows[k] = Stored(table[i])
      <4> SUFFICES ASSUME NEW i \in LiveRows(table), i < next + 1
                   PROVE  \E k \in DOMAIN tmp'.rows : tmp'.rows[k] = Stored(table[i])
        OBVIOUS
      <4>1. CASE i = next
        <5>1. Len(tmp.rows) + 1 \in DOMAIN tmp'.rows
          BY <2>2, <3>4
        <5> QED BY <3>4, <4>1, <5>1
      <4>2. CASE i < next
        <5>1. PICK k \in DOMAIN tmp.rows : tmp.rows[k] = Stored(table[i])
          BY <2>1, <3>8, <4>2
        <5> QED BY <3>4, <5>1
      <4> QED BY <3>7, <4>1, <4>2
    <3> QED BY <2>1, <2>4, <3>6, <3>8
  <2> QED BY <1>3, <2>3, <2>4 DEF SaveRow
<1>4. CASE SaveClose
  <2>1. tmp'.rows = tmp.rows /\ pc = "rows" /\ pc' = "swap" /\ next > total
        /\ UNCHANGED <<csv, table, saveHits, dirty>>
    BY <1>4 DEF SaveClose, SaveUnchanged, TypeOK, File
  <2>2. \A i \in LiveRows(table) : i <= Len(table) /\ i \in Nat
    BY DEF LiveRows, TypeOK
  <2>3. saveHits /\ ~dirty => \A i \in LiveRows(table) : i < next
    BY <2>1, <2>2 DEF TypeOK
  <2> QED BY <2>1, <2>3
<1>5. CASE SaveAbandon
  BY <1>5 DEF SaveAbandon
<1>6. CASE SaveRemoveOld
  <2>1. csv' = Missing /\ pc = "swap" /\ pc' = "rename"
        /\ UNCHANGED <<tmp, table, saveHits, dirty>>
    BY <1>6 DEF SaveRemoveOld, SaveUnchanged
  <2>2. ~Missing.there /\ DOMAIN Missing.rows = {}
    BY DEF Missing
  <2> QED BY <2>1, <2>2
<1>7. CASE SaveRename
  <2>1. /\ pc = "rename" /\ pc' = "return" /\ ~csv.there /\ csv' = tmp /\ tmp' = Missing
        /\ UNCHANGED <<table, saveHits, dirty>>
    BY <1>7 DEF SaveRename, SaveUnchanged, Leave
  <2>2. ~Missing.there /\ DOMAIN Missing.rows = {}
    BY DEF Missing
  <2>3. Recoverable' = tmp
    BY <2>1 DEF Recoverable, Safe, SwapDiscipline
  <2> QED BY <2>1, <2>2, <2>3
<1>8. CASE SaveReturn
  BY <1>8 DEF SaveReturn, card, Recoverable
<1> QED BY <1>1, <1>2, <1>3, <1>4, <1>5, <1>6, <1>7, <1>8 DEF Save

\* Every step keeps the flag honest.
LEMMA CleanStep ==
  ASSUME Safe, Regular, Housed, Clean, UNCHANGED faults, [Next]_vars
  PROVE  Clean'
<1>0. TypeOK /\ SwapDiscipline /\ \A kind : ~Fault(kind)
  BY NoFault DEF Safe
<1>1. ASSUME table' = <<>> \/ LiveRows(table') = {}, pc' = "idle",
             \A k \in DOMAIN csv'.rows : csv'.rows[k].archived,
             \A k \in DOMAIN tmp'.rows : tmp'.rows[k].archived
      PROVE  Clean'
  <2>1. LiveRows(table') = {}
    BY <1>1 DEF LiveRows
  <2> QED BY <1>1, <2>1 DEF Clean, Followed, AllIn
<1>2. ASSUME UNCHANGED <<csv, tmp>>, pc' = "begin" PROVE Clean'
  BY <1>2 DEF Clean, Followed
<1>3. CASE Launch \/ FirmwareExit
  <2>1. LoadHits /\ pc' = "idle"
    BY <1>3 DEF Launch, FirmwareExit, Idle, gui, Regular
  <2> QED BY <1>0, <1>1, <2>1, LoadArchived
<1>4. CASE PowerLoss
  <2>1. table' = <<>> /\ pc' = "idle" /\ csv' = csv
    BY <1>4 DEF PowerLoss, Off
  <2>2. \A k \in DOMAIN tmp'.rows : tmp'.rows[k].archived
    <3>1. CASE UNCHANGED tmp
      BY <3>1 DEF Clean
    <3>2. ASSUME NEW k \in 0 .. Len(tmp.rows), tmp' = [tmp EXCEPT !.rows = SubSeq(@, 1, k)]
          PROVE  \A j \in DOMAIN tmp'.rows : tmp'.rows[j].archived
      <4>1. tmp'.rows = SubSeq(tmp.rows, 1, k) /\ tmp.rows \in Seq(Row)
        BY <1>0, <3>2 DEF TypeOK, File
      <4>2. \A j \in DOMAIN tmp'.rows : j \in DOMAIN tmp.rows /\ tmp'.rows[j] = tmp.rows[j]
        BY <4>1
      <4> QED BY <4>2 DEF Clean
    <3> QED BY <1>4, <3>1, <3>2 DEF PowerLoss
  <2> QED BY <1>1, <2>1, <2>2 DEF Clean
<1>5. CASE QuitAfterSave \/ Quit
  BY <1>1, <1>5 DEF QuitAfterSave, Quit, Off, Clean
<1>6. CASE ReleaseTables
  BY <1>1, <1>6 DEF ReleaseTables, card, Clean
<1>7. CASE Save
  BY <1>7, CleanSave
<1>8. CASE AutosaveTick
  <2>1. CASE pc' = "begin"
    BY <1>2, <1>8, <2>1 DEF AutosaveTick, card
  <2>2. CASE UNCHANGED <<dirty, pc, job>>
    BY <1>8, <2>2 DEF AutosaveTick, card, GuiUnchanged, Clean, Idle
  <2> QED BY <1>8, <2>1, <2>2 DEF AutosaveTick
<1>9. CASE Handler
  <2>1. CASE FirmwareEnter \/ ScanStop
    BY <1>2, <2>1 DEF FirmwareEnter, ScanStop, card
  <2>2. CASE ScanStart \/ ForgetIgnored
    BY <2>2 DEF ScanStart, ForgetIgnored, card, gui, loop, Clean, Followed, AllIn, InFile, Recoverable, Idle
  <2>3. ASSUME NEW i \in 1 .. Cap, EditRow(i) \/ IgnoreRow(i) PROVE Clean'
    BY <1>2, <2>3 DEF EditRow, IgnoreRow, card
  <2>4. ASSUME NEW i \in 1 .. Cap, MarkInDetail(i) PROVE Clean'
    BY <2>4 DEF MarkInDetail, card, gui, Clean, Idle
  <2>5. ASSUME NEW i \in 1 .. Cap, DeleteRow(i) PROVE Clean'
    <3>1. CASE saveHits /\ table' = <<>>
      BY <2>5, <3>1, NoneLive DEF DeleteRow, SaveAfterDelete, GuiUnchanged, card, Clean, Followed
    <3>2. CASE saveHits /\ table' # <<>>
      BY <1>2, <2>5, <3>2 DEF DeleteRow, SaveAfterDelete, card
    <3>3. CASE ~saveHits
      BY <2>5, <3>3 DEF DeleteRow, SaveAfterDelete, GuiUnchanged, card, Clean
    <3> QED BY <3>1, <3>2, <3>3
  <2>6. CASE ClearMarks
    BY <1>2, <2>6 DEF ClearMarks, card
  <2>7. CASE ToggleSaveHits
    BY <2>7 DEF ToggleSaveHits, card, Clean, Followed
  <2>8. CASE ClearSavedHits
    BY <2>8 DEF ClearSavedHits, SaveUnchanged, card, loop, Clean, Followed, AllIn, InFile, Recoverable, Idle
  <2> QED BY <1>3, <1>5, <1>9, <2>1, <2>2, <2>3, <2>4, <2>5, <2>6, <2>7, <2>8 DEF Handler
<1>10. CASE Erase
  <2>0. ~Missing.there /\ DOMAIN Missing.rows = {}
    BY DEF Missing
  <2>1. CASE Unlink
    BY <1>0, <2>0, <2>1 DEF Unlink, Clean, Followed
  <2>2. CASE OffTmp
    BY <1>0, <2>0, <2>2 DEF OffTmp, SaveUnchanged, Clean, Followed
  <2>3. CASE OffCsv
    BY <1>0, <2>0, <2>3 DEF OffCsv, SwapDiscipline, Clean, Followed
  <2>4. CASE WipeTmp
    <3>1. vault => csv.there
      BY <1>0, <2>4 DEF WipeTmp, SwapDiscipline, Regular
    <3> QED BY <2>0, <2>4, <3>1 DEF WipeTmp, SaveUnchanged, Clean, Followed, AllIn, InFile, Recoverable
  <2>5. CASE WipeCsv
    BY <1>0, <2>0, <2>5 DEF WipeCsv, Clean, Followed
  <2> QED BY <1>10, <2>1, <2>2, <2>3, <2>4, <2>5 DEF Erase
<1>11. CASE ExcludeDevice
  <2>1. CASE saveHits' /\ pc' = "unlink"
    BY <1>11, <2>1 DEF ExcludeDevice, card, Clean, Followed
  <2>2. CASE pc' = "begin"
    BY <1>2, <1>11, <2>2 DEF ExcludeDevice, card
  <2>3. CASE ~saveHits'
    BY <1>11, <2>3 DEF ExcludeDevice, SaveAfterDelete, card, Clean
  <2> QED BY <1>0, <1>11, <2>1, <2>2, <2>3 DEF ExcludeDevice, SaveAfterDelete
<1>12. CASE Worker
  BY <1>12 DEF Worker, ReportFlock, ReportRemoteId, card, gui, Clean
<1>13. CASE UNCHANGED vars
  BY <1>13 DEF vars, card, gui, loop, Clean, Followed, AllIn, InFile, Recoverable
<1> QED BY <1>3, <1>4, <1>5, <1>6, <1>7, <1>8, <1>9, <1>10, <1>11, <1>12, <1>13 DEF Next

\* As long as the card refuses nothing the dirty flag never lies, for every capacity and
\* however reports, saves and power cuts fall: when it is down and the GUI thread is
\* between handlers, the card holds the latest sighting of every live row.
THEOREM CleanIsSaved ==
  Spec /\ [][UNCHANGED faults]_vars => []CleanMeansSaved
<1>1. TypeOK /\ [UNCHANGED faults]_vars => UNCHANGED faults /\ RenamesTaken
  BY NoneRefused DEF vars
<1>2. Init => Sane /\ Clean
  <2>1. Init => Clean
    BY DEF Init, Clean, Followed, Missing
  <2> QED BY <2>1, SaneInit
<1>3. Sane /\ Clean /\ [Next]_vars /\ [UNCHANGED faults]_vars => (Sane /\ Clean)'
  BY <1>1, SaneStep, CleanStep DEF Sane, Safe
<1>4. Clean => CleanMeansSaved
  BY DEF Clean, Followed, AllIn, InFile, CleanMeansSaved, OnCard, Idle
<1> QED BY <1>2, <1>3, <1>4, PTL DEF Spec
=============================================================================
