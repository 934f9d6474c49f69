------------------------------ MODULE HitsStore ------------------------------
(***************************************************************************)
(* How the detection table reaches the SD card and comes back: the save    *)
(* that writes hits.tmp row by row and swaps it in over hits.csv, the      *)
(* autosave tick with its dirty flag, the operator's edits, deletions and  *)
(* erasures, the release of the tables to the flasher, power loss at any   *)
(* step and the recovery the next launch runs.                             *)
(*                                                                         *)
(* Two threads act.  The GUI thread runs at most one handler at a time and *)
(* its position in it is `pc`; `job` is the caller recon_hits_save() will  *)
(* return to.  The ESP worker reports detections between any two of its    *)
(* steps, because the save takes the mutex once per row only.              *)
(***************************************************************************)
EXTENDS FlockRows

CONSTANTS
  Devices,     \* the addresses on the air
  Drones,      \* those that announce themselves by Remote ID
  Confs,       \* the confidence rungs reports carry
  TopConf,     \* the rung a Remote ID broadcast earns (Confirmed)
  Cap,         \* RECON_FLOCK_MAX
  MaxEpoch,    \* bound: the RTC readings a behaviour may see
  FaultKinds,  \* the SD card operations that may fail
  MaxFaults,   \* bound: how many of them do
  MaxCrashes   \* bound: how many times power is lost

ASSUME DevicesAssumption == Drones \subseteq Devices
ASSUME ConfsAssumption == Confs \subseteq Nat /\ TopConf \in Confs
ASSUME CapAssumption == Cap \in Nat \ {0}
ASSUME BoundsAssumption ==
  MaxEpoch \in Nat \ {0} /\ MaxFaults \in Nat /\ MaxCrashes \in Nat
ASSUME FaultsAssumption == FaultKinds \subseteq {"write", "remove", "rename"}

VARIABLES
  (* the card *)
  csv,        \* hits.csv
  tmp,        \* hits.tmp
  saveHits,   \* the Save hits setting (settings file and RAM agree)
  ignored,    \* the exclusion list (file and RAM agree)
  (* RAM *)
  running,    \* the app is up
  scanning,   \* a scan session is live: the ESP worker may report
  resident,   \* the tables are allocated
  table,      \* app->flock[0 .. flock_count)
  dirty,      \* hits_dirty
  seeded,     \* hits_last_save # 0
  clock,      \* the RTC
  pc, job,    \* the GUI thread: where it is, and who called the save
  target,     \* the device the hit menu is excluding, as a set
  total,      \* flock_count when the save began
  next,       \* the row the save writes next
  (* environment and history *)
  faults, crashes,
  vault,      \* a completed save is on the card and the operator wants it
  steady      \* the devices held without a break since the save began

card == <<csv, tmp>>
gui == <<pc, job, target>>
loop == <<total, next>>
env == <<faults, crashes>>
vars == <<csv, tmp, saveHits, ignored, running, scanning, resident, table, dirty,
          seeded, clock, pc, job, target, total, next, faults, crashes, vault, steady>>

-----------------------------------------------------------------------------
Row == [mac : Devices, conf : Confs \cup {0}, epoch : Nat,
        archived : BOOLEAN, noted : BOOLEAN]

File == [there : BOOLEAN, whole : BOOLEAN, rows : Seq(Row)]

Missing == [there |-> FALSE, whole |-> FALSE, rows |-> <<>>]

\* hits.tmp as FSOM_CREATE_ALWAYS leaves it.
Emptied == [there |-> TRUE, whole |-> FALSE, rows |-> <<>>]

\* A record line carries everything but `archived`, which recon_hits_add() sets;
\* noted stands for what the operator added: confirmed, marked, label.
Stored(r) == [r EXCEPT !.archived = TRUE]

\* What recon_hits_load() would restore now.
Recoverable == IF csv.there THEN csv ELSE tmp

\* recon_hits_load() stops when the table is full.
Readable(f) == SubSeq(f.rows, 1, IF Len(f.rows) < Cap THEN Len(f.rows) ELSE Cap)

NotIgnored(t, gone) == {i \in DOMAIN t : t[i].mac \notin gone}

Jobs == {"none", "autosave", "stop", "exit", "edit", "delete", "ignore", "release"}
Places == {"idle", "begin", "rows", "swap", "rename", "abandon", "return",
           "unlink", "offTmp", "offCsv", "wipeTmp", "wipeCsv"}

\* A storage call that may fail does so in this step.
Fault(kind) ==
  /\ kind \in FaultKinds
  /\ faults < MaxFaults
  /\ faults' = faults + 1
  /\ UNCHANGED crashes

-----------------------------------------------------------------------------
Init ==
  /\ csv = Missing /\ tmp = Missing
  /\ saveHits \in BOOLEAN
  /\ ignored = {}
  /\ running = FALSE /\ scanning = FALSE /\ resident = FALSE
  /\ table = <<>>
  /\ dirty = FALSE /\ seeded = FALSE
  /\ clock = 1
  /\ pc = "idle" /\ job = "none" /\ target = {}
  /\ total = 0 /\ next = 1
  /\ faults = 0 /\ crashes = 0
  /\ vault = FALSE /\ steady = {}

-----------------------------------------------------------------------------
(* Start-up, and the visit to the flasher that borrows the tables' memory. *)

\* A hits.tmp with no hits.csv is taken for an interrupted swap and renamed.
FinishSwap ==
  \/ /\ saveHits /\ ~csv.there /\ tmp.there
     /\ \/ csv' = tmp /\ tmp' = Missing /\ UNCHANGED env
        \/ Fault("rename") /\ UNCHANGED card
  \/ /\ ~saveHits \/ csv.there \/ ~tmp.there
     /\ UNCHANGED <<card, env>>

\* Seeded defect: the restored rows are not purged of the excluded devices.
LoadHitsUnpurged ==
  /\ FinishSwap
  /\ table' = (IF saveHits /\ csv'.there THEN Readable(csv') ELSE <<>>)
  /\ UNCHANGED dirty

\* recon_hits_load() into an empty table, then recon_app_purge_excluded().
LoadHits ==
  /\ FinishSwap
  /\ LET read == IF saveHits /\ csv'.there THEN Readable(csv') ELSE <<>>
     IN  /\ table' \in Compactions(read, NotIgnored(read, ignored))
         /\ dirty' = (dirty \/ Len(table') # Len(read))

\* recon_app_alloc()
Launch ==
  /\ ~running
  /\ running' = TRUE /\ resident' = TRUE
  /\ LoadHits
  /\ UNCHANGED <<saveHits, ignored, scanning, seeded, clock, gui, loop, vault, steady>>

Idle == running /\ pc = "idle"

\* The firmware screen: recon_tables_release() persists, then frees.
FirmwareEnter ==
  /\ Idle /\ ~scanning /\ resident
  /\ pc' = "begin" /\ job' = "release"
  /\ UNCHANGED <<card, saveHits, ignored, running, scanning, resident, table, dirty,
                 seeded, clock, target, loop, env, vault, steady>>

ReleaseTables ==
  /\ pc = "return" /\ job = "release"
  /\ table' = <<>> /\ resident' = FALSE
  /\ pc' = "idle" /\ job' = "none"
  /\ UNCHANGED <<card, saveHits, ignored, running, scanning, dirty, seeded, clock,
                 target, loop, env, vault, steady>>

FirmwareExit ==
  /\ Idle /\ ~resident
  /\ resident' = TRUE
  /\ LoadHits
  /\ UNCHANGED <<saveHits, ignored, running, scanning, seeded, clock, gui, loop,
                 vault, steady>>

-----------------------------------------------------------------------------
(* The ESP worker.                                                         *)

Fresh(d) == [mac |-> d, conf |-> 0, epoch |-> 0, archived |-> FALSE, noted |-> FALSE]

Merge(r, c, now) ==
  [r EXCEPT !.archived = FALSE, !.epoch = now, !.conf = IF c > @ THEN c ELSE @]

\* The table after a sighting of d in slot k.
Sighted(d, c, now, k) ==
  LET old == IF Has(table, d) THEN table[k] ELSE Fresh(d)
  IN  PutRow(table, k, Merge(old, c, now))

\* What both report handlers do with the row, once past their own gates.
RecordSighting(d, c) ==
  LET k == SlotFor(table, d, Cap)
  IN  \E now \in {clock, clock + 1} :
        /\ now <= MaxEpoch
        /\ clock' = now
        /\ table' = IF k = 0 THEN table ELSE Sighted(d, c, now, k)
        /\ steady' = steady \cap MacsOf(table')

\* recon_app_report_flock(): dirties the table even when it found no room.
ReportFlock(d, c) ==
  /\ running /\ scanning
  /\ d \notin ignored
  /\ RecordSighting(d, c)
  /\ dirty' = TRUE
  /\ UNCHANGED <<card, saveHits, ignored, running, scanning, resident, seeded, gui,
                 loop, env, vault>>

\* recon_app_report_remote_id(): no exclusion check, and gives up when full.
ReportRemoteId(d) ==
  /\ running /\ scanning
  /\ SlotFor(table, d, Cap) # 0
  /\ RecordSighting(d, TopConf)
  /\ dirty' = TRUE
  /\ UNCHANGED <<card, saveHits, ignored, running, scanning, resident, seeded, gui,
                 loop, env, vault>>

-----------------------------------------------------------------------------
(* recon_hits_save(), a step per mutex section and per storage call.       *)

\* Every path out of the save: its locals are gone.
Leave ==
  /\ pc' = "return"
  /\ total' = 0 /\ next' = 1 /\ steady' = {}

SaveUnchanged == UNCHANGED <<saveHits, ignored, running, scanning, resident, table,
                             dirty, seeded, clock, job, target>>

\* Seeded defect, the one v0.53 shipped: saving an empty table removes the file.
SaveSkipRemoving ==
  /\ pc = "begin"
  /\ ~saveHits \/ table = <<>>
  /\ csv' = IF saveHits THEN Missing ELSE csv
  /\ Leave
  /\ SaveUnchanged /\ UNCHANGED <<tmp, env, vault>>

SaveSkip ==
  /\ pc = "begin"
  /\ ~saveHits \/ table = <<>>
  /\ Leave
  /\ SaveUnchanged /\ UNCHANGED <<card, env, vault>>

SaveOpen ==
  /\ pc = "begin"
  /\ saveHits /\ table # <<>>
  /\ total' = Len(table) /\ next' = 1
  /\ steady' = MacsOf(table)
  /\ \/ tmp' = Emptied /\ pc' = "rows" /\ UNCHANGED env
     \/ Fault("write") /\ pc' = "abandon" /\ tmp' \in {tmp, Emptied}
  /\ SaveUnchanged /\ UNCHANGED <<csv, vault>>

SaveRow ==
  /\ pc = "rows" /\ next <= total
  /\ \/ /\ next <= Len(table)
        /\ tmp' = [tmp EXCEPT !.rows = Append(@, Stored(table[next]))]
        /\ next' = next + 1
        /\ UNCHANGED <<pc, env>>
     \/ /\ next > Len(table)
        /\ next' = next + 1
        /\ UNCHANGED <<tmp, pc, env>>
     \/ /\ next <= Len(table)
        /\ Fault("write") /\ pc' = "abandon"
        /\ UNCHANGED <<tmp, next>>
  /\ SaveUnchanged /\ UNCHANGED <<csv, total, vault, steady>>

\* Seeded defect: the loop stops one row short.
SaveCloseEarly ==
  /\ pc = "rows" /\ next >= total
  /\ tmp' = [tmp EXCEPT !.whole = TRUE]
  /\ pc' = "swap"
  /\ SaveUnchanged /\ UNCHANGED <<csv, loop, env, vault, steady>>

SaveClose ==
  /\ pc = "rows" /\ next > total
  /\ tmp' = [tmp EXCEPT !.whole = TRUE]
  /\ pc' = "swap"
  /\ SaveUnchanged /\ UNCHANGED <<csv, loop, env, vault, steady>>

SaveAbandon ==
  /\ pc = "abandon"
  /\ Leave
  /\ \/ tmp' = Missing /\ UNCHANGED env
     \/ Fault("remove") /\ UNCHANGED tmp
  /\ SaveUnchanged /\ UNCHANGED <<csv, vault>>

\* From here the new save is what a launch would recover.
SaveRemoveOld ==
  /\ pc = "swap"
  /\ pc' = "rename"
  /\ \/ csv' = Missing /\ vault' = TRUE /\ UNCHANGED env
     \/ csv.there /\ Fault("remove") /\ UNCHANGED <<csv, vault>>
  /\ SaveUnchanged /\ UNCHANGED <<tmp, loop, steady>>

\* The firmware's rename refuses an existing destination.
SaveRename ==
  /\ pc = "rename"
  /\ Leave
  /\ \/ ~csv.there /\ csv' = tmp /\ tmp' = Missing /\ UNCHANGED env
     \/ csv.there /\ UNCHANGED <<card, env>>
     \/ ~csv.there /\ Fault("rename") /\ UNCHANGED card
  /\ SaveUnchanged /\ UNCHANGED vault

\* Seeded defect: the autosave clears the dirty flag after the write.
SaveReturnClearing ==
  /\ pc = "return"
  /\ job \in {"autosave", "stop", "edit", "delete"}
  /\ dirty' = (dirty /\ job # "autosave")
  /\ pc' = "idle" /\ job' = "none"
  /\ UNCHANGED <<card, saveHits, ignored, running, scanning, resident, table, seeded,
                 clock, target, loop, env, vault, steady>>

\* Callers with nothing left to do after the save.
SaveReturn ==
  /\ pc = "return"
  /\ job \in {"autosave", "stop", "edit", "delete"}
  /\ pc' = "idle" /\ job' = "none"
  /\ UNCHANGED <<card, saveHits, ignored, running, scanning, resident, table, dirty,
                 seeded, clock, target, loop, env, vault, steady>>

-----------------------------------------------------------------------------
(* The GUI handlers.                                                       *)

GuiUnchanged == UNCHANGED <<saveHits, ignored, running, scanning, resident, clock, loop,
                            env, steady>>

\* Seeded defect: the first dirty tick returns without starting the clock.
AutosaveTickUnseeded ==
  /\ Idle /\ saveHits /\ dirty /\ seeded
  /\ dirty' = FALSE
  /\ pc' = "begin" /\ job' = "autosave"
  /\ GuiUnchanged /\ UNCHANGED <<card, table, seeded, target, vault>>

\* The 250 ms tick.  The first dirty tick only starts the clock; a later one,
\* once the interval has passed, clears the flag and then saves.
AutosaveTick ==
  /\ Idle /\ saveHits /\ dirty
  /\ \/ /\ ~seeded
        /\ seeded' = TRUE
        /\ UNCHANGED <<dirty, pc, job>>
     \/ /\ seeded
        /\ dirty' = FALSE
        /\ pc' = "begin" /\ job' = "autosave"
        /\ UNCHANGED seeded
  /\ GuiUnchanged /\ UNCHANGED <<card, table, target, vault>>

ScanStart ==
  /\ Idle /\ resident /\ ~scanning
  /\ scanning' = TRUE
  /\ UNCHANGED <<card, saveHits, ignored, running, resident, table, dirty, seeded,
                 clock, gui, loop, env, vault, steady>>

\* scan_session_stop(): the worker is joined before the save begins.  Back at
\* the main menu the app goes on; on the way out it quits.
ScanStop ==
  /\ Idle /\ scanning
  /\ scanning' = FALSE
  /\ pc' = "begin" /\ job' \in {"stop", "exit"}
  /\ UNCHANGED <<card, saveHits, ignored, running, resident, table, dirty, seeded,
                 clock, target, loop, env, vault, steady>>

\* RAM is gone; the card keeps what it had.
Off ==
  /\ running' = FALSE /\ scanning' = FALSE /\ resident' = FALSE
  /\ table' = <<>> /\ dirty' = FALSE /\ seeded' = FALSE
  /\ pc' = "idle" /\ job' = "none" /\ target' = {}
  /\ total' = 0 /\ next' = 1
  /\ steady' = {}
  /\ UNCHANGED <<csv, saveHits, ignored, clock, vault>>

Quit ==
  /\ Idle /\ resident /\ ~scanning
  /\ Off /\ UNCHANGED <<tmp, env>>

QuitAfterSave ==
  /\ pc = "return" /\ job = "exit"
  /\ Off /\ UNCHANGED <<tmp, env>>

\* A file that was still open keeps only some prefix of what was written to it.
PowerLoss ==
  /\ running /\ crashes < MaxCrashes
  /\ crashes' = crashes + 1
  /\ \/ /\ pc = "rows"
        /\ \E k \in 0 .. Len(tmp.rows) : tmp' = [tmp EXCEPT !.rows = SubSeq(@, 1, k)]
     \/ pc # "rows" /\ UNCHANGED tmp
  /\ Off /\ UNCHANGED faults

\* Hit menu: Confirm, Mark, Rename.  Saved at once, the dirty flag untouched.
EditRow(i) ==
  /\ Idle /\ i \in DOMAIN table
  /\ table' = [table EXCEPT ![i].noted = ~@]
  /\ pc' = "begin" /\ job' = "edit"
  /\ GuiUnchanged /\ UNCHANGED <<card, dirty, seeded, target, vault>>

\* The detail screen's Mark leaves the write to the autosave.
MarkInDetail(i) ==
  /\ Idle /\ scanning /\ i \in DOMAIN table
  /\ table' = [table EXCEPT ![i].noted = ~@]
  /\ dirty' = TRUE
  /\ GuiUnchanged /\ UNCHANGED <<card, seeded, gui, vault>>

\* recon_hits_save_after_delete(), with `t` the table the deletion left.
SaveAfterDelete(t) ==
  IF saveHits
  THEN pc' = (IF t = <<>> THEN "unlink" ELSE "begin") /\ job' = "delete"
  ELSE pc' = "idle" /\ job' = "none"

\* Delete, from the hit menu or the detail screen.
DeleteRow(i) ==
  /\ Idle /\ i \in DOMAIN table
  /\ table' = CloseGap(table, i)
  /\ SaveAfterDelete(table')
  /\ GuiUnchanged /\ UNCHANGED <<card, dirty, seeded, target, vault>>

Unlink ==
  /\ pc = "unlink"
  /\ \/ csv' = Missing /\ vault' = FALSE /\ UNCHANGED env
     \/ csv.there /\ Fault("remove") /\ UNCHANGED <<csv, vault>>
  /\ pc' = "idle" /\ job' = "none"
  /\ UNCHANGED <<tmp, saveHits, ignored, running, scanning, resident, table, dirty,
                 seeded, clock, target, loop, steady>>

\* "It's mine: never alert": the table is saved first, then the exclusion.
IgnoreRow(i) ==
  /\ Idle /\ i \in DOMAIN table
  /\ target' = {table[i].mac}
  /\ pc' = "begin" /\ job' = "ignore"
  /\ GuiUnchanged /\ UNCHANGED <<card, table, dirty, seeded, vault>>

\* recon_app_exclude_device(): the list on the card, then the purge and the save
\* that follows it; refused, the row stays and an error is shown.
ExcludeDevice ==
  /\ pc = "return" /\ job = "ignore"
  /\ target' = {}
  /\ \/ /\ ignored' = ignored \cup target
        /\ table' \in Compactions(table, NotIgnored(table, ignored'))
        /\ dirty' = (dirty \/ Len(table') # Len(table))
        /\ SaveAfterDelete(table')
        /\ UNCHANGED env
     \/ /\ Fault("write")
        /\ pc' = "idle" /\ job' = "none"
        /\ UNCHANGED <<ignored, table, dirty>>
  /\ UNCHANGED <<card, saveHits, running, scanning, resident, seeded, clock, loop, vault,
                 steady>>

\* recon_app_clear_exclusions()
ForgetIgnored ==
  /\ Idle /\ resident /\ ~scanning /\ ignored # {}
  /\ ignored' = {}
  /\ UNCHANGED <<card, saveHits, running, scanning, resident, table, dirty, seeded,
                 clock, gui, loop, env, vault, steady>>

\* save_hits_changed(): the setting is written first; off also erases.
ToggleSaveHits ==
  /\ Idle /\ resident /\ ~scanning
  /\ saveHits' = ~saveHits
  /\ pc' = (IF saveHits THEN "offTmp" ELSE "idle")
  /\ vault' = FALSE
  /\ UNCHANGED <<card, ignored, running, scanning, resident, table, dirty, seeded,
                 clock, job, target, loop, env, steady>>

\* recon_hits_clear(), one storage call at a time, no result looked at.
OffTmp ==
  /\ pc = "offTmp"
  /\ pc' = "offCsv"
  /\ \/ tmp' = Missing /\ UNCHANGED env
     \/ tmp.there /\ Fault("remove") /\ UNCHANGED tmp
  /\ SaveUnchanged /\ UNCHANGED <<csv, loop, vault, steady>>

OffCsv ==
  /\ pc = "offCsv"
  /\ pc' = "idle"
  /\ \/ csv' = Missing /\ UNCHANGED env
     \/ csv.there /\ Fault("remove") /\ UNCHANGED csv
  /\ table' \in Compactions(table, DOMAIN table \ ArchivedIn(table))
  /\ UNCHANGED <<tmp, saveHits, ignored, running, scanning, resident, dirty, seeded,
                 clock, job, target, loop, vault, steady>>

\* Reports > Clear Saved Hits, offered when there is something to clear.
ClearSavedHits ==
  /\ Idle /\ resident /\ ~scanning
  /\ saveHits \/ ArchivedIn(table) # {}
  /\ pc' = "wipeTmp"
  /\ SaveUnchanged /\ UNCHANGED <<card, loop, env, vault, steady>>

\* recon_hits_clear_all(): the file first, and only then the table.
WipeTmp ==
  /\ pc = "wipeTmp"
  /\ pc' = "wipeCsv"
  /\ \/ tmp' = Missing /\ UNCHANGED env
     \/ tmp.there /\ Fault("remove") /\ UNCHANGED tmp
  /\ SaveUnchanged /\ UNCHANGED <<csv, loop, vault, steady>>

WipeCsv ==
  /\ pc = "wipeCsv"
  /\ pc' = "idle"
  /\ \/ csv' = Missing /\ table' = <<>> /\ dirty' = FALSE /\ vault' = FALSE
        /\ UNCHANGED env
     \/ csv.there /\ Fault("remove") /\ UNCHANGED <<csv, table, dirty, vault>>
  /\ UNCHANGED <<tmp, saveHits, ignored, running, scanning, resident, seeded, clock,
                 job, target, loop, steady>>

\* Reports > Clear All Marks
ClearMarks ==
  /\ Idle /\ resident /\ ~scanning
  /\ table' = [i \in DOMAIN table |-> [table[i] EXCEPT !.noted = FALSE]]
  /\ pc' = "begin" /\ job' = "edit"
  /\ GuiUnchanged /\ UNCHANGED <<card, dirty, seeded, target, vault>>

-----------------------------------------------------------------------------
Save == SaveSkip \/ SaveOpen \/ SaveRow \/ SaveClose \/ SaveAbandon
        \/ SaveRemoveOld \/ SaveRename \/ SaveReturn

Erase == Unlink \/ OffTmp \/ OffCsv \/ WipeTmp \/ WipeCsv

Handler ==
  \/ FirmwareEnter \/ FirmwareExit
  \/ ScanStart \/ ScanStop \/ Quit
  \/ \E i \in 1 .. Cap : EditRow(i) \/ MarkInDetail(i) \/ DeleteRow(i) \/ IgnoreRow(i)
  \/ ForgetIgnored \/ ToggleSaveHits \/ ClearSavedHits \/ ClearMarks

Worker ==
  \/ \E d \in Devices \ Drones, c \in Confs : ReportFlock(d, c)
  \/ \E d \in Drones : ReportRemoteId(d)

Next ==
  \/ Launch \/ PowerLoss
  \/ AutosaveTick \/ Handler
  \/ Save \/ Erase \/ ReleaseTables \/ ExcludeDevice \/ QuitAfterSave
  \/ Worker

Spec == Init /\ [][Next]_vars

\* The GUI thread finishes the handler it is in, and its 250 ms tick comes round
\* however many menu entries the operator presses in between.
Fairness ==
  /\ WF_vars(Save) /\ WF_vars(Erase)
  /\ WF_vars(ReleaseTables) /\ WF_vars(ExcludeDevice) /\ WF_vars(QuitAfterSave)
  /\ SF_vars(AutosaveTick)

FairSpec == Spec /\ Fairness

=============================================================================
