------------------------------ MODULE FlockTable ------------------------------
(***************************************************************************)
(* One session of the detection table: what the ESP worker's two report    *)
(* handlers do to it (exclusion gate, lookup, eviction, merge, alert), what *)
(* the operator does to it from the hit menu, and the exclusion list that  *)
(* the menu's "It's mine" writes to the card, reads back and enforces.     *)
(*                                                                         *)
(* Two threads: the worker's handlers run between any two steps of the GUI *)
(* thread, whose place in an exclusion is `pc`.  What happens to the table *)
(* on the card is HitsStore's subject and is left out here.                *)
(***************************************************************************)
EXTENDS FlockRows, SigLines

CONSTANTS
  Devices,     \* addresses on the air
  Drones,      \* those that broadcast Remote ID
  Fps,         \* probe fingerprints
  Generic,     \* those shared by commodity hardware
  NoFp,        \* "no fingerprint captured"
  Confs,       \* the confidence rungs reports carry
  TopConf,     \* Confirmed
  Rungs,       \* the alert levels the operator may choose from
  Cap,         \* RECON_FLOCK_MAX
  Cooldown,    \* ALERT_COOLDOWN_MS, in ticks
  MaxMacs,     \* SIG_IGNORED_MAX_MACS
  MaxFps,      \* SIG_IGNORED_MAX_FPS
  FaultKinds,  \* card operations that may fail: "append", "read", "remove"
  MaxFaults,   \* bound: how many do
  MaxTick,     \* bound: the last tick
  MaxPresses   \* bound: how often the operator opens something

ASSUME DevicesAssumption == Drones \subseteq Devices
ASSUME FpsAssumption == Generic \subseteq Fps /\ NoFp \notin Fps
ASSUME TextsAssumption == "#" \notin Devices \cup Fps
ASSUME ConfsAssumption ==
  Confs \subseteq Nat \ {0} /\ TopConf \in Confs /\ Rungs \subseteq Nat \ {0}
ASSUME LimitsAssumption ==
  Cap \in Nat \ {0} /\ Cooldown \in Nat /\ MaxMacs \in Nat /\ MaxFps \in Nat
ASSUME BoundsAssumption ==
  MaxTick \in Nat /\ MaxPresses \in Nat /\ MaxFaults \in Nat
ASSUME FaultsAssumption == FaultKinds \subseteq {"append", "read", "remove"}

VARIABLES
  table,             \* app->flock[0 .. flock_count)
  tick,              \* furi_get_tick()
  rung,              \* the alert level in force
  haveFired, lastAlert, pending,
                     \* alert_have_fired, alert_last_tick, alert_pending
  ramMacs, ramFps,   \* the exclusions the gate enforces: values, as SigLines has them
  file,              \* ignored.txt: its lines, [text, ended] each
  menu, chosen,      \* hit_menu_idx, and the device it was opened on
  pc, target,        \* the exclusion in progress, and whose it is
  have, wrote,       \* what sig_db_ignore_add() read at its start; wrote || dup_mac
  presses, faults,
  told,              \* how often each device has been announced
  excused,           \* devices whose silence has a reason (see NoSilentCamera)
  apart              \* the card refused something that memory could not follow
                     \* (see MemoryMatchesCard)

alert == <<haveFired, lastAlert, pending>>
lists == <<ramMacs, ramFps, file, apart>>
screen == <<menu, chosen>>
excluding == <<pc, target, have, wrote>>
history == <<told, excused>>
vars == <<table, tick, rung, haveFired, lastAlert, pending, ramMacs, ramFps, file,
          menu, chosen, pc, target, have, wrote, presses, faults, told, excused, apart>>

-----------------------------------------------------------------------------
Row == [mac : Devices, conf : Confs \cup {0}, epoch : Nat, archived : BOOLEAN,
        alerted : BOOLEAN, fp : Fps \cup {NoFp}, noted : BOOLEAN]

Fresh(d) == [mac |-> d, conf |-> 0, epoch |-> 0, archived |-> FALSE,
             alerted |-> FALSE, fp |-> NoFp, noted |-> FALSE]

\* A row as recon_hits_add() restores it: nothing seen yet, and muted.
Restored == [mac : Devices, conf : Confs, epoch : {0}, archived : {TRUE},
             alerted : {TRUE}, fp : Fps \cup {NoFp}, noted : {FALSE}]

\* The tables a launch may find: any rows, no address twice.
RestoredTables ==
  UNION {{t \in [1 .. n -> Restored] : \A i, j \in 1 .. n : t[i].mac = t[j].mac => i = j} :
           n \in 0 .. Cap}

NoTarget == [mac |-> NoFp, fp |-> NoFp]
NothingRead == [macs |-> <<>>, fps |-> <<>>]

Fault(kind) ==
  /\ kind \in FaultKinds /\ faults < MaxFaults
  /\ faults' = faults + 1

Init ==
  /\ table \in RestoredTables
  /\ tick = 0
  /\ rung \in Rungs
  /\ haveFired = FALSE /\ lastAlert = 0 /\ pending = FALSE
  /\ ramMacs = {} /\ ramFps = {} /\ file = <<>> /\ apart = FALSE
  /\ menu = 0 /\ chosen = NoFp
  /\ pc = "idle" /\ target = NoTarget /\ have = NothingRead /\ wrote = FALSE
  /\ presses = 0 /\ faults = 0
  /\ told = [d \in Devices |-> 0] /\ excused = {}

-----------------------------------------------------------------------------
(* The ESP worker.                                                         *)

\* flock_is_excluded(): by address, or by a fingerprint that is one.
Excluded(d, f) == Mac(d) \in ramMacs \/ (f # NoFp /\ Fp(f) \in ramFps)

\* Seeded defect, issue #5: what was restored from the card vetoes the alert.
CrossesVetoed(old, new) == ~old.alerted /\ new.conf >= rung /\ old.conf < rung

\* flock_alert_should_fire_ex(), in two parts.  A row restored from the card has
\* neither been announced nor been sure of anything this session.
Crosses(old, new) ==
  /\ old.archived \/ ~old.alerted
  /\ new.conf >= rung
  /\ old.archived \/ old.conf < rung

CooledDown == haveFired => tick - lastAlert >= Cooldown

\* Seeded defect: the row is still taken for a restored one.
MergedArchived(old, c, f) ==
  [old EXCEPT !.conf = IF c > @ THEN c ELSE @, !.epoch = tick + 1,
              !.fp = IF f # NoFp THEN f ELSE @]

Merged(old, c, f) ==
  [old EXCEPT !.conf = IF c > @ THEN c ELSE @, !.epoch = tick + 1, !.archived = FALSE,
              !.fp = IF f # NoFp THEN f ELSE @]

\* What both handlers do once the report is let in and a slot is found: merge,
\* then raise the alert on a first crossing.  Silence is excused when the cooldown
\* swallowed the crossing, or when a restored row came back below the rung.
Sight(d, c, f) ==
  LET k == SlotFor(table, d, Cap)
      old == IF Has(table, d) THEN table[k] ELSE Fresh(d)
      new == Merged(old, c, f)
      fires == Crosses(old, new) /\ CooledDown
  IN  /\ k # 0
      /\ table' = PutRow(table, k, [new EXCEPT !.alerted = @ \/ fires])
      /\ haveFired' = (haveFired \/ fires)
      /\ pending' = (pending \/ fires)
      /\ lastAlert' = IF fires THEN tick ELSE lastAlert
      /\ told' = IF fires THEN [told EXCEPT ![d] = @ + 1] ELSE told
      /\ excused' = IF \/ Crosses(old, new) /\ ~CooledDown
                       \/ old.archived /\ new.conf < rung
                    THEN excused \cup {d} ELSE excused
      /\ UNCHANGED <<tick, rung, lists, screen, excluding, presses, faults>>

\* recon_app_report_flock()
ReportFlock(d, c, f) == ~Excluded(d, f) /\ Sight(d, c, f)

\* recon_app_report_remote_id(): no exclusion gate, always Confirmed.
ReportRemoteId(d) == Sight(d, TopConf, NoFp)

-----------------------------------------------------------------------------
(* The GUI thread.                                                         *)

Idle == pc = "idle"

Press == presses < MaxPresses /\ presses' = presses + 1

\* A row leaves the table: a later sighting is a new device again.
Dropped(gone) ==
  /\ told' = [d \in Devices |-> IF d \in gone THEN 0 ELSE told[d]]
  /\ excused' = excused \ gone

Tick ==
  /\ tick < MaxTick /\ tick' = tick + 1
  /\ UNCHANGED <<table, rung, alert, lists, screen, excluding, presses, faults, history>>

\* recon_app_alert_tick()
AlertTick ==
  /\ Idle /\ pending
  /\ pending' = FALSE
  /\ UNCHANGED <<table, tick, rung, haveFired, lastAlert, lists, screen, excluding, presses,
                 faults, history>>

\* Settings > Alert level.  Rows already on the list are judged by the old one.
SetRung(r) ==
  /\ Idle /\ menu = 0 /\ r # rung /\ Press
  /\ rung' = r
  /\ excused' = excused \cup MacsOf(table)
  /\ UNCHANGED <<table, tick, alert, lists, screen, excluding, faults, told>>

\* Hold OK on a row: the menu remembers the row's index.
MenuOpen(i) ==
  /\ Idle /\ menu = 0 /\ i \in DOMAIN table /\ Press
  /\ menu' = i /\ chosen' = table[i].mac
  /\ UNCHANGED <<table, tick, rung, alert, lists, excluding, faults, history>>

MenuLeft == menu' = 0 /\ chosen' = NoFp

\* Back, or an item pressed when the index points past the table.
MenuClose ==
  /\ Idle /\ menu # 0
  /\ MenuLeft
  /\ UNCHANGED <<table, tick, rung, alert, lists, excluding, presses, faults, history>>

\* Confirm, Mark, Rename: each writes a field of flock[hit_menu_idx].
MenuEdit ==
  /\ Idle /\ menu \in DOMAIN table
  /\ table' = [table EXCEPT ![menu].noted = ~@]
  /\ MenuLeft
  /\ UNCHANGED <<tick, rung, alert, lists, excluding, presses, faults, history>>

MenuDelete ==
  /\ Idle /\ menu \in DOMAIN table
  /\ table' = CloseGap(table, menu)
  /\ Dropped({table[menu].mac})
  /\ MenuLeft
  /\ UNCHANGED <<tick, rung, alert, lists, excluding, presses, faults>>

\* "It's mine: never alert": the identifiers are taken now, the row stays.
MenuIgnore ==
  /\ Idle /\ menu \in DOMAIN table
  /\ target' = [mac |-> table[menu].mac, fp |-> table[menu].fp]
  /\ pc' = "read" /\ UNCHANGED <<have, wrote>>
  /\ MenuLeft
  /\ UNCHANGED <<table, tick, rung, alert, lists, presses, faults, history>>

-----------------------------------------------------------------------------
(* recon_app_exclude_device() and sig_db_ignore_add().                     *)

sig_db_ignored_read ==
  [macs |-> sig_lines_read(file, 12, MaxMacs), fps |-> sig_lines_read(file, 8, MaxFps)]

\* What neither the appends nor the reads touch.
Meanwhile == UNCHANGED <<table, tick, rung, alert, screen, presses, history>>

\* A call that is over, with nothing kept of it.
Returned == pc' = "idle" /\ target' = NoTarget /\ have' = NothingRead /\ wrote' = FALSE

\* sig_lines_append(): the line is on the card, or the card took a piece of it or
\* nothing and the answer is FALSE, or the line went behind half a header.
Appended(value, answer) ==
  \/ /\ answer
     /\ file' = Written(file, value, TRUE)
     /\ UNCHANGED <<faults, apart>>
  \/ /\ Fault("append")
     /\ \/ answer /\ file' \in BehindHeader(file, value) /\ UNCHANGED apart
        \/ ~answer /\ UNCHANGED <<file, apart>>
        \/ ~answer /\ file' \in ShortOf(file, value) /\ apart' = TRUE

\* Both appends go by what the file held before the first of them; a file that
\* cannot be opened or read in full holds nothing.
ReadIgnored ==
  /\ pc = "read"
  /\ \/ have' = sig_db_ignored_read /\ UNCHANGED faults
     \/ have' = NothingRead /\ Fault("read")
  /\ pc' = "listMac"
  /\ UNCHANGED <<lists, target, wrote>> /\ Meanwhile

Known == Mac(target.mac) \in Range(have.macs)
NoRoomForMac == Cardinality(DOMAIN have.macs) >= MaxMacs

\* Seeded defect: with no room for the address the fingerprint alone is listed.
ListMacOptional ==
  /\ pc = "listMac"
  /\ \E answer \in BOOLEAN :
       /\ IF Known \/ NoRoomForMac THEN answer = Known /\ UNCHANGED <<file, faults, apart>>
                                   ELSE Appended(Mac(target.mac), answer)
       /\ wrote' = answer
  /\ pc' = "listFp"
  /\ UNCHANGED <<ramMacs, ramFps, target, have>> /\ Meanwhile

\* An address that is listed already counts as written; without room for it there
\* is no exclusion at all.
ListMac ==
  /\ pc = "listMac"
  /\ \/ /\ Known
        /\ pc' = "listFp" /\ wrote' = TRUE
        /\ UNCHANGED <<file, faults, apart, target, have>>
     \/ /\ ~Known /\ NoRoomForMac
        /\ Returned
        /\ UNCHANGED <<file, faults, apart>>
     \/ /\ ~Known /\ ~NoRoomForMac
        /\ \E answer \in BOOLEAN : Appended(Mac(target.mac), answer) /\ wrote' = answer
        /\ pc' = "listFp"
        /\ UNCHANGED <<target, have>>
  /\ UNCHANGED <<ramMacs, ramFps>> /\ Meanwhile

\* The call goes on to enforce the list if either line was written.
Enforce(written) ==
  IF written THEN pc' = "reread" /\ UNCHANGED <<target, have, wrote>> ELSE Returned

ListFp ==
  /\ pc = "listFp"
  /\ LET wanted == /\ target.fp \in Fps \ Generic
                   /\ Fp(target.fp) \notin Range(have.fps)
                   /\ Cardinality(DOMAIN have.fps) < MaxFps
     IN  \/ /\ wanted
            /\ \E answer \in BOOLEAN :
                 Appended(Fp(target.fp), answer) /\ Enforce(wrote \/ answer)
         \/ ~wanted /\ Enforce(wrote) /\ UNCHANGED <<file, faults, apart>>
  /\ UNCHANGED <<ramMacs, ramFps>> /\ Meanwhile

\* What the gate enforces is what could be read of the card: nothing, if it could
\* not be read.
GateTakes(read) == ramMacs' = Range(read.macs) /\ ramFps' = Range(read.fps)

\* Seeded defect: the gate is closed but the rows behind it are left.
RereadUnpurged ==
  /\ pc = "reread"
  /\ \/ GateTakes(sig_db_ignored_read) /\ apart' = FALSE /\ UNCHANGED faults
     \/ GateTakes(NothingRead) /\ apart' = TRUE /\ Fault("read")
  /\ Returned
  /\ UNCHANGED file /\ Meanwhile

Reread ==
  /\ pc = "reread"
  /\ \/ GateTakes(sig_db_ignored_read) /\ apart' = FALSE /\ UNCHANGED faults
     \/ GateTakes(NothingRead) /\ apart' = TRUE /\ Fault("read")
  /\ pc' = "purge"
  /\ UNCHANGED <<file, target, have, wrote>> /\ Meanwhile

\* recon_app_purge_excluded()
Purge ==
  /\ pc = "purge"
  /\ table' \in Compactions(table, {i \in DOMAIN table : ~Excluded(table[i].mac, table[i].fp)})
  /\ Dropped(MacsOf(table) \ MacsOf(table'))
  /\ Returned
  /\ UNCHANGED <<tick, rung, alert, lists, screen, presses, faults>>

\* Reports > Forget Ignored: recon_app_clear_exclusions() looks at no result.
ForgetIgnored ==
  /\ Idle /\ menu = 0 /\ Press
  /\ ramMacs' = {} /\ ramFps' = {}
  /\ \/ file' = <<>> /\ apart' = FALSE /\ UNCHANGED faults
     \/ UNCHANGED file /\ apart' = TRUE /\ Fault("remove")
  /\ UNCHANGED <<table, tick, rung, alert, screen, excluding, history>>

-----------------------------------------------------------------------------
Worker ==
  \/ \E d \in Devices \ Drones, c \in Confs, f \in Fps \cup {NoFp} : ReportFlock(d, c, f)
  \/ \E d \in Drones : ReportRemoteId(d)

Operator ==
  \/ \E r \in Rungs : SetRung(r)
  \/ \E i \in 1 .. Cap : MenuOpen(i)
  \/ MenuClose \/ MenuEdit \/ MenuDelete \/ MenuIgnore \/ ForgetIgnored

Next ==
  \/ Tick \/ AlertTick
  \/ Worker \/ Operator
  \/ ReadIgnored \/ ListMac \/ ListFp \/ Reread \/ Purge

Spec == Init /\ [][Next]_vars

=============================================================================
