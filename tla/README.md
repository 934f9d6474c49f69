# FlipDeFlock: specifications, model checking and proofs

FlipDeFlock is a Flipper Zero application (C) that listens, through an ESP32
"companion" board on a UART, for ALPR cameras and related devices, keeps them in a
table, alerts the operator once per device, saves the table to the SD card and lets the
operator confirm, name, delete, exclude and home in on detections.

This directory holds TLA+ specifications of the app and of the companion's firmware, the
TLC configurations that check them on small instances, and TLAPS proofs of the most
important properties for every value of the constants. `PROJECT.json` says which lines of
`src/` each definition stands for.

    tlc -workers 2 -config hits_store.cfg MCHitsStore
    tlapm HitsStoreProofs.tla

Paths below are relative to `src/`; `recon_app.c` line numbers are those of this commit,
and `ino` is `esp32_companion/flock_companion/flock_companion.ino`.

## 1. Inventory

### Threads, shared state, and how they meet

| Party | What it runs | Where |
|---|---|---|
| GUI thread | view-dispatcher events, one at a time: scene handlers and a 250 ms tick | `scenes/`, `recon_tick_event_callback()` |
| ESP worker | every line from the UART, parsed and applied | `helpers/esp_link.c` |
| GPS worker / RPC callback | NMEA sentences, or fixes from a phone | `helpers/gps_link.c`, `helpers/gps_rpc.c` |
| RX interrupt | bytes into a stream buffer, dropping what does not fit | `esp_rx_isr()` |
| Flasher worker | plugin code against the ESP's ROM loader | `plugins/`, `helpers/esp_flasher.c` |
| Companion, Arduino task | one command per pass of `loop()`; sweep, hunts, BLE windows, status, GPS | `ino` |
| Companion, Wi-Fi task | `promisc_cb()` for every management frame | `ino` |
| SD card | storage calls that may fail; power that may go away | external |

All application state is in one `ReconApp` behind one mutex. Handlers take the mutex for
a row or for a few fields and drop it around every storage, UART and notification call,
so a handler is a sequence of atomic sections and the worker runs between any two. That
is the main source of difficulty. The others: a save interrupted by a power cut; storage
calls that fail half way; a board that reboots into another mode; lines lost on the way;
a timeout that passes over a healthy but quiet peer; table indices remembered across a
lock release; one radio shared by five modes; evidence about one party of a frame read as
evidence about the other.

### Components

| Component | State | Operations | What makes it correct | Model |
|---|---|---|---|---|
| Detection-table primitives | `flock[]`, `flock_count` | lookup, room, eviction, deletion, compaction | order kept, never outgrown, only archived rows evicted | `FlockRows` |
| Hit persistence | `hits.csv`, `hits.tmp`, dirty flag, autosave clock | save, autosave, recovery, edits, deletion, erasure, table release for the flasher | a completed save is never lost; the dirty flag is honest; unsaved detections reach the card | `HitsStore`, `HitsLedger` |
| Detection session | rows, alert latch, cooldown, hit menu, exclusion lists in RAM and on the card | two report handlers, alert delivery, menu items, "It's mine" | one row and one alert per device; nothing excluded stays; no silent camera without a reason | `FlockTable` |
| A row's contents | every field of a `FlockDevice` | report, Remote ID, survey report, save, load | what a row claims was heard from its own device, and outlives the card | `DeviceRow` over `FlockDb`, `EspParser`, `OpenDroneId`, `FlockStore` |
| ESP link, scan session | session, link state, kickoff, re-send request, `locate_kind` | open, close, re-open, receive, re-send, silence rule, poll, hunt, re-arm | a rebooted board is put back to work; a dead one is noticed; a hunt is not cut off | `CompanionLink` |
| 5 V boost | rail ownership, wait, attempt, fault | `recon_app_esp_power_tick/release()` | asked for after listened silence only, never again after a fault, never left on, the operator's rail untouched, a silent board not left without | `EspPower` |
| Preflight and session counters | evidence of each layer, link health, bases, rates, reboots | banner, `SIGREV`, self-test, status line, retry, the two-second queries | READY only on this board's and this session's proof; counts and reboots that happened | `Readiness` |
| Air survey | the board's row table, the app's copy and its running totals | note, dump, receive, report, poll | no row's data under another's name; a total heard again is not a sighting | `AirSurvey` |
| Survey files and ranked list | `survey.csv`, the log, dirty flag | snapshot, autosave, group of rows at the end, ranking | a session's survey is on the card when it ends; one group each; commodity shapes last | `SurveyCard` |
| BLE table | advertisers and their last stamp | `recon_app_ble_add()` | follows the surroundings; what was once known of a device stays | `BleTable` |
| GPS | the fix, its age, RPC subscription, relay | UART sentences, relayed sentences, phone | no stale position on a detection; the phone asked until it answers | `GpsSources` |
| Signatures and rungs | tables, extras | `flock_db.c`, `flock_ble.c`, `esp_parser.c`, `marauder_scan.c` | the rung a device earned and no other | `FlockDb`, `EspParser` |
| Signature files | `signatures.json`, `learned.txt` | load, append, fold, forget | a torn append costs one value | `SigFiles` over `SigLines` |
| Settings | the settings file, the screen's cursor, the pin list | load, save, change, GPS pin list of a chip | every choice offered is one the loader takes | `Settings` |
| Flasher plugin | worker, plugin mapping, ROM session | connect, erase, blocks, verify, backup, abort, join, unmap | code mapped while it runs; DONE means done | `Flasher` |
| Companion: commands and radio | mode, lock, band, phase, hop index, the GPS buffer | every command, sweep, hunts, combo phases, one-shot scans | the radio comes back as it was; every channel has its turn; the GPS is drained | `BoardRadio` |
| Companion: frames | run of sequence numbers, prober tracks, burst ring, hunt's best, flood counters | `promisc_cb()`, status tick | a rung of 3 is the transmitter's own; a rate is its own | `FrameRules`, `BoardFrames` |
| Companion: BLE | listed devices, action under way | BLE scan, ping, ring | only a tag away from its owner is rung | `BoardBle` |
| Wi-Fi scan table, location sharing, vendor names, trigonometry, views, QR, bench emitter, vendored libraries, tools | little or none | formatting, drawing, I/O | | not modelled (section 6) |

How they interact: the companion prints a line for what it heard; the worker parses it
and calls `recon_app_report_flock()`, `recon_app_report_remote_id()`,
`recon_app_ble_add()` or the survey's and status line's handlers, which write rows, raise
`alert_pending` and set the dirty flags; the GUI tick delivers the alert, saves when
dirty, re-sends the configuration a banner asked for, applies the silence rule and polls
the survey; scenes open the session (`scan_session_start()`), and only the main menu's
`on_enter`, the exit path and Preflight close it (`scan_session_stop()`, which then
saves). The firmware screen frees the tables for the plugin and reloads them after.

## 2. Modules

| Module | Code it stands for | State and actions |
|---|---|---|
| `FlockRows` | lookup, room and eviction of `recon_app.c:75-128`; shift-down deletion; the three compaction loops | operators on a sequence of rows; no state |
| `HitsStore` | `recon_app.c:1535-2030`, `2221-2280`, the callers in the scenes, `scan_session_stop()` | the card (`csv`, `tmp`), the table, the flags, the GUI thread's place (`pc`) and caller (`job`); one action per mutex section or storage call of the save |
| `HitsLedger` | none: the abstract specification | devices held, kept, pledged; `HitsStore` refines it |
| `FlockTable` | `recon_app.c:30-239`, `499-573`, `608-744`, `detect_rules.c:45-70`, `sig_db.c:589-693`, the hit menu | the table, the alert latch, the exclusions in memory and `ignored.txt` line by line, the open menu |
| `CompanionLink` | `esp_link.c` worker and lifecycle, `scan_session.c:9-110`, `recon_app.c:446-490, 1067-1107, 1643-1668`, the scan, Preflight and Locator scenes, `ino` command handler and loop | the board, the wire, the link flags, the scene stack |
| `EspPower` | `recon_app.c:242-367`, the session's opening and closing, the setting | the session and link flags, ownership, attempt, fault and stamp; the rail and who raised it, cable, board's supply; the tick in its seven steps |
| `FlockDb` | `flock_db.c`, `flock_ble.c`: the pure rules | operators: vendor and class of a prefix, rungs of names, fingerprints, pins and adverts, method, maker |
| `EspParser` | `esp_parser.c`, `marauder_scan.c` | operators: a line that may have lost its tail to a report, or to nothing |
| `OpenDroneId` | `open_drone_id.c` | operators: a payload cut at its cap to what it says of the aircraft |
| `FlockStore` | `flock_store.c` | operators: a row to a line and back, for the file's three versions |
| `DeviceRow` | `recon_app.c:30-239`, `608-744`, `781-`, `1870-1930`, report rows, hand-off | one device's row, and beside it what was heard of it; one action per source, save and relaunch |
| `SigLines` | `sig_db.c:345-503` | operators: a file of lines, what is read of it, what a whole or a cut append makes of it; shared by `SigFiles` and `FlockTable` |
| `SigFiles` | `sig_db.c` | the two files, the extras in memory; learn (whole or torn), forget, launch |
| `SurveyCard` | `recon_app.c` survey files, `survey_rank.c` | the rows heard, the snapshot, the log; autosave, end of session, refused and torn writes |
| `AirSurvey` | `ino` `survey_note()`, `survey_dump()`; `recon_app.c` survey handlers | the board's table and the loop's place in the dump, the wire, the app's table |
| `BleTable` | `recon_app_ble_add()` | the rows with their stamps |
| `GpsSources` | `gps_link.c`, `gps_parser.c`, `gps_rpc.c`, `ino` `gps_poll()`, the geotag | sentences in two pieces, the fix and its age, the subscription |
| `Readiness` | `helpers/preflight.c`, its scene, `recon_app_set_esp_status()` | evidence, counters with their bases, the board's totals modulo 2^w |
| `Settings` | `recon_app.c` settings, settings scene, pin list | the file's lines, the values in force, the screen's position |
| `Flasher` | `esp_flasher.c`, `recon_scene_firmware_run.c`, plugin host | thread, plugin, tables, abort flag, phase, blocks on the chip |
| `BoardRadio` | `ino` `loop()`, `handle_command()`, hopper, locate, combo, scans | mode, what holds the radio, channel, sweep position, the GPS buffer |
| `FrameRules` | `ino` `promisc_cb()`, `ssid_score()`, signatures | what a frame is worth by itself, and the line it makes |
| `BoardFrames` | `ino` `promisc_cb()` and status tick | what a frame leaves behind, and whether its line is printed |
| `BoardBle` | `ino` `ble_do_scan()`, tracker rules, `ble_action_*()` | listed devices, the request under way, what was written |
| `*Props` | | the properties, kept apart from the model; `BoardProps` has those of the board's four parts and the specification that puts them side by side (`BoardSpec`) |
| `*Proofs` | | theorems and their lemmas: `FlockRowsProofs` of the table's operators, `HitsStoreProofs`, `FlockTableProofs`, `CompanionLinkProofs`, `EspPowerProofs`, `DeviceRowProofs` and `BoardProofs` of their modules, `AppProofs` of the app's other parts and of all nine side by side |
| `MC*` | | what TLC needs besides: the inputs, symmetry, and which parts share a run |

`MCBoard` (the radio, frames, BLE, survey) and `MCApp` (power, GPS, row, files, flasher,
Preflight, settings, BLE table, survey card) each put several parts under one run. The
parts of such a run share no state, so a behaviour is of one of them (`focus`), and `Pin`
lets the others start in one state only: the union of their state spaces is explored,
not the product. `AppSafe` is the same system without fairness, and `Parts` in the
`.cfg` chooses which parts it explores.

Correspondence worth knowing before reading:

- **A row** is a record with the fields the properties can tell apart. In `HitsStore`,
  `noted` stands for confirmed, marked and label together; RSSI, position, SSID and names
  are left out there, and are the subject of `DeviceRow`.
- **`recon_hits_save()`** is `SaveOpen`, `SaveRow` (once per index, because the mutex is
  taken once per row), `SaveClose`, `SaveRemoveOld`, `SaveRename`, with a fault
  alternative wherever a storage call's result is tested or ignored, and `SaveAbandon`.
  The caller that continues after it is `job`.
- **Power loss** may come at any step. A file that was open keeps a prefix of its rows.
- **Compaction** is the set of order-preserving enumerations of the surviving rows, which
  has one member; this keeps it first-order for the proofs.
- **The exclusion** is one atomic step of `HitsStore`, whose subject is what a later
  launch restores, and five steps of `FlockTable` (`ReadIgnored`, `ListMac`, `ListFp`,
  `Reread`, `Purge`), whose subject is what the worker may do in between. The file is its
  lines. A refused append leaves nothing, or a piece that swallows the next value, or all
  the digits without the line's end, which a reader takes for a value; a line whose header
  was cut is written whole and is a comment. A file that cannot be read counts as empty,
  before the appends and after them, and its deletion may be refused. `apart` records that
  the card took, hid or kept something memory could not follow.
- **A line on the wire** of `CompanionLink` is `banner` or `other`. The answers to the
  burst of commands that opens a session are folded into the banner. A byte that finds
  the stream buffer full costs the whole line, as `esp_worker()` arranges; `deaf` records
  that the line lost was the banner.
- **Commands** are obeyed when sent: the UART keeps order, and a board that is down loses
  them.
- **Time** in `CompanionLink` is counted in intervals in which a scanning board is sure to
  speak (its longest silence is a three-second BLE slice); `Silent` is the number of them
  in `RECON_ESP_SILENT_MS`. `Clock` waits for the worker to have read what arrived,
  because nothing blocks it for seconds.
- **The power tick** is cut where it drops the mutex or talks to the charger: `Watch`,
  `Drop`, `Decide`, `Probe`, `Look`, `Ask`, `Settle`. `wait` keeps the code's sentinel: 0
  is unset, n + 1 is a stamp n periods old. `port` is `busy` for a session whose UART was
  refused, which the code does not tell from a live one. `raced` marks the two gaps in
  which the operator may raise the rail unseen: after the tick looked, and before a tick
  sees that the app's own boost went down.
- **An address** is a member of a small set with the table its prefix is in; a name is
  one of the shapes the code tells apart (a unit's own, a needle, a guest network's,
  empty). Signal strengths are the few at which something is decided.
- **A frame's body** is a sequence of elements; the two hashes of `promisc_cb()` are
  modelled by which elements and in which order they read them, so frames that the code
  would hash alike are alike.
- **Channels** are positions of a sweep; `BoardRadio` counts time in dwells, and a call
  that blocks is a state of its own in which only ticks, the receiver's bytes and the
  call's own GPS drains happen.
- **The lines `DeviceRow` reads** are those `FrameRules` makes of the same frames
  (`Frames!Line` in `MCApp`), complete or with their last fields lost; those of a board
  with the current guards (`guarded`), and those of a companion from before them, which
  `Unguarded` adds: a loose rung of 3 for a guest's network or for a receiver, with its
  name or without.
- **The aircraft's payload** is bytes counted, not spelled: what fits under the cap
  arrives, and the decoder sees how much came.
- **History variables** (`sent`, `said`, `proof`, `named`, `nearest`, `since`, `rebooted`,
  `proved`, the fix's `born`) record what happened and are read by properties only.
- Operators whose comment says "Seeded defect" are not part of any behaviour: they
  are the plausible bugs each property has been shown to detect; several were real and
  are named in the code's own comments.

## 3. What is checked

Each run finishes in under five minutes on two cores; the two large ones, `board` and
`app`, have some 340,000 and 310,000 distinct states.

| Run | Instance | What it shows |
|---|---|---|
| `hits_store` | 2 devices, 2 slots, 1 refused write or removal, 1 power cut | `AWholeCopySurvives`, and the refinement `KeepsTheLedger` |
| `hits_evict` | 3 devices (one a drone), 2 slots, 1 power cut, no faults | `SnapshotIsRegular`: a save under a changing table holds every device that was there throughout; `CleanMeansSaved` |
| `hits_flush` | 2 devices, one refused rename, fairness | `UnsavedIsFlushed` (liveness) |
| `flock_alerts` | 3 devices, 2 slots, 2 rungs, cooldown 2, restored rows | `OneRowEach`, `OncePerDevice`, `NoSilentCamera`, `LiveRowsStay` |
| `flock_exclude` | 2 devices, 2 fingerprints (one generic), lists of one entry, one append, read or deletion that fails or is cut short, 3 presses, symmetry of devices | `AddressIsListed`, `ExclusionsHold` |
| `link_live` | 2 resets, 1 lost line, buffer 2, window 2, fairness | `HuntUndisturbed`, and four liveness properties: `Recovers`, `ConfigRestored`, `HuntResumes`, `SilenceNoticed` |
| `board` | the companion's three parts and the survey it shares with the app, fairness | `RadioRestored`, `GpsKeptUp`, `TurnsAreTaken` (liveness) of the radio; `ConfirmedByOwnName`, `RateNeverOverstates` of frames; `RingOnlySeparated` of BLE; `QuietStaysSilent` of the survey; `BoardTypes` |
| `app` | nine parts of the app, fairness | `NothingLeftOn`, `PowerArrives` of the boost; `TagIsRecent`, `PhoneIsReached` of GPS; `ClaimsAreEarned`, `RowsReadBack`, `OwnNameStays` of a row; `TearCostsOne` of the signature files; `PluginOutlivesWorker`, `DoneIsTrue` of the flasher; `ReadyIsProved`, `CountIsHonest`, `HealthyIsReady` of Preflight; `SettingsAreKept`; `BleTableIsRecent`; `AppTypes`, with `SurveyIsKept` of the survey's files |
| `flock_menu`, `flock_once_restored`, `rid_pack`, `drone_place` | as `flock_alerts` or one part of `app` | counterexamples, below |

What the properties of `flock_exclude` and of the two large runs say:

- `AddressIsListed`: while the card refuses nothing, the gate never enforces what the list
  does not hold. `ExclusionsHold`: no row the gate would refuse stays on the list once an
  exclusion is over, and memory and card agree, unless the card kept them apart (`apart`)
  and no later exclusion brought them together again.
- `RadioRestored`: outside a call that blocks, the sniffer is on unless a BLE device is
  hunted, and a locked channel is the one the radio is on. `GpsKeptUp`: no window of the
  rotation leaves the GPS buffer unread for longer than one slice. `TurnsAreTaken`: a board
  that sweeps comes to every channel of its band, and in combo mode neither half starves.
- `ConfirmedByOwnName`: a rung of 3 is given to the transmitter of a beacon or response
  carrying a unit's name, never to a device that was asked or answered.
  `RateNeverOverstates`: a track's count is never more than its address sent in a window,
  whatever the bounded table evicted between.
- `RingOnlySeparated`: a sound command is written only to a tag that this very request
  found separated from its owner. `QuietStaysSilent`: a watched device that has a row and
  has gone quiet is not announced again because the table was dumped again, whole or
  torn, or because the board's totals began anew.
- `ClaimsAreEarned`: what a row says about its device stands on what that device sent, or
  on one of the lines the code takes on trust, which `VouchedBy` names: an older
  companion's rung of 3 on a line whose name is gone or is not the sender's. It holds after
  any order of sources, a save and a relaunch; the channel is the nearest
  sighting's; the shared export holds evidence only. `RowsReadBack`: a row of each of the
  file's versions comes back as that version promises.
- `TagIsRecent`: no geotag is older than the expiry and the longest time a receiver is
  left unread. `PhoneIsReached`: a willing phone is asked until its answer is recorded.
- `TearCostsOne`: an append cut short costs at most the value behind it.
- `PluginOutlivesWorker`, `DoneIsTrue`: whenever Back is pressed, code stays mapped while
  it runs, and DONE is shown of a whole flash or backup only.
- `ReadyIsProved`: READY rests on proofs received since the health was reset, of every
  layer, and on frames of this session. `CountIsHonest`: no frame and no reboot that did
  not happen is counted. `HealthyIsReady`: a good board that captures is found ready in
  the end, lost lines notwithstanding.
- `SettingsAreKept`: what is in force is what the next launch finds once a save was whole
  (the GPS pin excepted, see below). `BleTableIsRecent`: no row was heard before a device
  that has none. `SurveyIsKept`: after a session whose writes were not refused, the
  snapshot and one group of the log are its survey, and commodity shapes change no order.

Why the bounds are enough. Two slots and three devices are the smallest table in which
eviction can hit a row the save has passed, is at, or has not reached. One fault and one
power cut meet at any step of the save, including one inside the save that follows the
other's recovery. Two rungs and a cooldown of two ticks give every order of crossing,
cooldown and level change for one device against another. Lists of one entry make "full"
reachable for one list and not for the other; one failed append, read or deletion is met
by each later step of the exclusion, and three presses make a second exclusion that finds
what the first left. A buffer of two lines is the smallest that
both reorders nothing and overflows; two resets put one reset inside the recovery from
the other. For the boost, one fault is either a refusal or a drop, one switching lets the
operator raise or lower the rail inside one tick, and a grace of two ticks is the
shortest that a stale stamp can cut short.

In `board`: the builds with and without BLE and 5 GHz; two channels a band, the fewest
that have an order; a BLE half of two slices, so that a drain between them can be missed;
one power cycle at any moment. Two prober tracks for three addresses make eviction
happen; a threshold of two is the lowest that one sighting does not reach; two sequence
numbers tell a burst from a gap. A tag with an owner who may come back, and one that is
none. A survey table of two rows on the board and one in the app, so that each replaces;
one torn line, one power cycle, one session after the first. In `app`: a receive buffer of
six pieces, one second and a half of sentences, overflows during a hold; an expiry of two
ticks; two sync attempts, two blocks and two tries, so that each loop has a middle;
counters modulo 4 with one frame, so that totals wrap within the run; two boards, one of
them unfit; a list capacity of 3 with two hand-written entries; two launches; three
advertisers for two rows; two sessions with a log that holds one, so that it is rotated
and a torn group meets the next. A payload cap of 64 bytes is the code's own.
`MaxEpoch`, `MaxFaults`, `MaxCrashes`, `MaxTick`, `MaxPresses`, `MaxResets`, `MaxDrops`,
`MaxHands`, `MaxLaunches`, `MaxTears`, `MaxStarts`, `MaxTotal`, `MaxLost`, `MaxBoots`,
`MaxScans`, `MaxTurns`, `MaxBadSaves`, `MaxStops`, `MaxTicks`, `MaxHeard`, `MaxSessions`,
`MaxBadWrites`, `MaxTornLines`, `MaxCycles` and `MaxOutings` bound only the environment;
the theorems hold for all of them. `MaxRate` and `MaxCount` are where a count that is
only compared stops being told apart.

Deadlock is checked in `link_live`. The other configurations switch it off, because their
bounded environment really ends: the clock is at its last reading, power is off and no
crash is left, the last launch has been made.

### Fairness, and why the code gives it

- `HitsStore`: weak fairness of the steps inside a handler, because the GUI thread never
  waits for anything but the mutex; strong fairness of the autosave tick, because a 250 ms
  timer feeds the same queue as the keys, so the tick comes round however often handlers
  disable it for a moment. None for the operator or for the worker.
- `CompanionLink`: weak fairness of the worker (it wakes on a flag), of time, of a handler
  that has begun and of the rest of a tick; strong fairness of the tick's first step and
  of the Locator's re-arm, as above. None for the board: a reset board need not come back.
- `EspPower`: weak fairness of the tick, strong fairness of time (it passes between ticks,
  and is not modelled during one). None for the charger, the cable, the operator or the
  board; `PowerArrives` says what follows when the cable stays out.
- `BoardRadio`: weak fairness of a call's next step, because every blocking call of the
  firmware has an end of its own; strong fairness of the clock, because `loop()` is called
  for ever (`ino` 3162-3173). None for commands and resets; `TurnsAreTaken` says what
  follows when they stop.
- `GpsSources`: weak fairness of the worker's reading, of the retry tick, of the end of a
  phone's call, of sampling and of time. None for the receivers, the phone's willingness
  or the operator.
- `Readiness`: weak fairness of the board's answers layer by layer, of its status line and
  of time, because a powered board answers what it is asked; lost lines are bounded by
  `MaxLost`. None for restarts, swaps or the operator.

### Where the code and its documentation part ways

Each has a run whose counterexample shows it.

| Run | Statement | What the code does |
|---|---|---|
| `flock_once_restored` | a unit later upgraded "alerts exactly once" (`detect_rules.h:98-100`) | a restored row keeps its latch when first met below the level, and its climb is never announced |
| `flock_menu` | a detection landing mid-edit "cannot redirect it at a different camera" (`recon_app_i.h:501-503`) | the menu keeps an index; an eviction puts another device behind it |
| `rid_pack` | packs are what the extended transports use, "Handled here" so that "both transports get it for free" (`open_drone_id.c:185`) | the companion forwards, and the app stores, at most 64 bytes; a pack of more than two messages is longer, and the decoder takes none of it |
| `drone_place` | "A DRONE IS NOT A PLACE" and is not offered to DeFlock (`recon_scene_deflock_handoff.c:126-135`) | a device under a drone maker's prefix is printed with `cls=g`, which overrides its class |

### Noted while modelling

Without a run of their own, and not contradicted by any property that is checked.

Persistence and the detection list:
- The save reads the table an index at a time; an eviction and re-sighting between two
  rows can put one address in the file twice (`recon_app.c:1603`).
- An autosave whose write fails is not tried again until another detection dirties the
  table (`recon_app.c:1697`). A save cut short by power loss, after a rename the card
  refused, overwrites the one good copy (`recon_app.c:1624`), which is why
  `AWholeCopySurvives` excludes refused renames.
- Deleting the last saved hit removes only `hits.csv`; an orphaned `hits.tmp` is adopted
  at the next launch (`recon_app.c:1866`).
- A refused append of an excluded address followed by a good one of the fingerprint counts
  as success, although "the address is always recorded" (`sig_db.c:638-639`). Forgetting
  the exclusions ignores a refused deletion (`recon_app.c:568`).
- "Memory and card cannot disagree" (`recon_app.c:546`), but for three cases that
  `ExclusionsHold` names with `apart`: an append that wrote the digits and not the line's
  end is refused, so the call returns without a reread (`recon_app.c:537`,
  `sig_db.c:498`), and what it left is a value at the next launch; a reread that fails
  empties the gate while the card still lists everything (`sig_db.c:414-420`); and the
  refused deletion above.
- A crossing inside the cooldown is dropped and not postponed (`detect_rules.c:68`).
  Remote ID has no exclusion gate (`recon_app.c:620`).
- `pos_broadcast` and the advertisement's tell are not saved: after a relaunch the
  observer's geotag may replace an aircraft's own position (`recon_app.c:193`). A restored
  row pairs its channel with a signal it was not heard at (`recon_app.c:1883`), and a row
  born of Remote ID keeps its first channel (`recon_app.c:109-114`).
- The app "must not inherit an over-claim from a build it did not ship with"
  (`esp_parser.c:74-80`), and does in two cases, both of a companion from before the
  guards: its 3 for a looser name stands if the line lost the name (`esp_parser.c:82-87`
  takes such a line at its word), and its 3 on the line of a receiver, which bears the
  sender's name, stands if that name is a unit's. `ConfirmedIsEarned` counts both as taken
  on trust.
- The label "never claims more than the confidence rung does" (`flock_db.c:1117`), but for
  the names that `ClaimsAreEarned` excuses: one that only the card lists, or that an older
  companion's tables do not, which the companion does not score (`flock_db.c:1111`), and
  one that was advertised over BLE and contains "flock", which leaves the row at Possible
  (`flock_ble.c`) and the vendor Flock. A device whose line lost its name may be listed with no indicator at all, and an
  aircraft that broadcasts from a prefix of the Flock table, whose modules others use too,
  keeps that vendor's name (`flock_db.c:637-646`).
- The redacted export prints a drone row's name as it is, and a pilot's point is exported
  only if the aircraft has a position.

Link, power and Preflight:
- In the Locator a healthy board is silent until the target is heard, and after five
  seconds it is declared lost, with the haptic pulse (`recon_app.c:471` against
  `455-457`). A board that falls silent in the instant a scene clears `esp_connected` is
  shown as never connected (`recon_app_i.h:644`). A board whose banner was lost stays
  Wi-Fi only until the next scan screen (the properties excuse `deaf`).
- The boost's gate is `app->esp`, which is set also when the UART was refused, although
  "it only ACTS while a scan session holds the UART open" (`recon_app.c:279`,
  `recon_app_i.h:1101-1102`). "One attempt per app run, success or not"
  (`recon_app_i.h:596`) is not so on a cable, where a refusal re-arms. A rail raised in
  the gap between the look and the request is taken for the app's and turned off at exit.
- A reboot is counted only if the new total is below the session's base, so a board that
  restarts and captures as much again is missed (`recon_app.c:413`). A "bad" signature
  verdict of an earlier board stands if the new one's line is lost; proofs obtained in
  Preflight carry over to Detect and back; a companion that is merely limited is explained
  as "generic UART".

Position:
- `gps_poll()` relays the last sentence it completed and loses the half-read next one; in
  the order GGA, RMC, GLL an older verdict may come last (`ino` 2775). A sentence that
  lost its `*` is parsed, with a hemisphere that may be wrong.
- Once streaming, the phone is never asked again (`recon_app.c:2075`); "waiting" can
  overwrite a refusal, and a refusal is never asked about again.
- The settings loader refuses GPS pins 0, 1 and 3, which C5 and C3 boards offer
  (`recon_app.c:1474-1475`); the screen re-points the pin in memory without saving it; a
  refused `gps <pin>` answers `GPSCFG,0` while the old pin goes on relaying. A settings
  file cut after `=` reads as 0, not as the default.

Companion and survey:
- The ring, probe and deauthentication counters are not reset while the board does not
  scan, so an interval can end in a flood that spans two (`ino` 525). The step between
  sequence numbers is taken in 16 bits and does not wrap at 4096 (`ino` 1341); two units
  of one model are coalesced as one burst. `hid=` and `pr=` of an answered device describe
  the answerer.
- Re-targeting a hunt while a frame is in `promisc_cb()` can credit the old target's
  signal to the new one; the Wi-Fi security scan leaves the S2's Wi-Fi mode null; a hunt
  given with channel 36 does not park on a 2.4 GHz board; a bare `gps` ends a hunt.
- A passive BLE scan calls an Apple phone a tracker by service `fd44` or `fcb2`, where the
  explicit action refuses it.
- A survey row can pair one sighting's signal with another's channel; the dump is in table
  order, not "strongest first" (`ino` 1290). `survey.csv` is truncated in place, so a cut
  during the autosave loses the snapshot before (`recon_app.c:916-930`); any later short
  session overwrites it; a torn group of the log swallows the next group's first row. A
  commodity row, "bottom of the list, unconditionally", is not below one that scored 0.
- A later generic advertisement replaces "raven" in the BLE table. The marks of the Wi-Fi
  and BLE scan tables are never set, and the app never sends `wifiscan` or `blescan`.

Signatures and flasher:
- Needles and pinned addresses the operator confirmed cannot raise a companion's Wi-Fi row
  (`flock_db.c:1111`). A needle in an SSID makes the vendor Flock. The scraper confirms a
  prober by the name it asked for (a test pins this, `test_marauder_scan.c:93`).
- A malformed `signatures.json` drops the learned signatures with it; a torn line eats the
  next (against `sig_db.c:354`); a full JSON table leaves learned entries no room; what is
  taught works from the next launch.
- Back during the connect phase can still lead to an erased chip, and an abort given before
  the plugin's allocation clears the flag is lost.

## 4. What is proved

Every theorem holds for all values of the constants that satisfy the named assumptions,
and of every behaviour except where the table names those it is of. The named ones stand in the module
that declares the constants, and TLC evaluates them on every run: capacities, windows and
builds' tables are positive and of their kind (`CapAssumption`, `BleAssumption`,
`GpsAssumption`, `RadioAssumption`, ...), the bounds are numbers, a frame in the air has a
transmitter among the addresses (`FramesAssumption`), the survey's devices are finitely
many and none is called as the marker of an empty slot is (`SurveyAssumption`), a row that
was heard has a count in 1..`UINT16_MAX` and a signal of a signed byte (`CardAssumption`),
a chip has at most 48 pins (`SettingsAssumption`), and an array of `signatures.json` ends
(`FilesAssumption`).
`RowAssumption` says what the row's sources may send: received signals are below 0 dBm,
the value the code keeps for "unknown" (`flock_db.c`'s geotag rule and the merge rely on
it); a companion with the current guards says 3 of a transmitter's own name only (in a
probe the app caps it), and 2 at least of a line with a name it knows, which is what
`BoardProofs!OwnNameConfirms` shows of the current firmware and what the run's lines are
made by. Nothing is assumed of the rung, the name or the address on an older companion's
line; what the code then believes is in `VouchedBy` and `Excused`. TLAPS checks every leaf; nothing is assumed besides.

| Theorem | Property | Argument |
|---|---|---|
| `HitsStoreProofs!TypeCorrect` | `TypeOK` | inductive as it stands, given that an eviction victim exists and lies in the table and that compaction does not lengthen it (`FlockRowsProofs`) |
| `HitsStoreProofs!SavedHistorySurvives`, of behaviours with no refused rename | `AWholeCopySurvives` | through `SwapDiscipline`: `hits.csv` is absent only between its removal and the rename, and by then `hits.tmp` is whole. The property alone is not inductive: it does not say at which step the file may be missing |
| `HitsStoreProofs!SwapInOrder`, of the same | `SwapDiscipline` | each save step in turn |
| `HitsStoreProofs!SnapshotStaysRegular` | `SnapshotIsRegular` | `Regular`, through `Traced`: while rows are written one index at a time, a device held since the save began keeps its index, so it has been written if the index is passed, and lies within the count the save started from |
| `HitsStoreProofs!ImplementsTheLedger`, of the same | `KeepsTheLedger`: `Spec` implements `HitsLedger` | `Sane`: the swap is in order, the snapshot regular, a file never holds more rows than a load reads back (`Filed`), the table is empty when its memory is gone and nothing is pledged outside a save (`Housed`). Each step then maps to one of the ledger's (`Observe`, `Pledge`, `Settle`, `Withdraw`, ...) or to a stutter |
| `HitsStoreProofs!CleanIsSaved`, of behaviours in which nothing is refused | `CleanMeansSaved` | `Clean`: while the flag is down the table stands still and the rows the save has passed are in the new file (`Followed`), and whatever is heard raises the flag again |
| `FlockTableProofs!TypeCorrect` | `TypeOK` | as above |
| `FlockTableProofs!NoSecondRow` | `OneRowEach` | a report writes a new row only for an address with none; deletion and compaction are injective |
| `FlockTableProofs!NoSecondAlert` | `OncePerDevice` | inductive with `Sound`: one row each, and a device that has been announced and is on the list has its latch set (`Remembered`), so the rule vetoes it |
| `FlockTableProofs!LiveRowsKept` | `LiveRowsStay` | the victim is archived, by `FlockRowsProofs`; the other rows only move |
| `FlockTableProofs!IgnoredStayIgnored` | `ExclusionsHold` | `Enforced`: outside an exclusion, and in one that has written nothing, memory and card agree while nothing set them `apart`; the purge and the gate do the rest, whatever could be read |
| `FlockTableProofs!AddressComesFirst` | `AddressIsListed` | `Listed`: while the card has refused nothing every line has ended and every address found room, so one more is read back (`ValueIsRead`), and an exclusion past its first append has its address in the file |
| `FlockTableProofs!CamerasAreHeard` | `NoSilentCamera` | `Heard`: a live row that is marked as alerted, or stands at the level, has its device announced or excused, so a row comes to the level only by the crossing that alerts |
| `CompanionLinkProofs!TypeCorrect` | `TypeOK` | the buffer's bound through `Line` |
| `CompanionLinkProofs!LinkIsWatched`, `LossIsSilent` | `HeartbeatWatched`, `LostMeansSilent` | inductive together with the type: each place that clears one of the three fields clears or guards the others |
| `CompanionLinkProofs!HuntIsOnScreen` | `Placed` | `locate_kind` is set on both ways in and cleared on the way out |
| `CompanionLinkProofs!HuntStays` | `HuntUndisturbed` | from `Placed`: while the Locator is up the tick holds the configuration back |
| `EspPowerProofs!TypeCorrect` | `TypeOK` | the stamp stops one past the grace period |
| `EspPowerProofs!NothingForgotten` | `NothingLeftOn` | `RailInv`: the watchdog gives up only a rail it saw down, and only `Ask` makes it the app's |
| `EspPowerProofs!AttemptIsFinal` | `OneAttempt` | `AttemptInv`: a tick on its way to the charger has spent the attempt and found no fault, answer or owner |
| `EspPowerProofs!SilenceIsListened` | `GraceIsListened` | `GraceInv`: while the attempt is open the stamp is no older than the unanswered time |
| `EspPowerProofs!UsersRailKept` | `UsersRailStays` | `UserInv`: a rail raised in sight is never owned, nor about to be asked for |
| `AppProofs!PluginStays` | `PluginOutlivesWorker` | `Mapped`: the worker runs only while the screen is up, which starts no second one; `on_exit` joins it before anything is given up |
| `AppProofs!DoneNeverLies` | `DoneIsTrue` | `Done`: what each place of the worker has established; no step before the last answers true, and none after it touches chip or file |
| `AppProofs!ReadyIsEarned` | `ReadyIsProved` | `Earned`: every good verdict, and a frame count above zero, came with a line of this health's and this session's |
| `AppProofs!CountNeverExceeds` | `CountIsHonest` | `Honest`: a total is at most its base and the frames since, and one below the base means a restart not yet counted |
| `AppProofs!TableIsRecent`, `TableKeepsShape` | `BleTableIsRecent`, `BleTypeOK` | `BleInv`: no device was heard after now and none has two rows, so the row that gives way, which has the least stamp, was heard no later than any that stays |
| `AppProofs!TagsAreRecent`, `GpsKeepsShape` | `TagIsRecent`, `GpsTypeOK` | `GpsInv`: a piece in the receive buffer is no older than the last drain (`StreamIsYoung`), so a fix was measured at most `Hold` before it was stamped, and a valid one was stamped within `Stale` (`FixIsYoung`) |
| `DeviceRowProofs!RowClaimsEarned` | `ClaimsAreEarned` | `RowInv`: a strong tell is kept with the rung and the advertisement that brought it (`Explained`); a fingerprint or a name that is evidence lifted the rung as it was stored (`Worded`); the signal beside the channel is the best that came with one (`Tuned`). None of the three follows from the property, which speaks of what is printed. One lemma per source shows its report is worth what the merge takes it for, one (`StepReport`) that the merge keeps the invariant |
| `DeviceRowProofs!RowsSurvive` | `RowsReadBack` | `Shaped`: every field the sources and merges leave is one the reader accepts; then column by column, over the three versions' lengths (`LineComesBack`) |
| `DeviceRowProofs!OwnNameKept` | `OwnNameStays` | a row with its own name has a name, so only an advertisement renames it |
| `DeviceRowProofs!RowInvariant`, `RowShape` | `RowInv`, `RowTypeOK` | one step per source, relaunch and change of fix |
| `BoardProofs!SnifferComesBack` | `RadioRestored` | only a BLE hunt's window leaves the sniffer off, and for the hunt alone |
| `BoardProofs!GpsNeverWaits` | `GpsKeptUp` | each slice ends in a drain |
| `BoardProofs!OnlySeparatedRings` | `RingOnlySeparated` | `BleKnows`: past its own scan a ring has seen its tag separated; the property says it of the writing stages only and not of the connection before them |
| `BoardProofs!OwnNameConfirms` | `ConfirmedByOwnName` | `LineOfAFrame`: every line is printed of one frame, and of a frame only the transmitter's own name scores 3 |
| `BoardProofs!RatesAreOwn` | `RateNeverOverstates` | `RatesInv`: a track's count is backed by as many frames its address sent since the track's first (`Backed`), no address has two tracks, and what was sent is kept in order; an eviction only drops a track, and a new one starts at one |
| `BoardProofs!FramesShape`, `SurveyShape`, `RadioKeepsShape` | `FramesTypeOK`, `SurveyTypeOK`, `TypeOK` | the same invariants; `Slicing` for the radio: a BLE scan that runs has a slice left; `BoardTable`, `LineOnItsWay` and `AppTable` for the survey |
| `BoardProofs!QuietDevices` | `QuietStaysSilent` | `SurveyInv`: of a watched device that has not been heard since its last line, neither the board's total nor the line on its way is ahead of the app's row (`NotBehind`), so a repeated poll brings no growth to report. Each store of a note that two tasks interleave, each eviction and each restart keeps it |
| `AppProofs!SettingsLast`, `SettingsFit` | `SettingsAreKept`, `SettingsTypeOK` | `SettingsInv`: what is in force is something every loader and screen leaves (`Fitting`), whatever lines the file has; what a whole save writes is then read back item by item, as each item has one line and its last line counts |
| `AppProofs!SurveyKept` | `SurveyIsKept` (part of `AppTypes`) | `CardInv`: the groups on the card, old file and new, are those of the last sessions begun, at least as many as the log holds unless none is missing (`LastBegun`), and sessions are begun in order, once each; every way a rotation may fail keeps that. For the list: a row's place is the number of rows before it in a strict order, so no two rows share one and, counting, every place is taken; restricted to some rows the order is the same |
| `AppProofs!TaughtIsKnown`, `FilesKeepShape` | `TearCostsOne`, `FilesTypeOK` | `FilesInv`: every finished line ends in a taught value and every taught value ends one (`Owned`), and the lines that were completed behind half another are no more than the appends cut short. A value is missed only if each of its lines is one of those, as there is room for the rest (`LoadCosts`, by an injection). `TearCostsOne` itself speaks of a launch, and says nothing of the file before it |
| `AppProofs!FlasherKeepsShape`, `ReadyKeepsShape` | `FlasherTypeOK`, `ReadyTypeOK` | `WithinLimits`: a loop that goes on is below its limit; `Metered`: the reboots shown are the session's, and those are some of all |
| `AppProofs!AppKeepsShape`, `AppKeepsPromises` | `AppTypes`, and the promises above | a step of the nine parts under one specification is a step or a stutter of each (`PartsMove`), so each part's theorem holds of the whole (`PartsBehave`) |
| `BoardProofs!BoardKeepsShape`, `BoardKeepsPromises` | `BoardTypes`, and the promises above | a step of the composition is a step or a stutter of each part (`PartsStep`) |

The properties named here that no run lists (`SwapDiscipline`, `Placed`,
`HeartbeatWatched`, `LostMeansSilent`, `OneAttempt`, `GraceIsListened`, `UsersRailStays`,
`TypeOK` of the first three modules) are proved only, being what the others rest on.

Every safety and action property that a passing run checks is a theorem. Only
model-checked: liveness under fairness (`UnsavedIsFlushed`, `Recovers`, `ConfigRestored`,
`HuntResumes`, `SilenceNoticed`, `PowerArrives`, `PhoneIsReached`, `HealthyIsReady`,
`TurnsAreTaken`), which is outside the prover's reach.

Four of these theorems are of the behaviours in which the card refuses nothing of one
kind, written as a condition on steps (`[][RenamesTaken]_vars`,
`[][UNCHANGED faults]_vars`), for any card: as none of them speaks of the future, they
hold of every behaviour up to its first such refusal. After it the code promises no more.
Once a rename is refused, the only copy is `hits.tmp`, which the next save truncates; a
save that fails lowered the dirty flag before, and only another detection raises it. The
runs of these properties have a card of the same kind: `hits_store` refuses writes and
removals, `hits_evict` nothing; the refused rename is `hits_flush`'s. The exclusions'
theorems are of every behaviour: there the property itself says, by `apart` and `faults`,
what a refusal costs.

Two definitions have the form they have for the proofs' sake. A reading of a file, and
the ranked list, could be folds and sorts; what those compute for every input would need
induction over data. They are stated by places instead: a line is taken if fewer than the
room were taken before it, a row stands where as many rows precede it as its place says.
The prover counts sets, and TLC evaluates the same definitions.

## 5. Plan

1. Done: table, persistence, alerts and exclusions, link and session, boost; types,
   survival of saved history, the ledger's refinement, no second row or alert, no silent
   camera, exclusions, undisturbed hunts.
2. Done: the companion's radio, frames and BLE; the survey; position; one row's contents
   with its parsers and files; signature files, settings, Preflight, flasher.
3. Done, proofs: the board's four parts and their composition, the BLE table, the age of
   a tag, a row's contents and its file format; settings kept and fitting, the survey's
   files and ranking, torn appends, and the app's nine parts under one specification.
4. Next, proofs: what still holds of the files after a rename has been refused.
5. Next, model: the Marauder backend's session, if it gets modes to restore; the Wi-Fi scan
   list, if a screen asks for one again.

## 6. What is not modelled, and why

- Views, scenes' drawing, QR, location sharing, vendor names and trigonometry keep no
  state another part depends on, and are formatting.
- The Wi-Fi scan table: its begin, add and end exist, and no command of the app starts a
  scan.
- The Marauder backend's session has no modes to restore and no commands after the first;
  what its lines become is in `EspParser`.
- Bytes: splitting a line into fields, NMEA digits, GATT writes, the SLIP framing of the ROM
  protocol and the JSON reader's characters enter as the results they may have. Host
  tests in `test/` cover them.
- The flasher's file picker, and a lack of memory, which halts the Flipper.
- The vibration and sound sequences of an alert; the URL of the DeFlock hand-off; the
  report's Wi-Fi and BLE lists and wording, and `diag.csv`.
- In `CompanionLink`, Preflight's repeated queries (in `Readiness`) and a UART held by
  another owner (in `EspPower`): the first only adds chances to recover, the second is a
  session in which nothing arrives.
- In `SigFiles`, a read or a deletion that fails (`FlockTable` has both, for the file the
  app reads back while it runs). In `Flasher`, the result of `storage_file_close()`, which
  the code does not look at (`esp_flasher.c:468`), is taken to be success. In `GpsSources`
  a second of the clock and the GUI's liveness tick are one step. A changed GPS pin is
  outside `SettingsAreKept`, as section 3 notes.
- The bench emitter, vendored libraries, asset packs and build tools are outside the
  subject.
