------------------------------ MODULE AppProofs ------------------------------
(***************************************************************************)
(* What is proved of the app's parts that share no state with the          *)
(* detection list, for every value of their constants.                     *)
(***************************************************************************)
EXTENDS MCApp, EspPowerProofs, DeviceRowProofs, FiniteSetTheorems, WellFoundedInduction

-----------------------------------------------------------------------------
(* The flasher, for any number of attempts, blocks and reads.              *)

(* The worker runs only while the screen is up, which loads no second      *)
(* plugin and starts no second worker.                                     *)
Mapped == thread = "alive" => plugin /\ ~tables /\ page = "run"

(* Every step keeps it.                                                    *)
LEMMA StepMapped == Mapped /\ [FlasherNext]_flasher_vars => Mapped'
<1> SUFFICES ASSUME Mapped, [FlasherNext]_flasher_vars PROVE Mapped'
  OBVIOUS
<1>1. CASE Enter
  BY <1>1 DEF Enter, plugin_host_load, Mapped
<1>2. CASE Back \/ on_exit
  BY <1>2 DEF Back, on_exit, Abort, Leave, worker, Mapped
<1>3. CASE fw_worker
  BY <1>3 DEF fw_worker, Worker, Gui, Told, esp_flasher_alloc, Connect, Sync, BeginWrite, Erase,
     Block, Verify, Unlock, Create, Chunk, BackedUp, Discard, Free, End, Mapped
<1>4. CASE UNCHANGED flasher_vars
  BY <1>4 DEF flasher_vars, Mapped
<1> QED BY <1>1, <1>2, <1>3, <1>4 DEF FlasherNext

(* The plugin is never unmapped, nor are the tables taken back, under a    *)
(* worker that runs: on_exit joins it first, wherever it was.              *)
THEOREM PluginStays == FlasherSpec => []PluginOutlivesWorker
<1>1. FlasherInit => Mapped
  BY DEF FlasherInit, Mapped
<1>2. Mapped => PluginOutlivesWorker
  BY DEF Mapped, PluginOutlivesWorker
<1> QED BY <1>1, <1>2, StepMapped, PTL DEF FlasherSpec

(* What has been achieved, when the call says so.                          *)
Achieved ==
  IF fw_op = "backup" THEN image = "whole"
  ELSE chip = "image" \/ (chip = "garbled" /\ md5 = "unanswered")

(* Why DONE is true: no step before the last answers TRUE, no step after   *)
(* it touches chip or file, and the last is reached with every block.      *)
Done ==
  /\ moved \in Nat /\ fw_op \in {"backup", "flash"}
  /\ thread = "alive" => ~fw_ok /\ page = "run"
  /\ at \in {"begin", "erase", "block"} => fw_op = "flash"
  /\ at \in {"create", "chunk", "remove"} => fw_op = "backup"
  /\ at \in {"alloc", "connect", "sync", "begin", "erase", "create"} => moved = 0
  /\ at \notin {"none", "unlock", "free", "end"} => ~result
  /\ at = "block" /\ moved > 0 => chip \in {"partial", "garbled"}
  /\ at = "chunk" /\ moved = Blocks => image = "whole"
  /\ result => Achieved
  /\ fw_ok => Achieved

(* Every step keeps it.                                                    *)
LEMMA StepDone == Done /\ [FlasherNext]_flasher_vars => Done'
<1> SUFFICES ASSUME Done, [FlasherNext]_flasher_vars PROVE Done'
  OBVIOUS
<1>0. Blocks \in Nat \ {0}
  BY FlasherAssumption
<1>1. CASE Enter
  BY <1>0, <1>1 DEF Enter, Done, Achieved
<1>2. CASE Back \/ on_exit
  BY <1>2 DEF Back, on_exit, Abort, Leave, worker, Done, Achieved
<1>3. CASE esp_flasher_alloc \/ Connect \/ BeginWrite \/ Unlock \/ Free
  BY <1>3 DEF Worker, Gui, Told, esp_flasher_alloc, Connect, BeginWrite, Unlock, Free, Done,
     Achieved
<1>4. CASE Sync
  BY <1>4 DEF Worker, Gui, Told, Sync, Done, Achieved
<1>5. CASE Erase \/ Create
  BY <1>0, <1>5 DEF Worker, Gui, Told, Erase, Create, Done, Achieved
<1>6. CASE Block
  BY <1>0, <1>6 DEF Worker, Gui, Told, Block, Done, Achieved
<1>7. CASE Verify
  <2>1. chip \in {"partial", "garbled"} /\ fw_op = "flash" /\ at' = "unlock" /\ thread = "alive"
    BY <1>0, <1>7 DEF Worker, Verify, Done
  <2>2. result' => md5' # "mismatch"
    BY <1>7 DEF Verify
  <2>3. /\ chip = "partial" => chip' = "image"
        /\ chip = "garbled" => chip' = "garbled" /\ md5' \in {"unanswered", "mismatch"}
    BY <1>7 DEF Verify
  <2>4. UNCHANGED <<fw_op, page, thread, fw_ok, moved, image>> /\ moved \in Nat
    BY <1>7 DEF Verify, Gui, Told, Done
  <2>5. ~fw_ok /\ page = "run"
    BY <2>1 DEF Done
  <2>6. result' => Achieved'
    BY <2>1, <2>2, <2>3, <2>4 DEF Achieved
  <2> QED BY <2>1, <2>4, <2>5, <2>6 DEF Done
<1>8. CASE Chunk
  BY <1>0, <1>8 DEF Worker, Gui, Told, Chunk, Done, Achieved
<1>9. CASE BackedUp \/ Discard
  BY <1>0, <1>9 DEF Worker, Gui, Told, BackedUp, Discard, Done, Achieved
<1>10. CASE End
  BY <1>10 DEF Worker, Gui, Told, End, Done, Achieved
<1>11. CASE UNCHANGED flasher_vars
  BY <1>11 DEF flasher_vars, worker, Done, Achieved
<1> QED BY <1>1, <1>2, <1>3, <1>4, <1>5, <1>6, <1>7, <1>8, <1>9, <1>10, <1>11
     DEF FlasherNext, fw_worker

(* DONE is never shown of a backup with a hole in it, nor of a flash whose *)
(* blocks did not all arrive or whose checksum the chip denied.            *)
THEOREM DoneNeverLies == FlasherSpec => []DoneIsTrue
<1>1. FlasherInit => Done
  BY DEF FlasherInit, Done
<1>2. Done => DoneIsTrue
  BY DEF Done, DoneIsTrue, Achieved
<1> QED BY <1>1, <1>2, StepDone, PTL DEF FlasherSpec

(* What the worker counts stays below what ends it: the attempts of a      *)
(* connect, the reads of a chunk.                                          *)
WithinLimits ==
  /\ FlasherTypeOK
  /\ at \in {"alloc", "create"} => tried = 0
  /\ at \in {"connect", "sync"} => tried < Attempts
  /\ at = "chunk" => tried < Tries

(* Every step keeps it.                                                    *)
LEMMA StepCounted == WithinLimits /\ [FlasherNext]_flasher_vars => WithinLimits'
<1> SUFFICES ASSUME WithinLimits, [FlasherNext]_flasher_vars PROVE WithinLimits'
  OBVIOUS
<1> USE DEF WithinLimits, FlasherTypeOK
<1>0. Attempts \in Nat \ {0} /\ Blocks \in Nat \ {0} /\ Tries \in Nat \ {0}
  BY FlasherAssumption
<1>1. CASE Enter
  BY <1>0, <1>1 DEF Enter
<1>2. CASE Back \/ on_exit
  BY <1>2 DEF Back, on_exit, Abort, Leave, worker
<1>3. CASE esp_flasher_alloc \/ Connect \/ Sync
  BY <1>0, <1>3 DEF Worker, Gui, Told, esp_flasher_alloc, Connect, Sync
<1>4. CASE BeginWrite \/ Erase \/ Block \/ Verify \/ Unlock
  BY <1>0, <1>4 DEF Worker, Gui, Told, BeginWrite, Erase, Block, Verify, Unlock
<1>5. CASE Create \/ Chunk \/ BackedUp \/ Discard
  BY <1>0, <1>5 DEF Worker, Gui, Told, Create, Chunk, BackedUp, Discard
<1>6. CASE Free \/ End
  BY <1>6 DEF Worker, Gui, Told, Free, End
<1>7. CASE UNCHANGED flasher_vars
  BY <1>7 DEF flasher_vars, worker
<1> QED BY <1>1, <1>2, <1>3, <1>4, <1>5, <1>6, <1>7 DEF FlasherNext, fw_worker

(* And the initial state has it.                                           *)
LEMMA FlasherStart == FlasherInit => WithinLimits
  BY FlasherAssumption DEF FlasherInit, WithinLimits, FlasherTypeOK

(* The screen, its worker, the chip and the file stay in the states the    *)
(* code knows; no retry passes its limit and no block the image's end.     *)
THEOREM FlasherKeepsShape == FlasherSpec => []FlasherTypeOK
<1>1. WithinLimits => FlasherTypeOK
  BY DEF WithinLimits
<1> QED BY <1>1, FlasherStart, StepCounted, PTL DEF FlasherSpec

-----------------------------------------------------------------------------
(* The readiness screen and the counters, for any boards and any number of *)
(* restarts and losses.                                                    *)

Proofs == Layers \cup {"frames"}

(* Every good verdict in the evidence, and the frame count, was earned by  *)
(* a line of this health's and this session's.                             *)
Earned ==
  /\ unit \in Units /\ proved \subseteq Proofs
  /\ evidence \in [Layers -> {"none", "good", "bad"}]
  /\ \A e \in Layers : evidence[e] = "good" => e \in proved
  /\ frames > 0 => "frames" \in proved

(* Every step keeps it.                                                    *)
LEMMA StepEarned == Earned /\ [ReadyNext]_ready_vars => Earned'
<1> SUFFICES ASSUME Earned, [ReadyNext]_ready_vars PROVE Earned'
  OBVIOUS
<1> USE DEF Earned, Proofs, Layers
<1>0. \A u \in Units : \A e \in Layers : u[e] \in {"good", "bad", "none"}
  BY ReadinessAssumption
<1>1. CASE Capture \/ Restart \/ Silence \/ Return \/ Menu \/ Second \/ UNCHANGED ready_vars
  <2>1. UNCHANGED <<evidence, proved, frames>> /\ unit' \in Units
    BY <1>1 DEF Capture, Restart, Silence, Return, Menu, Second, ready_vars, air, counters, past,
       budget
  <2> QED BY <2>1
<1>2. ASSUME NEW e \in Layers, Say(e) PROVE Earned'
  <2>1. UNCHANGED <<frames, unit>> /\ unit[e] \in {"good", "bad", "none"}
    BY <1>0, <1>2 DEF Say, counters
  <2>2. CASE UNCHANGED <<evidence, proved>>
    BY <2>1, <2>2
  <2>3. CASE Learn(e)
    <3>1. CASE unit[e] = "none"
      BY <2>2, <2>3, <3>1 DEF Learn
    <3>2. CASE unit[e] = "good"
      BY <2>1, <2>3, <3>2 DEF Learn
    <3>3. CASE unit[e] = "bad"
      BY <2>1, <2>3, <3>3 DEF Learn
    <3> QED BY <2>1, <3>1, <3>2, <3>3
  <2> QED BY <1>2, <2>2, <2>3 DEF Say
<1>3. CASE Status
  <2>1. UNCHANGED <<unit, evidence>>
    BY <1>3 DEF Status, air
  <2>2. \/ UNCHANGED <<frames, proved>>
        \/ proved' = IF frames' > 0 THEN proved \cup {"frames"} ELSE proved
    BY <1>3 DEF Status, counters
  <2>3. CASE UNCHANGED <<frames, proved>>
    BY <2>1, <2>3
  <2>4. CASE proved' = IF frames' > 0 THEN proved \cup {"frames"} ELSE proved
    BY <2>1, <2>4
  <2> QED BY <2>2, <2>3, <2>4
<1>4. CASE preflight_begin
  <2>1. /\ evidence' = [e \in Layers |-> "none"] /\ frames' = 0 /\ proved' = {}
        /\ UNCHANGED unit
    BY <1>4 DEF preflight_begin, scan_session_start, preflight_reset_health, Nothing
  <2> QED BY <2>1
<1>5. CASE Detect
  BY <1>5 DEF Detect, scan_session_start, air
<1> QED BY <1>1, <1>2, <1>3, <1>4, <1>5 DEF ReadyNext

(* With that the verdict has its proofs.                                   *)
LEMMA EarnedIsProved == Earned => ReadyIsProved
<1> SUFFICES ASSUME Earned, recon_preflight_evaluate = "ready"
             PROVE  proved = {"proto", "sig", "test", "frames"}
  BY DEF ReadyIsProved
<1>1. AllProved /\ frames > 0
  BY DEF recon_preflight_evaluate
<1> QED BY <1>1 DEF AllProved, Earned, Proofs, Layers

(* READY is never shown on the strength of another board, of another       *)
(* health or of another session's frames.                                  *)
THEOREM ReadyIsEarned == ReadySpec => []ReadyIsProved
<1>1. ReadyInit => Earned
  BY DEF ReadyInit, Earned, Nothing, Proofs, Layers
<1> QED BY <1>1, EarnedIsProved, StepEarned, PTL DEF ReadySpec

(* What a remainder is of a number that is smaller, and of any other.      *)
LEMMA Remainder ==
  ASSUME NEW w \in Nat \ {0}, NEW x \in Nat
  PROVE  x % w \in Nat /\ x % w <= x
OBVIOUS

(* A session that runs and has its base: the total is at most what was     *)
(* captured above the base, unless a restart is still to be noticed.       *)
Based == link_state = "running" /\ ~rebase

(* Why the count is honest.                                                *)
Honest ==
  /\ {total, frames, frames_base, reboots, rebooted, since} \subseteq Nat
  /\ link_state = "running" => frames <= since /\ reboots <= rebooted
  /\ link_state = "running" /\ rebase => frames = 0 /\ reboots = 0
  /\ Based /\ total < frames_base => reboots < rebooted
  /\ Based => total <= frames_base + since

(* Every step keeps it.                                                    *)
LEMMA StepHonest == Honest /\ [ReadyNext]_ready_vars => Honest'
<1> SUFFICES ASSUME Honest, [ReadyNext]_ready_vars PROVE Honest'
  OBVIOUS
<1> USE DEF Honest, Based
<1>1. CASE Capture
  BY <1>1 DEF Capture, counters
<1>2. CASE Restart
  BY <1>2 DEF Restart, counters
<1>3. ASSUME NEW e \in Layers, Say(e) PROVE Honest'
  BY <1>3 DEF Say, counters
<1>4. CASE Status
  <2>1. CASE backend = "companion"
    <3>1. /\ link_state = "running" /\ UNCHANGED <<link_state, total, rebooted, since>>
          /\ ~rebase' /\ recon_app_set_esp_status
      BY <1>4, <2>1 DEF Status, air
    <3> DEFINE base == IF rebase THEN total ELSE frames_base
    <3>2. /\ frames_base' = IF total < base THEN total ELSE base
          /\ reboots' = IF total < base THEN reboots + 1 ELSE reboots
          /\ frames' = (total - frames_base') % Width
      BY <3>1 DEF recon_app_set_esp_status
    <3>3. frames_base' \in Nat /\ frames_base' <= total
      BY <3>2
    <3>4. total - frames_base' \in Nat /\ Width \in Nat \ {0}
      BY <3>3, ReadinessAssumption
    <3>5. frames' \in Nat /\ frames' <= total - frames_base'
      BY <3>2, <3>4, Remainder
    <3>6. total - frames_base' <= since
      BY <3>1, <3>2
    <3>7. reboots' \in Nat /\ reboots' <= rebooted
      BY <3>1, <3>2
    <3> HIDE DEF base
    <3> QED BY <3>1, <3>3, <3>5, <3>6, <3>7
  <2>2. CASE backend # "companion"
    BY <1>4, <2>2 DEF Status, counters, air
  <2> QED BY <2>1, <2>2
<1>5. CASE Silence \/ Second \/ Return \/ Menu \/ UNCHANGED ready_vars
  <2>1. UNCHANGED <<total, counters, rebooted, since>> /\ link_state' \in {link_state, "closed"}
    BY <1>5 DEF Silence, Second, Return, Menu, ready_vars, air, counters, past, budget
  <2> QED BY <2>1 DEF counters
<1>6. CASE preflight_begin \/ Detect
  <2>1. /\ UNCHANGED <<total, frames_base>> /\ rebase'
        /\ frames' = 0 /\ reboots' = 0 /\ rebooted' = 0 /\ since' = 0
    BY <1>6 DEF preflight_begin, Detect, scan_session_start, air
  <2> QED BY <2>1
<1> QED BY <1>1, <1>2, <1>3, <1>4, <1>5, <1>6 DEF ReadyNext

(* Whatever restarts, is swapped or is lost on the wire, the screen counts *)
(* no frame the session's boards did not capture and no restart that did   *)
(* not happen.                                                             *)
THEOREM CountNeverExceeds == ReadySpec => []CountIsHonest
<1>1. ReadyInit => Honest
  BY DEF ReadyInit, Honest, Based
<1>2. Honest => CountIsHonest
  BY DEF Honest, CountIsHonest
<1> QED BY <1>1, <1>2, StepHonest, PTL DEF ReadySpec

(* What the counters may read: no more restarts than the session saw, and  *)
(* no more of those than there were.                                       *)
Metered ==
  /\ Honest /\ Earned /\ ReadyTypeOK
  /\ reboots <= rebooted /\ rebooted <= boots /\ boots \in 0..MaxBoots

(* Every step keeps it.                                                    *)
LEMMA StepMetered == Metered /\ [ReadyNext]_ready_vars => Metered'
<1> SUFFICES ASSUME Metered, [ReadyNext]_ready_vars PROVE Metered'
  OBVIOUS
<1>1. Honest' /\ Earned'
  BY StepHonest, StepEarned DEF Metered
<1>2. /\ Patience \in Nat \ {0} /\ Query \in Nat \ {0} /\ MaxTotal \in Nat \ {0}
      /\ Width \in Nat \ {0} /\ MaxBoots \in Nat
  BY ReadinessAssumption
<1>3. /\ total \in 0..MaxTotal /\ frames \in 0..(Width - 1) /\ pending \subseteq Layers
      /\ elapsed \in 0..Patience /\ query \in 0..Query
      /\ reboots <= rebooted /\ rebooted <= boots /\ boots \in 0..MaxBoots
      /\ reboots \in Nat /\ rebooted \in Nat
      /\ link_state \in {"closed", "running", "busy"}
      /\ screen \in {"menu", "preflight", "flock"}
  BY DEF Metered, ReadyTypeOK, Honest
<1> DEFINE Rest == /\ total' \in 0..MaxTotal /\ frames' \in 0..(Width - 1)
                   /\ pending' \subseteq Layers
                   /\ elapsed' \in 0..Patience /\ query' \in 0..Query
                   /\ reboots' <= rebooted' /\ rebooted' <= boots' /\ boots' \in 0..MaxBoots
                   /\ link_state' \in {"closed", "running", "busy"}
                   /\ screen' \in {"menu", "preflight", "flock"}
<1> SUFFICES Rest
  <2> SUFFICES ASSUME Rest PROVE Metered'
    OBVIOUS
  <2>1. reboots' \in 0..MaxBoots
    BY <1>1, <1>2 DEF Honest
  <2> QED BY <1>1, <2>1 DEF Metered, ReadyTypeOK, Earned
<1>4. CASE Capture
  BY <1>2, <1>3, <1>4 DEF Capture, counters, budget
<1>5. CASE Restart
  BY <1>2, <1>3, <1>5 DEF Restart, counters, Layers
<1>6. ASSUME NEW e \in Layers, Say(e) PROVE Rest
  BY <1>3, <1>6 DEF Say, counters
<1>7. CASE Status
  <2>1. /\ UNCHANGED <<total, pending, elapsed, query, rebooted, boots, link_state, screen>>
        /\ link_state = "running"
    BY <1>7 DEF Status, air, budget
  <2>2. reboots' <= rebooted'
    BY <1>1, <2>1 DEF Honest
  <2>3. frames' \in 0..(Width - 1)
    <3>1. CASE backend = "companion"
      <4>1. frames' = (total - frames_base') % Width
        BY <1>7, <3>1 DEF Status, recon_app_set_esp_status
      <4>2. total - frames_base' \in Int
        BY <1>1, <1>3 DEF Honest
      <4>3. \A x \in Int : x % Width \in 0..(Width - 1)
        BY <1>2
      <4> QED BY <4>1, <4>2, <4>3
    <3>2. CASE backend # "companion"
      BY <1>3, <1>7, <3>2 DEF Status, counters
    <3> QED BY <3>1, <3>2
  <2> QED BY <1>3, <2>1, <2>2, <2>3
<1>8. CASE Silence \/ Menu \/ UNCHANGED ready_vars
  BY <1>3, <1>8 DEF Silence, Menu, ready_vars, air, counters, past, budget
<1>9. CASE preflight_begin \/ Detect
  <2>1. /\ UNCHANGED <<total, boots>> /\ frames' = 0 /\ reboots' = 0 /\ rebooted' = 0
        /\ link_state' \in {"running", "busy"} /\ screen' \in {"preflight", "flock"}
    BY <1>9 DEF preflight_begin, Detect, scan_session_start, air
  <2>2. pending' \subseteq Layers
    BY <1>3, <1>9 DEF preflight_begin, Detect, AskBoard, air, Layers
  <2>3. elapsed' \in 0..Patience /\ query' \in 0..Query
    BY <1>2, <1>3, <1>9 DEF preflight_begin, Detect
  <2> QED BY <1>2, <1>3, <2>1, <2>2, <2>3
<1>10. CASE Return
  BY <1>2, <1>3, <1>10 DEF Return, AskBoard, counters, past, budget, Layers
<1>11. CASE Second
  <2>1. UNCHANGED <<total, frames, reboots, rebooted, boots, link_state, screen>>
    BY <1>11 DEF Second, counters, past, budget
  <2>2. pending' \subseteq Layers
    BY <1>3, <1>11 DEF Second, AskBoard, Queries, Layers
  <2>3. elapsed' \in 0..Patience /\ query' \in 0..Query
    BY <1>2, <1>3, <1>11 DEF Second
  <2> QED BY <1>3, <2>1, <2>2, <2>3
<1> QED BY <1>4, <1>5, <1>6, <1>7, <1>8, <1>9, <1>10, <1>11 DEF ReadyNext

(* And the initial state has it.                                           *)
LEMMA ReadyStart == ReadyInit => Metered
<1> SUFFICES ASSUME ReadyInit PROVE Metered
  OBVIOUS
<1>1. Honest /\ Earned
  BY DEF ReadyInit, Honest, Based, Earned, Nothing, Proofs, Layers
<1>2. ReadyTypeOK /\ reboots <= rebooted /\ rebooted <= boots /\ boots \in 0..MaxBoots
  BY ReadinessAssumption DEF ReadyInit, ReadyTypeOK, Nothing, Layers
<1> QED BY <1>1, <1>2 DEF Metered

(* The screen, its evidence and its counters stay in range, whatever is    *)
(* lost and however often the board restarts.                              *)
THEOREM ReadyKeepsShape == ReadySpec => []ReadyTypeOK
<1>1. Metered => ReadyTypeOK
  BY DEF Metered
<1> QED BY <1>1, ReadyStart, StepMetered, PTL DEF ReadySpec

-----------------------------------------------------------------------------
(* The table of advertisers, for any size, any addresses and any adverts.  *)

AdNames == {s.name : s \in Says} \cup {""}
Companies == {s.company : s \in Says} \cup {BLE_COMPANY_NONE}
Cats == {s.cat : s \in Says} \cup {"unknown", "flipper"}
Models == {"raven", "generic", "unknown"}

BleRows ==
  [addr : Addresses, name : AdNames, cat : Cats, company : Companies, serial : BOOLEAN,
   model : Models, at : BOOLEAN, last_tick : Nat]

Sayings == [name : Nat, company : Companies]

(* Why the table is recent: besides the promise itself, no device was      *)
(* heard after now, and no device has two rows.                            *)
BleInv ==
  /\ ble \in Seq(BleRows) /\ ble_fix \in BOOLEAN
  /\ ble_last \in [Addresses -> Nat] /\ ble_said \in [Addresses -> Sayings]
  /\ \A a \in Addresses : ble_last[a] <= ble_tick
  /\ BleTypeOK /\ BleTableIsRecent

(* The least of a set of numbers is one of them.                           *)
LEMMA LeastOf ==
  ASSUME NEW S \in SUBSET Nat, S # {}
  PROVE  Min(S) \in S /\ \A x \in S : Min(S) <= x
<1>1. PICK m \in S : \A x \in S : ~(<<x, m>> \in OpToRel(<, Nat))
  BY NatLessThanWellFounded, WFMin
<1>2. \A x \in S : ~(x < m)
  BY <1>1 DEF OpToRel
<1>3. m \in S /\ \A x \in S : m <= x
  BY <1>2
<1>4. \E x \in S : \A y \in S : x <= y
  BY <1>3
<1> QED BY <1>4 DEF Min

(* The greater of two numbers.                                             *)
LEMMA Greater ==
  ASSUME NEW o \in Nat, NEW n \in Nat
  PROVE  /\ n > o => At_least(o, n) = n
         /\ ~(n > o) => At_least(o, n) = o
         /\ o = 0 => At_least(o, n) = n
BY DEF At_least

(* Of two names the one kept is the more telling.                          *)
LEMMA MoreTelling ==
  ASSUME NEW old, NEW new
  PROVE  flock_ble_name_specificity(IF old = "" \/ flock_ble_name_should_replace(old, new)
                                    THEN new ELSE old)
           = At_least(flock_ble_name_specificity(old), flock_ble_name_specificity(new))
<1>1. flock_ble_name_specificity(old) \in Nat /\ flock_ble_name_specificity(new) \in Nat
  BY DEF flock_ble_name_specificity
<1>2. old = "" => flock_ble_name_specificity(old) = 0
  BY DEF flock_ble_name_specificity
<1>3. CASE old = ""
  BY <1>1, <1>2, <1>3, Greater, Zenon
<1>4. CASE old # "" /\ flock_ble_name_should_replace(old, new)
  BY <1>1, <1>4, Greater, Zenon DEF flock_ble_name_should_replace
<1>5. CASE old # "" /\ ~flock_ble_name_should_replace(old, new)
  BY <1>1, <1>5, Greater, Zenon DEF flock_ble_name_should_replace
<1> QED BY <1>3, <1>4, <1>5, Zenon

(* The model an advertisement tells is one of three words.                 *)
LEMMA ModelTold ==
  ASSUME NEW s
  PROVE  ModelOf(s) \in Models
<1>1. \A serial, name, raven : flock_ble_model_ex(serial, name, raven) \in Models
  BY Zenon DEF flock_ble_model_ex, Models
<1>2. "unknown" \in Models
  BY DEF Models
<1> QED BY <1>1, <1>2, Zenon DEF ModelOf

(* What a sighting leaves of a row.                                        *)
LEMMA UpdatedRow ==
  ASSUME NEW r \in BleRows, NEW s \in Says, ble_tick \in Nat, ble_fix \in BOOLEAN
  PROVE  LET u == Updated(r, s) IN
         /\ u \in BleRows /\ u.addr = r.addr /\ u.last_tick = ble_tick
         /\ u.company = IF s.company = BLE_COMPANY_NONE THEN r.company ELSE s.company
         /\ flock_ble_name_specificity(u.name)
              = At_least(flock_ble_name_specificity(r.name), flock_ble_name_specificity(s.name))
<1>1. s.cat \in Cats /\ s.company \in Companies /\ s.name \in AdNames
  BY DEF Cats, Companies, AdNames
<1>2. CatOf(s) \in Cats
  BY <1>1 DEF CatOf, Cats
<1>3. SerialOf(s) \in BOOLEAN
  BY Zenon DEF SerialOf
<1>4. ModelOf(s) \in Models
  BY ModelTold
<1>5. r.cat \in Cats /\ r.company \in Companies /\ r.name \in AdNames /\ r.model \in Models
  BY DEF BleRows
<1>6. r.serial \in BOOLEAN /\ r.at \in BOOLEAN
  BY DEF BleRows
<1> DEFINE cat == IF CatOf(s) # "unknown" THEN CatOf(s) ELSE r.cat
           company == IF s.company # BLE_COMPANY_NONE THEN s.company ELSE r.company
           name == IF r.name = "" \/ flock_ble_name_should_replace(r.name, s.name)
                   THEN s.name ELSE r.name
           model == IF ModelOf(s) # "unknown" THEN ModelOf(s) ELSE r.model
           serial == r.serial \/ SerialOf(s)
           placed == r.at \/ ble_fix
<1>7. cat \in Cats /\ company \in Companies /\ name \in AdNames /\ model \in Models
  BY <1>1, <1>2, <1>4, <1>5
<1>8. serial \in BOOLEAN /\ placed \in BOOLEAN
  BY Zenon
<1>9. Updated(r, s)
        = [r EXCEPT !.last_tick = ble_tick, !.cat = cat, !.company = company, !.name = name,
                    !.serial = serial, !.model = model, !.at = placed]
  BY Zenon DEF Updated, Stamp
<1>10. flock_ble_name_specificity(name)
         = At_least(flock_ble_name_specificity(r.name), flock_ble_name_specificity(s.name))
  BY <1>1, <1>5, MoreTelling
<1>11. company = IF s.company = BLE_COMPANY_NONE THEN r.company ELSE s.company
  OBVIOUS
<1> HIDE DEF cat, company, name, model, serial, placed
<1>12. PICK tick \in Nat : tick = ble_tick
  OBVIOUS
<1>u. PICK u : u = Updated(r, s)
  OBVIOUS
<1>13. u = [r EXCEPT !.last_tick = tick, !.cat = cat, !.company = company, !.name = name,
                     !.serial = serial, !.model = model, !.at = placed]
  BY <1>9, <1>12, <1>u, Zenon
<1>14. /\ u \in BleRows /\ u.addr = r.addr /\ u.last_tick = tick /\ u.company = company
       /\ u.name = name
  BY <1>7, <1>8, <1>13 DEF BleRows
<1> QED BY <1>10, <1>11, <1>12, <1>14, <1>u

(* The row a sighting goes to: its own, one behind the last, or that of    *)
(* the device heard longest ago.                                           *)
LEMMA SlotForOne ==
  ASSUME BleInv, NEW a \in Addresses
  PROVE  /\ SlotFor(a) \in 1..(Len(ble) + 1)
         /\ RowOf(a) # {} => SlotFor(a) \in DOMAIN ble /\ ble[SlotFor(a)].addr = a
         /\ RowOf(a) = {} /\ SlotFor(a) <= Len(ble) =>
              \A k \in DOMAIN ble : ble[SlotFor(a)].last_tick <= ble[k].last_tick
         /\ SlotFor(a) > Len(ble) => Len(ble) < RECON_BLE_MAX /\ RowOf(a) = {}
<1>0. ble \in Seq(BleRows) /\ Len(ble) <= RECON_BLE_MAX
  BY DEF BleInv, BleTypeOK
<1>a. \A k \in DOMAIN ble : ble[k] \in BleRows
  BY <1>0
<1>1. /\ Len(ble) \in Nat /\ DOMAIN ble = 1..Len(ble) /\ Len(ble) <= RECON_BLE_MAX
      /\ \A k \in DOMAIN ble : ble[k].last_tick \in Nat
  <2>1. Len(ble) \in Nat /\ DOMAIN ble = 1..Len(ble) /\ Len(ble) <= RECON_BLE_MAX
    BY <1>0
  <2>2. \A k \in DOMAIN ble : ble[k].last_tick \in Nat
    BY <1>a DEF BleRows
  <2> QED BY <2>1, <2>2
<1>2. CASE RowOf(a) # {}
  <2>1. RowOf(a) \in SUBSET Nat
    BY <1>1 DEF RowOf
  <2>2. SlotFor(a) \in RowOf(a)
    BY <1>2, <2>1, LeastOf DEF SlotFor
  <2> QED BY <1>1, <1>2, <2>2 DEF RowOf
<1>3. CASE RowOf(a) = {} /\ Len(ble) < RECON_BLE_MAX
  <2>1. SlotFor(a) = Len(ble) + 1
    BY <1>3 DEF SlotFor
  <2> QED BY <1>1, <1>3, <2>1
<1>4. CASE RowOf(a) = {} /\ ~(Len(ble) < RECON_BLE_MAX)
  <2>1. DOMAIN ble # {}
    BY <1>1, <1>4, BleAssumption
  <2> DEFINE ticks == {ble[k].last_tick : k \in DOMAIN ble}
             first == {k \in DOMAIN ble : \A j \in DOMAIN ble :
                                            ble[k].last_tick <= ble[j].last_tick}
  <2>2. ticks \in SUBSET Nat /\ ticks # {}
    BY <1>1, <2>1
  <2>3. Min(ticks) \in ticks /\ \A x \in ticks : Min(ticks) <= x
    BY <2>2, LeastOf
  <2>4. first \in SUBSET Nat /\ first # {}
    <3>1. PICK k \in DOMAIN ble : ble[k].last_tick = Min(ticks)
      BY <2>3
    <3>2. \A j \in DOMAIN ble : Min(ticks) <= ble[j].last_tick
      BY <2>3
    <3> HIDE DEF ticks
    <3>3. k \in first
      BY <3>1, <3>2
    <3> QED BY <1>1, <3>3
  <2>5. SlotFor(a) \in first
    BY <1>4, <2>4, LeastOf DEF SlotFor, Longest
  <2> QED BY <1>1, <1>4, <2>5
<1> QED BY <1>2, <1>3, <1>4

(* A sighting keeps the table recent: a row gives way only to a newcomer,  *)
(* and only the row heard longest ago does.                                *)
LEMMA SightingKeeps == BleInv /\ recon_app_ble_add => BleInv'
<1> SUFFICES ASSUME BleInv, recon_app_ble_add PROVE BleInv'
  OBVIOUS
<1>1. PICK a \in Addresses, s \in Says :
        LET i == SlotFor(a)
            known == RowOf(a) # {}
            evicted == IF known \/ i > Len(ble) THEN {} ELSE {ble[i].addr}
            before == IF known THEN ble_said[a] ELSE Silent
        IN  /\ ble' = IF i > Len(ble) THEN Append(ble, Updated(Fresh(a), s))
                      ELSE ReplaceAt(ble, i, Updated(IF known THEN ble[i] ELSE Fresh(a), s))
            /\ ble_last' = [ble_last EXCEPT ![a] = ble_tick]
            /\ ble_said' = [b \in Addresses |->
                 IF b = a
                 THEN [name |-> At_least(before.name, flock_ble_name_specificity(s.name)),
                       company |-> IF s.company = BLE_COMPANY_NONE THEN before.company
                                   ELSE s.company]
                 ELSE IF b \in evicted THEN Silent ELSE ble_said[b]]
            /\ UNCHANGED <<ble_fix, ble_tick>>
  BY Zenon DEF recon_app_ble_add
<1> DEFINE known == RowOf(a) # {}
           before == IF known THEN ble_said[a] ELSE Silent
<1>2. /\ ble \in Seq(BleRows) /\ Len(ble) \in Nat /\ DOMAIN ble = 1..Len(ble)
      /\ Len(ble) <= RECON_BLE_MAX
      /\ ble_tick \in Nat /\ ble_tick \in 1..MaxTicks /\ ble_fix \in BOOLEAN
      /\ ble_last \in [Addresses -> Nat] /\ ble_said \in [Addresses -> Sayings]
      /\ \A b \in Addresses : ble_last[b] <= ble_tick
      /\ \A j, k \in DOMAIN ble : ble[j].addr = ble[k].addr => j = k
  BY BleAssumption DEF BleInv, BleTypeOK
<1>3. \A k \in DOMAIN ble :
        /\ ble[k] \in BleRows /\ ble[k].addr \in Addresses /\ ble[k].last_tick \in Nat
        /\ ble[k].last_tick = ble_last[ble[k].addr]
        /\ flock_ble_name_specificity(ble[k].name) = ble_said[ble[k].addr].name
        /\ ble[k].company = ble_said[ble[k].addr].company
        /\ \A b \in Addresses : RowOf(b) = {} => ble_last[b] <= ble[k].last_tick
  <2> TAKE k \in DOMAIN ble
  <2>1. ble[k] \in BleRows
    BY <1>2
  <2>2. ble[k].addr \in Addresses /\ ble[k].last_tick \in Nat
    BY <2>1 DEF BleRows
  <2>3. /\ ble[k].last_tick = ble_last[ble[k].addr]
        /\ flock_ble_name_specificity(ble[k].name) = ble_said[ble[k].addr].name
        /\ ble[k].company = ble_said[ble[k].addr].company
        /\ \A b \in Addresses : RowOf(b) = {} => ble_last[b] <= ble[k].last_tick
    BY Zenon DEF BleInv, BleTableIsRecent
  <2> QED BY <2>1, <2>2, <2>3
<1>4. PICK i \in 1..(Len(ble) + 1) : i = SlotFor(a)
  BY SlotForOne
<1>5. /\ known => i \in DOMAIN ble /\ ble[i].addr = a
      /\ ~known /\ i <= Len(ble) => \A k \in DOMAIN ble : ble[i].last_tick <= ble[k].last_tick
      /\ i > Len(ble) => Len(ble) < RECON_BLE_MAX /\ ~known
  BY <1>4, SlotForOne
<1>6. PICK old : old = IF known THEN ble[i] ELSE Fresh(a)
  OBVIOUS
<1>7. /\ old \in BleRows /\ old.addr = a
      /\ flock_ble_name_specificity(old.name) = before.name /\ old.company = before.company
  <2>1. CASE known
    BY <1>3, <1>5, <1>6, <2>1
  <2>2. CASE ~known
    <3>1. old = Fresh(a) /\ before = Silent
      BY <1>6, <2>2
    <3>2. /\ Fresh(a).addr = a /\ Fresh(a).name = "" /\ Fresh(a).company = BLE_COMPANY_NONE
          /\ Fresh(a) \in BleRows
      <4>1. "" \in AdNames /\ "unknown" \in Cats /\ BLE_COMPANY_NONE \in Companies
            /\ "unknown" \in Models /\ FALSE \in BOOLEAN
        BY DEF AdNames, Cats, Companies, Models
      <4> QED BY <1>2, <4>1 DEF Fresh, BleRows
    <3>3. flock_ble_name_specificity("") = 0
      BY DEF flock_ble_name_specificity
    <3>4. Silent.name = 0 /\ Silent.company = BLE_COMPANY_NONE
      BY DEF Silent
    <3> QED BY <3>1, <3>2, <3>3, <3>4
  <2> QED BY <2>1, <2>2
<1>8. PICK new \in BleRows :
        /\ new = Updated(old, s) /\ new.addr = a /\ new.last_tick = ble_tick
        /\ new.company = IF s.company = BLE_COMPANY_NONE THEN before.company ELSE s.company
        /\ flock_ble_name_specificity(new.name)
             = At_least(before.name, flock_ble_name_specificity(s.name))
  BY <1>2, <1>7, UpdatedRow
<1>9. /\ ble' = IF i > Len(ble) THEN Append(ble, new) ELSE ReplaceAt(ble, i, new)
      /\ ble_last' = [ble_last EXCEPT ![a] = ble_tick]
      /\ UNCHANGED <<ble_fix, ble_tick>>
  BY <1>1, <1>4, <1>5, <1>6, <1>8
<1> DEFINE evicted == IF known \/ i > Len(ble) THEN {} ELSE {ble[i].addr}
<1>10. ble_said' = [b \in Addresses |->
         IF b = a
         THEN [name |-> At_least(before.name, flock_ble_name_specificity(s.name)),
               company |-> IF s.company = BLE_COMPANY_NONE THEN before.company ELSE s.company]
         ELSE IF b \in evicted THEN Silent ELSE ble_said[b]]
  BY <1>1, <1>4
<1>11. /\ ble' \in Seq(BleRows)
       /\ Len(ble') = IF i > Len(ble) THEN Len(ble) + 1 ELSE Len(ble)
       /\ ble'[i] = new /\ \A k \in DOMAIN ble \ {i} : ble'[k] = ble[k]
  <2>1. CASE i > Len(ble)
    <3>1. ble' = Append(ble, new) /\ i = Len(ble) + 1
      BY <1>2, <1>9, <2>1
    <3> QED BY <1>2, <2>1, <3>1, AppendProperties
  <2>2. CASE ~(i > Len(ble))
    <3>1. ble' = [ble EXCEPT ![i] = new] /\ i \in 1..Len(ble)
      BY <1>2, <1>9, <2>2 DEF ReplaceAt
    <3> QED BY <1>2, <2>2, <3>1
  <2> QED BY <2>1, <2>2
<1>12. /\ Len(ble') \in Nat /\ DOMAIN ble' = 1..Len(ble') /\ Len(ble') <= RECON_BLE_MAX
       /\ DOMAIN ble' = DOMAIN ble \cup {i}
  <2>1. /\ Len(ble') = IF i > Len(ble) THEN Len(ble) + 1 ELSE Len(ble)
        /\ i \in 1..(Len(ble) + 1) /\ Len(ble) \in Nat /\ Len(ble) <= RECON_BLE_MAX
    BY <1>2, <1>11
  <2>2. Len(ble') \in Nat /\ Len(ble') <= RECON_BLE_MAX
    BY <1>5, <2>1, BleAssumption
  <2>3. DOMAIN ble' = 1..Len(ble')
    BY <1>11
  <2>4. 1..Len(ble') = (1..Len(ble)) \cup {i}
    BY <2>1
  <2> QED BY <1>2, <2>2, <2>3, <2>4
<1>13. \A b \in Addresses :
         /\ b = a => ble_said'[b].name = flock_ble_name_specificity(new.name)
                     /\ ble_said'[b].company = new.company
         /\ b # a /\ b \notin evicted => ble_said'[b] = ble_said[b]
  BY <1>8, <1>10
<1>14. \A b \in Addresses : ble_last'[b] = IF b = a THEN ble_tick ELSE ble_last[b]
  BY <1>2, <1>9
<1> HIDE DEF known, before, evicted
<1>15. \A k \in DOMAIN ble' \ {i} : k \in DOMAIN ble /\ ble'[k] = ble[k] /\ ble[k].addr # a
                                    /\ ble[k].addr \notin evicted
  <2> TAKE k \in DOMAIN ble' \ {i}
  <2>1. k \in DOMAIN ble /\ ble'[k] = ble[k]
    BY <1>11, <1>12
  <2>2. ble[k].addr # a
    BY <1>2, <1>5, <2>1 DEF known, RowOf
  <2>3. ble[k].addr \notin evicted
    BY <1>2, <1>4, <1>5, <2>1 DEF evicted
  <2> QED BY <2>1, <2>2, <2>3
<1>16. \A k \in DOMAIN ble' :
         /\ ble'[k].addr \in Addresses /\ ble'[k].last_tick = ble_last'[ble'[k].addr]
         /\ flock_ble_name_specificity(ble'[k].name) = ble_said'[ble'[k].addr].name
         /\ ble'[k].company = ble_said'[ble'[k].addr].company
  <2> TAKE k \in DOMAIN ble'
  <2>1. CASE k = i
    BY <1>8, <1>11, <1>13, <1>14, <2>1
  <2>2. CASE k # i
    BY <1>3, <1>13, <1>14, <1>15, <2>2
  <2> QED BY <2>1, <2>2
<1>17. \A b \in Addresses, k \in DOMAIN ble' :
         RowOf(b)' = {} => ble_last'[b] <= ble'[k].last_tick
  <2> SUFFICES ASSUME NEW b \in Addresses, NEW k \in DOMAIN ble', RowOf(b)' = {}
               PROVE  ble_last'[b] <= ble'[k].last_tick
    OBVIOUS
  <2>1. \A j \in DOMAIN ble' : ble'[j].addr # b
    BY DEF RowOf
  <2>2. b # a
    BY <1>8, <1>11, <1>12, <2>1
  <2>3. ble_last'[b] = ble_last[b] /\ ble_last[b] \in Nat /\ ble_last[b] <= ble_tick
    BY <1>2, <1>14, <2>2
  <2>4. CASE k = i
    BY <1>8, <1>11, <2>3, <2>4
  <2>5. CASE k # i /\ RowOf(b) = {}
    BY <1>3, <1>15, <2>3, <2>5
  <2>6. CASE k # i /\ RowOf(b) # {}
    <3>1. PICK j \in DOMAIN ble : ble[j].addr = b
      BY <2>6 DEF RowOf
    <3>2. j = i
      BY <1>11, <1>12, <2>1, <3>1
    <3>3. ~known /\ i <= Len(ble)
      BY <1>2, <1>5, <2>2, <3>1, <3>2
    <3>4. ble[i].last_tick <= ble[k].last_tick /\ ble_last[b] = ble[i].last_tick
      BY <1>3, <1>5, <1>15, <2>6, <3>1, <3>2, <3>3
    <3> QED BY <1>15, <2>3, <2>6, <3>4
  <2> QED BY <2>4, <2>5, <2>6
<1>18. \A j, k \in DOMAIN ble' : ble'[j].addr = ble'[k].addr => j = k
  BY <1>2, <1>8, <1>11, <1>15
<1>19. ble_said' \in [Addresses -> Sayings]
  <2>1. before \in Sayings
    BY <1>2 DEF before, Silent, Sayings, Companies
  <2>2. s.company \in Companies /\ flock_ble_name_specificity(s.name) \in Nat
    BY DEF Companies, flock_ble_name_specificity
  <2>3. At_least(before.name, flock_ble_name_specificity(s.name)) \in Nat
    BY <2>1, <2>2 DEF At_least, Sayings
  <2>4. [name |-> At_least(before.name, flock_ble_name_specificity(s.name)),
         company |-> IF s.company = BLE_COMPANY_NONE THEN before.company ELSE s.company]
          \in Sayings
    BY <2>1, <2>2, <2>3 DEF Sayings
  <2>5. Silent \in Sayings
    BY DEF Silent, Sayings, Companies
  <2> QED BY <1>2, <1>10, <2>4, <2>5
<1>20. ble_last' \in [Addresses -> Nat] /\ \A b \in Addresses : ble_last'[b] <= ble_tick'
  BY <1>2, <1>9, <1>14
<1>21. BleTypeOK'
  BY <1>2, <1>9, <1>12, <1>18 DEF BleTypeOK
<1>22. BleTableIsRecent'
  BY <1>16, <1>17 DEF BleTableIsRecent
<1> QED BY <1>2, <1>9, <1>11, <1>19, <1>20, <1>21, <1>22 DEF BleInv

(* Every step keeps the table recent.                                      *)
LEMMA StepBle == BleInv /\ [BleNext]_ble_vars => BleInv'
<1> SUFFICES ASSUME BleInv, [BleNext]_ble_vars PROVE BleInv'
  OBVIOUS
<1>1. CASE recon_app_ble_add
  BY <1>1, SightingKeeps
<1>2. CASE TickPasses \/ FixMoves \/ UNCHANGED ble_vars
  <2>1. /\ UNCHANGED <<ble, ble_last, ble_said>> /\ ble_tick' \in {ble_tick, ble_tick + 1}
        /\ ble_tick' \in 1..MaxTicks
    BY <1>2, BleAssumption DEF TickPasses, FixMoves, ble_vars, BleInv, BleTypeOK
  <2>2. ble_fix' \in BOOLEAN
    BY <1>2 DEF TickPasses, FixMoves, ble_vars, BleInv
  <2>3. \A b \in Addresses : ble_last[b] \in Nat /\ ble_last'[b] <= ble_tick'
    BY <2>1 DEF BleInv, BleTypeOK
  <2>4. BleTypeOK' /\ BleTableIsRecent'
    BY <2>1 DEF BleInv, BleTypeOK, BleTableIsRecent, RowOf
  <2> QED BY <2>1, <2>2, <2>3, <2>4 DEF BleInv
<1> QED BY <1>1, <1>2 DEF BleNext

(* The table starts empty.                                                 *)
LEMMA BleStarts == BleInit => BleInv
<1> SUFFICES ASSUME BleInit PROVE BleInv
  OBVIOUS
<1>1. ble = <<>> /\ ble \in Seq(BleRows) /\ Len(ble) = 0 /\ DOMAIN ble = {}
  BY DEF BleInit
<1>2. BleTypeOK /\ BleTableIsRecent
  BY <1>1, BleAssumption DEF BleInit, BleTypeOK, BleTableIsRecent
<1>3. Silent \in Sayings
  BY DEF Silent, Sayings, Companies
<1> QED BY <1>1, <1>2, <1>3 DEF BleInit, BleInv

(* However small the table and whoever is around, it holds those heard     *)
(* last, with the company and the most telling name each of them sent.     *)
THEOREM TableIsRecent == BleSpec => []BleTableIsRecent
<1>1. BleInv => BleTableIsRecent
  BY DEF BleInv
<1> QED BY <1>1, BleStarts, StepBle, PTL DEF BleSpec

(* And no device has two rows in it, nor has it more rows than there is    *)
(* room for.                                                               *)
THEOREM TableKeepsShape == BleSpec => []BleTypeOK
<1>1. BleInv => BleTypeOK
  BY DEF BleInv
<1> QED BY <1>1, BleStarts, StepBle, PTL DEF BleSpec

-----------------------------------------------------------------------------
(* The position, for any receiver, buffer, expiry and drain.               *)

Kinds == {"GGA", "RMC", "GLL"}
Verdicts == {"fix", "lost", "garbled", "spoiled"}
Pieces == [type : Kinds, part : {"head", "tail"}, verdict : Verdicts, age : 0..Old]

Fixes == [valid : BOOLEAN, stamp : 0..Old, born : 0..Old]

(* The fix was measured at most a drain's delay before it was stamped.     *)
FixIsYoung ==
  /\ gps_fix \in Fixes
  /\ gps_fix.valid => gps_fix.stamp < Stale /\ gps_fix.born <= gps_fix.stamp + Hold

(* What is buffered is no older than the last drain, and what is relayed   *)
(* was drained in time.                                                    *)
StreamIsYoung ==
  /\ gps_rx \in Seq(Pieces) /\ Len(gps_rx) <= RxCap
  /\ relayed_lines \in Seq(Pieces) /\ Len(relayed_lines) <= 3
  /\ unread_for \in 0..Hold
  /\ \A i \in DOMAIN gps_rx : gps_rx[i].age <= unread_for
  /\ \A i \in DOMAIN relayed_lines : relayed_lines[i].age <= Hold

(* The rest is of its kind.                                                *)
RestOK ==
  /\ gps_source \in Sources /\ geotag \in Levels \cup {0}
  /\ receiver_says \in {"fix", "lost", "garbled", "silent"}
  /\ burst_sent \in 0..(2 * Len(Burst))
  /\ asking \in {"none", "no_client", "waiting"}
  /\ call \in Refusals \cup {"none", "streaming", "coarse", "error"}
  /\ phone \in Refusals \cup {"off", "unsupported", "no_client", "waiting", "streaming",
                             "coarse", "error"}

(* Why a tag is recent.                                                    *)
GpsInv == FixIsYoung /\ StreamIsYoung /\ RestOK

(* The times of the model are numbers.                                     *)
LEMMA Times ==
  /\ Stale \in Nat /\ Stale >= 1 /\ Hold \in Nat /\ Retry \in Nat /\ Old \in Nat
  /\ Old = Stale + Hold + 1 /\ RxCap \in Nat
BY GpsAssumption DEF Old

(* A fix as it is published is younger than a drain may take.              *)
LEMMA Published ==
  ASSUME FixIsYoung, NEW verdict, NEW born \in 0..Old, born <= Hold,
         gps_publish_fix(verdict, born)
  PROVE  FixIsYoung'
<1> USE DEF FixIsYoung, Fixes
<1>1. CASE verdict = "fix"
  <2>1. gps_fix' = [valid |-> TRUE, stamp |-> 0, born |-> born]
    BY <1>1 DEF gps_publish_fix
  <2> QED BY <2>1, Times
<1>2. CASE verdict = "lost"
  <2>1. gps_fix' = [valid |-> FALSE, stamp |-> Old, born |-> Old]
    BY <1>2 DEF gps_publish_fix, NoFix
  <2> QED BY <2>1, Times
<1>3. CASE verdict \notin {"fix", "lost"}
  <2>1. gps_fix' = gps_fix
    BY <1>3 DEF gps_publish_fix
  <2> QED BY <2>1
<1> QED BY <1>1, <1>2, <1>3

(* A set of places in a list has a last one.                               *)
LEMMA LastPlace ==
  ASSUME NEW n \in Nat, NEW S \in SUBSET (1..n), S # {}
  PROVE  \E i \in S : \A j \in S : j <= i
<1> DEFINE D == {n - i : i \in S}
<1>0. \A i \in S : i \in Nat /\ n - i \in Nat
  OBVIOUS
<1>1. D \in SUBSET Nat /\ D # {}
  <2>1. D \subseteq Nat
    BY <1>0
  <2>2. D # {}
    BY Zenon
  <2> QED BY <2>1, <2>2
<1> HIDE DEF D
<1>2. Min(D) \in D /\ \A x \in D : Min(D) <= x
  BY <1>1, LeastOf
<1>3. PICK i \in S : Min(D) = n - i
  BY <1>2 DEF D
<1>4. \A j \in S : n - i <= n - j
  BY <1>2, <1>3 DEF D
<1>5. \A j \in S : j <= i
  BY <1>0, <1>4
<1> QED BY <1>5

(* What is relayed of a kind is one of the pieces that were drained.       *)
LEMMA NewestDrained ==
  ASSUME gps_rx \in Seq(Pieces), NEW t
  PROVE  /\ NewestOf(t) \in Seq(Pieces) /\ Len(NewestOf(t)) <= 1
         /\ \A k \in DOMAIN NewestOf(t) : \E i \in DOMAIN gps_rx : NewestOf(t)[k] = gps_rx[i]
<1> DEFINE S == {i \in Ended : gps_rx[i].type = t}
<1>1. S \in SUBSET (1..Len(gps_rx)) /\ Len(gps_rx) \in Nat
  BY DEF Ended
<1>2. CASE S = {}
  <2>1. NewestOf(t) = <<>>
    BY <1>2 DEF NewestOf
  <2> QED BY <2>1
<1>3. CASE S # {}
  <2>1. \E i \in S : \A j \in S : j <= i
    BY <1>1, <1>3, LastPlace
  <2>2. PICK i \in S : i = CHOOSE k \in S : \A j \in S : j <= k
    BY <2>1
  <2>3. NewestOf(t) = <<gps_rx[i]>>
    BY <1>3, <2>2 DEF NewestOf
  <2>4. i \in DOMAIN gps_rx /\ gps_rx[i] \in Pieces
    BY <1>1, <2>2
  <2> HIDE DEF S
  <2> QED BY <2>3, <2>4
<1> QED BY <1>2, <1>3

(* So is all that is relayed, in three lines at most.                      *)
LEMMA RelayedDrained ==
  ASSUME gps_rx \in Seq(Pieces)
  PROVE  /\ Relayed \in Seq(Pieces) /\ Len(Relayed) <= 3
         /\ \A k \in DOMAIN Relayed : \E i \in DOMAIN gps_rx : Relayed[k] = gps_rx[i]
<1>1. PICK a, b, c : a = NewestOf(Order[1]) /\ b = NewestOf(Order[2]) /\ c = NewestOf(Order[3])
  OBVIOUS
<1>2. /\ a \in Seq(Pieces) /\ Len(a) <= 1 /\ b \in Seq(Pieces) /\ Len(b) <= 1
      /\ c \in Seq(Pieces) /\ Len(c) <= 1
      /\ \A k \in DOMAIN a : \E i \in DOMAIN gps_rx : a[k] = gps_rx[i]
      /\ \A k \in DOMAIN b : \E i \in DOMAIN gps_rx : b[k] = gps_rx[i]
      /\ \A k \in DOMAIN c : \E i \in DOMAIN gps_rx : c[k] = gps_rx[i]
  BY <1>1, NewestDrained
<1>3. Relayed = (a \o b) \o c
  BY <1>1 DEF Relayed
<1>4. /\ a \o b \in Seq(Pieces) /\ Len(a \o b) = Len(a) + Len(b)
      /\ \A k \in 1..(Len(a) + Len(b)) :
           (a \o b)[k] = IF k <= Len(a) THEN a[k] ELSE b[k - Len(a)]
  BY <1>2, ConcatProperties
<1>5. \A k \in DOMAIN (a \o b) : \E i \in DOMAIN gps_rx : (a \o b)[k] = gps_rx[i]
  <2> TAKE k \in DOMAIN (a \o b)
  <2>1. k \in 1..(Len(a) + Len(b)) /\ Len(a) \in Nat /\ Len(b) \in Nat
    BY <1>2, <1>4
  <2>2. CASE k <= Len(a)
    BY <1>2, <1>4, <2>1, <2>2
  <2>3. CASE ~(k <= Len(a))
    <3>1. k - Len(a) \in DOMAIN b
      BY <1>2, <2>1, <2>3
    <3> QED BY <1>2, <1>4, <2>1, <2>3, <3>1
  <2> QED BY <2>2, <2>3
<1>6. PICK ab \in Seq(Pieces) : ab = a \o b
  BY <1>4
<1>7. /\ ab \o c \in Seq(Pieces) /\ Len(ab \o c) = Len(ab) + Len(c)
      /\ \A k \in 1..(Len(ab) + Len(c)) :
           (ab \o c)[k] = IF k <= Len(ab) THEN ab[k] ELSE c[k - Len(ab)]
  BY <1>2, ConcatProperties
<1>8. \A k \in DOMAIN (ab \o c) : \E i \in DOMAIN gps_rx : (ab \o c)[k] = gps_rx[i]
  <2> TAKE k \in DOMAIN (ab \o c)
  <2>1. k \in 1..(Len(ab) + Len(c)) /\ Len(ab) \in Nat /\ Len(c) \in Nat
    BY <1>2, <1>7
  <2>2. CASE k <= Len(ab)
    BY <1>5, <1>6, <1>7, <2>1, <2>2
  <2>3. CASE ~(k <= Len(ab))
    <3>1. k - Len(ab) \in DOMAIN c
      BY <1>2, <2>1, <2>3
    <3> QED BY <1>2, <1>7, <2>1, <2>3, <3>1
  <2> QED BY <2>2, <2>3
<1>9. Relayed = ab \o c
  BY <1>3, <1>6
<1>10. Len(a) \in Nat /\ Len(b) \in Nat /\ Len(c) \in Nat
  BY <1>2
<1>11. Len(ab \o c) <= 3
  <2>1. Len(ab) = Len(a) + Len(b) /\ Len(ab \o c) = Len(ab) + Len(c)
    BY <1>4, <1>6, <1>7
  <2>2. Len(a) <= 1 /\ Len(b) <= 1 /\ Len(c) <= 1
    BY <1>2
  <2> QED BY <1>10, <2>1, <2>2
<1> QED BY <1>7, <1>8, <1>9, <1>11

(* A piece as it is sent.                                                  *)
LEMMA SentPiece ==
  ASSUME RestOK, receiver_says # "silent", burst_sent < 2 * Len(Burst)
  PROVE  Piece(burst_sent + 1) \in Pieces /\ Piece(burst_sent + 1).age = 0
<1>1. PICK n \in Nat, b \in Nat : n = Len(Burst) /\ b = burst_sent /\ b < 2 * n
  BY GpsAssumption DEF RestOK
<1>2. (b + 2) \div 2 \in 1..n
  BY <1>1
<1>3. \A i \in 1..n : Burst[i] \in Kinds
  BY <1>1, GpsAssumption DEF Kinds
<1>4. (burst_sent + 1 + 1) \div 2 = (b + 2) \div 2
  BY <1>1
<1>5. Burst[(burst_sent + 1 + 1) \div 2] \in Kinds
  BY <1>2, <1>3, <1>4
<1>6. receiver_says \in Verdicts
  BY DEF RestOK, Verdicts
<1>7. 0 \in 0..Old
  BY Times
<1> QED BY <1>5, <1>6, <1>7 DEF Piece, Pieces

(* The receiver's side keeps it.                                           *)
LEMMA EmitKeeps == GpsInv /\ Emit => GpsInv'
<1> SUFFICES ASSUME GpsInv, Emit PROVE GpsInv'
  OBVIOUS
<1>1. /\ receiver_says # "silent" /\ burst_sent < 2 * Len(Burst)
      /\ burst_sent' = burst_sent + 1
      /\ UNCHANGED <<gps_fix, geotag, gps_source, receiver_says, relayed_lines, unread_for>>
      /\ UNCHANGED <<phone, asking, call>>
  BY DEF Emit, rpc
<1>2. PICK p \in Pieces : p = Piece(burst_sent + 1) /\ p.age = 0
  BY <1>1, SentPiece DEF GpsInv
<1>3. gps_rx' = gps_rx \/ (Len(gps_rx) < RxCap /\ gps_rx' = Append(gps_rx, p))
  <2>1. Len(gps_rx) \in Nat /\ RxCap \in Nat
    BY Times DEF GpsInv, StreamIsYoung
  <2>2. gps_rx' = IF ~gps_open \/ Len(gps_rx) >= RxCap THEN gps_rx ELSE Append(gps_rx, p)
    BY <1>2, Zenon DEF Emit
  <2>3. ~(Len(gps_rx) >= RxCap) => Len(gps_rx) < RxCap
    BY <2>1
  <2> QED BY <2>2, <2>3, Zenon
<1>4. gps_rx \in Seq(Pieces) /\ Len(gps_rx) \in Nat /\ Len(gps_rx) <= RxCap /\ unread_for \in Nat
      /\ \A i \in DOMAIN gps_rx : gps_rx[i].age <= unread_for
  BY Times DEF GpsInv, StreamIsYoung
<1>5. /\ gps_rx' \in Seq(Pieces) /\ Len(gps_rx') <= RxCap
      /\ \A i \in DOMAIN gps_rx' : gps_rx'[i].age <= unread_for
  <2>1. CASE gps_rx' = gps_rx
    BY <1>4, <2>1
  <2>2. CASE Len(gps_rx) < RxCap /\ gps_rx' = Append(gps_rx, p)
    <3>1. gps_rx' \in Seq(Pieces) /\ Len(gps_rx') = Len(gps_rx) + 1
          /\ gps_rx'[Len(gps_rx) + 1] = p /\ \A i \in 1..Len(gps_rx) : gps_rx'[i] = gps_rx[i]
      BY <1>4, <2>2, AppendProperties
    <3>2. \A i \in 1..(Len(gps_rx) + 1) : i = Len(gps_rx) + 1 \/ i \in 1..Len(gps_rx)
      BY <1>4
    <3>3. 0 <= unread_for
      BY <1>4
    <3>4. \A i \in 1..(Len(gps_rx) + 1) : gps_rx'[i].age <= unread_for
      BY <1>2, <1>4, <3>1, <3>2, <3>3
    <3>5. Len(gps_rx) + 1 <= RxCap
      BY <1>4, <2>2, Times
    <3> QED BY <3>1, <3>4, <3>5
  <2> QED BY <1>3, <2>1, <2>2
<1>6. burst_sent' \in 0..(2 * Len(Burst))
  BY <1>1, GpsAssumption DEF GpsInv, RestOK
<1>7. StreamIsYoung'
  BY <1>1, <1>5 DEF GpsInv, StreamIsYoung
<1>8. RestOK'
  BY <1>1, <1>6 DEF GpsInv, RestOK
<1>9. FixIsYoung'
  BY <1>1 DEF GpsInv, FixIsYoung
<1> QED BY <1>7, <1>8, <1>9 DEF GpsInv

(* So does the worker on the Flipper's own pins.                           *)
LEMMA WorkerKeeps == GpsInv /\ gps_worker => GpsInv'
<1> SUFFICES ASSUME GpsInv, gps_worker PROVE GpsInv'
  OBVIOUS
<1>1. /\ gps_rx # <<>> /\ gps_rx' = Tail(gps_rx)
      /\ unread_for' = IF Len(gps_rx) = 1 THEN 0 ELSE unread_for
      /\ UNCHANGED <<geotag, gps_source, receiver_says, burst_sent, relayed_lines>>
      /\ UNCHANGED <<phone, asking, call>>
  BY DEF gps_worker, rpc, receiver
<1>2. gps_rx \in Seq(Pieces) /\ Len(gps_rx) \in Nat /\ Len(gps_rx) <= RxCap
      /\ unread_for \in 0..Hold /\ \A i \in DOMAIN gps_rx : gps_rx[i].age <= unread_for
  BY DEF GpsInv, StreamIsYoung
<1>3. PICK p \in Pieces : p = Head(gps_rx) /\ p.age <= unread_for
  BY <1>1, <1>2
<1>4. /\ gps_rx' \in Seq(Pieces) /\ Len(gps_rx') = Len(gps_rx) - 1
      /\ \A i \in 1..(Len(gps_rx) - 1) : gps_rx'[i] = gps_rx[i + 1]
  BY <1>1, <1>2
<1>5. Len(gps_rx') <= RxCap /\ unread_for' \in 0..Hold
  BY <1>1, <1>2, <1>4, Times
<1>6. \A i \in DOMAIN gps_rx' : gps_rx'[i].age <= unread_for'
  <2> SUFFICES ASSUME NEW i \in DOMAIN gps_rx' PROVE gps_rx'[i].age <= unread_for'
    OBVIOUS
  <2>1. i \in 1..(Len(gps_rx) - 1)
    BY <1>4
  <2>2. i + 1 \in DOMAIN gps_rx /\ Len(gps_rx) # 1
    BY <1>2, <2>1
  <2> QED BY <1>1, <1>2, <1>4, <2>1, <2>2
<1>7. FixIsYoung'
  <2>1. CASE Completed(gps_line, Head(gps_rx))
    <3>1. gps_publish_fix(p.verdict, p.age)
      BY <1>3, <2>1 DEF gps_worker
    <3>2. p.age \in 0..Old /\ p.age <= Hold
      BY <1>2, <1>3, Times DEF Pieces
    <3> QED BY <3>1, <3>2, Published DEF GpsInv
  <2>2. CASE ~Completed(gps_line, Head(gps_rx))
    <3>1. gps_fix' = gps_fix
      BY <2>2 DEF gps_worker
    <3> QED BY <3>1 DEF GpsInv, FixIsYoung
  <2> QED BY <2>1, <2>2
<1>8. StreamIsYoung'
  BY <1>1, <1>4, <1>5, <1>6 DEF GpsInv, StreamIsYoung
<1>9. RestOK'
  BY <1>1 DEF GpsInv, RestOK
<1> QED BY <1>7, <1>8, <1>9 DEF GpsInv

(* So does the companion: it relays pieces of its last drain.              *)
LEMMA PollKeeps == GpsInv /\ gps_poll => GpsInv'
<1> SUFFICES ASSUME GpsInv, gps_poll PROVE GpsInv'
  OBVIOUS
<1>1. /\ relayed_lines' = Relayed /\ gps_rx' = <<>> /\ unread_for' = 0
      /\ UNCHANGED <<geotag, gps_source, receiver_says, burst_sent, gps_fix>>
      /\ UNCHANGED <<phone, asking, call>>
  BY DEF gps_poll, rpc, receiver
<1>2. gps_rx \in Seq(Pieces) /\ unread_for \in 0..Hold
      /\ \A i \in DOMAIN gps_rx : gps_rx[i].age <= unread_for
  BY DEF GpsInv, StreamIsYoung
<1>3. /\ Relayed \in Seq(Pieces) /\ Len(Relayed) <= 3
      /\ \A k \in DOMAIN Relayed : \E i \in DOMAIN gps_rx : Relayed[k] = gps_rx[i]
  BY <1>2, RelayedDrained
<1>4. \A k \in DOMAIN Relayed : Relayed[k].age <= Hold
  <2> TAKE k \in DOMAIN Relayed
  <2>1. PICK i \in DOMAIN gps_rx : Relayed[k] = gps_rx[i]
    BY <1>3
  <2>2. gps_rx[i].age \in Nat /\ gps_rx[i].age <= unread_for
    <3>1. gps_rx[i] \in Pieces
      BY <1>2
    <3> QED BY <1>2, <3>1, Times DEF Pieces
  <2> QED BY <1>2, <2>1, <2>2, Times
<1>5. gps_rx' \in Seq(Pieces) /\ Len(gps_rx') = 0 /\ DOMAIN gps_rx' = {}
  BY <1>1
<1>6. StreamIsYoung'
  BY <1>1, <1>3, <1>4, <1>5, Times DEF StreamIsYoung
<1>7. RestOK' /\ FixIsYoung'
  BY <1>1 DEF GpsInv, RestOK, FixIsYoung
<1> QED BY <1>6, <1>7 DEF GpsInv

(* And the line that reaches the app, or does not.                         *)
LEMMA RelayKeeps == GpsInv /\ Relay => GpsInv'
<1> SUFFICES ASSUME GpsInv, Relay PROVE GpsInv'
  OBVIOUS
<1>1. /\ relayed_lines # <<>> /\ relayed_lines' = Tail(relayed_lines)
      /\ UNCHANGED <<geotag, gps_source, receiver_says, burst_sent, gps_rx, unread_for>>
      /\ UNCHANGED <<phone, asking, call>>
  BY DEF Relay, rpc, receiver
<1>2. relayed_lines \in Seq(Pieces) /\ Len(relayed_lines) \in Nat /\ Len(relayed_lines) <= 3
      /\ \A i \in DOMAIN relayed_lines : relayed_lines[i].age <= Hold
  BY DEF GpsInv, StreamIsYoung
<1>3. PICK p \in Pieces : p = Head(relayed_lines) /\ p.age <= Hold
  BY <1>1, <1>2
<1>4. /\ relayed_lines' \in Seq(Pieces) /\ Len(relayed_lines') = Len(relayed_lines) - 1
      /\ \A i \in 1..(Len(relayed_lines) - 1) : relayed_lines'[i] = relayed_lines[i + 1]
  BY <1>1, <1>2
<1>5. Len(relayed_lines') <= 3
  BY <1>2, <1>4
<1>6. \A i \in DOMAIN relayed_lines' : relayed_lines'[i].age <= Hold
  <2> SUFFICES ASSUME NEW i \in DOMAIN relayed_lines' PROVE relayed_lines'[i].age <= Hold
    OBVIOUS
  <2>1. i \in 1..(Len(relayed_lines) - 1)
    BY <1>4
  <2>2. i + 1 \in DOMAIN relayed_lines
    BY <1>2, <2>1
  <2> QED BY <1>2, <1>4, <2>1, <2>2
<1>7. FixIsYoung'
  <2>1. gps_publish_fix(p.verdict, p.age) \/ gps_fix' = gps_fix
    BY <1>3 DEF Relay
  <2>2. p.age \in 0..Old
    BY DEF Pieces
  <2>3. CASE gps_publish_fix(p.verdict, p.age)
    BY <1>3, <2>2, <2>3, Published DEF GpsInv
  <2>4. CASE gps_fix' = gps_fix
    BY <2>4 DEF GpsInv, FixIsYoung
  <2> QED BY <2>1, <2>3, <2>4
<1>8. StreamIsYoung'
  BY <1>1, <1>4, <1>5, <1>6 DEF GpsInv, StreamIsYoung
<1>9. RestOK'
  BY <1>1 DEF GpsInv, RestOK
<1> QED BY <1>7, <1>8, <1>9 DEF GpsInv

(* A second passes: the fix, and what is buffered, grow older.             *)
LEMMA SecondKeeps == GpsInv /\ GpsSecond => GpsInv'
<1> SUFFICES ASSUME GpsInv, GpsSecond PROVE GpsInv'
  OBVIOUS
<1>1. /\ gps_rx # <<>> => unread_for < Hold
      /\ gps_fix' = Aged(gps_fix)
      /\ gps_rx' = [i \in DOMAIN gps_rx |-> Older(gps_rx[i])]
      /\ unread_for' = IF gps_rx = <<>> THEN 0 ELSE unread_for + 1
      /\ burst_sent' = 0
      /\ UNCHANGED <<geotag, gps_source, receiver_says, relayed_lines, phone, asking, call>>
  BY DEF GpsSecond
<1>2. gps_rx \in Seq(Pieces) /\ Len(gps_rx) \in Nat /\ Len(gps_rx) <= RxCap
      /\ unread_for \in 0..Hold /\ \A i \in DOMAIN gps_rx : gps_rx[i].age <= unread_for
  BY DEF GpsInv, StreamIsYoung
<1>3. \A n \in 0..Old : Capped(n + 1, Old) \in 0..Old /\ Capped(n + 1, Old) <= n + 1
  BY Times DEF Capped
<1>4. \A p \in Pieces : Older(p) \in Pieces /\ Older(p).age <= p.age + 1
  <2> TAKE p \in Pieces
  <2>1. p.age \in 0..Old
    BY DEF Pieces
  <2>2. PICK n \in 0..Old : n = Capped(p.age + 1, Old) /\ n <= p.age + 1
    BY <1>3, <2>1
  <2>3. Older(p) = [p EXCEPT !.age = n]
    BY <2>2, Zenon DEF Older
  <2> QED BY <2>2, <2>3 DEF Pieces
<1>5. gps_rx' \in Seq(Pieces) /\ Len(gps_rx') = Len(gps_rx)
      /\ \A i \in 1..Len(gps_rx) : gps_rx'[i] = Older(gps_rx[i])
  <2> DEFINE aged == [i \in 1..Len(gps_rx) |-> Older(gps_rx[i])]
  <2>1. gps_rx' = aged
    BY <1>1, <1>2
  <2>2. \A i \in 1..Len(gps_rx) : Older(gps_rx[i]) \in Pieces
    BY <1>2, <1>4
  <2>3. aged \in [1..Len(gps_rx) -> Pieces]
    BY <2>2
  <2>4. \A i \in 1..Len(gps_rx) : aged[i] = Older(gps_rx[i])
    OBVIOUS
  <2> HIDE DEF aged
  <2>5. aged \in Seq(Pieces) /\ Len(aged) = Len(gps_rx)
    BY <1>2, <2>3
  <2> QED BY <2>1, <2>4, <2>5
<1>6. unread_for' \in 0..Hold
  BY <1>1, <1>2, Times
<1>7. \A i \in DOMAIN gps_rx' : gps_rx'[i].age <= unread_for'
  <2> SUFFICES ASSUME NEW i \in DOMAIN gps_rx' PROVE gps_rx'[i].age <= unread_for'
    OBVIOUS
  <2>1. i \in 1..Len(gps_rx)
    BY <1>5
  <2>2. gps_rx[i] \in Pieces /\ gps_rx[i].age <= unread_for
    BY <1>2, <2>1
  <2>3. gps_rx # <<>> /\ gps_rx'[i] = Older(gps_rx[i])
    BY <1>2, <1>5, <2>1
  <2>4. gps_rx[i].age \in Nat /\ Older(gps_rx[i]).age \in Nat
        /\ Older(gps_rx[i]).age <= gps_rx[i].age + 1
    BY <1>4, <2>2, Times DEF Pieces
  <2>5. unread_for' = unread_for + 1 /\ unread_for \in Nat
    BY <1>1, <1>2, <2>3, Times
  <2> QED BY <2>2, <2>3, <2>4, <2>5
<1>8. FixIsYoung'
  <2>1. CASE gps_fix.valid /\ gps_fix.stamp + 1 < Stale
    <3>1. /\ gps_fix.stamp \in 0..Old /\ gps_fix.born \in 0..Old
          /\ gps_fix.born <= gps_fix.stamp + Hold
      BY <2>1 DEF GpsInv, FixIsYoung, Fixes
    <3>2. PICK b \in 0..Old : b = Capped(gps_fix.born + 1, Old) /\ b <= gps_fix.born + 1
      BY <1>3, <3>1
    <3>3. PICK s \in 0..Old : s = gps_fix.stamp + 1 /\ s < Stale
      BY <2>1, <3>1, Times
    <3>4. gps_fix' = [gps_fix EXCEPT !.stamp = s, !.born = b]
      BY <1>1, <2>1, <3>2, <3>3, Zenon DEF Aged
    <3>5. gps_fix \in Fixes
      BY DEF GpsInv, FixIsYoung
    <3>6. gps_fix' \in Fixes /\ gps_fix'.stamp = s /\ gps_fix'.born = b
      BY <3>4, <3>5 DEF Fixes
    <3>7. b <= s + Hold
      BY <3>1, <3>2, <3>3, Times
    <3> QED BY <3>3, <3>6, <3>7 DEF FixIsYoung
  <2>2. CASE ~(gps_fix.valid /\ gps_fix.stamp + 1 < Stale)
    <3>1. gps_fix' = NoFix
      BY <1>1, <2>2, Zenon DEF Aged
    <3>2. NoFix \in Fixes /\ NoFix.valid = FALSE
      BY Times DEF NoFix, Fixes
    <3> QED BY <3>1, <3>2 DEF FixIsYoung
  <2> QED BY <2>1, <2>2
<1>9. StreamIsYoung'
  BY <1>1, <1>2, <1>5, <1>6, <1>7 DEF GpsInv, StreamIsYoung
<1>10. RestOK'
  <2>1. 0 \in 0..(2 * Len(Burst))
    BY GpsAssumption
  <2> QED BY <1>1, <2>1 DEF GpsInv, RestOK
<1> QED BY <1>8, <1>9, <1>10 DEF GpsInv

(* Where the buffer is emptied, or stays as it is, the stream stays young. *)
LEMMA StreamCleared ==
  ASSUME StreamIsYoung,
         \/ UNCHANGED <<gps_rx, unread_for>>
         \/ gps_rx' = <<>> /\ unread_for' = 0,
         relayed_lines' = relayed_lines \/ relayed_lines' = <<>>
  PROVE  StreamIsYoung'
<1>1. gps_rx' \in Seq(Pieces) /\ Len(gps_rx') <= RxCap /\ unread_for' \in 0..Hold
      /\ \A i \in DOMAIN gps_rx' : gps_rx'[i].age <= unread_for'
  <2>1. CASE UNCHANGED <<gps_rx, unread_for>>
    BY <2>1 DEF StreamIsYoung
  <2>2. CASE gps_rx' = <<>> /\ unread_for' = 0
    <3>1. gps_rx' \in Seq(Pieces) /\ Len(gps_rx') = 0 /\ DOMAIN gps_rx' = {}
      BY <2>2
    <3> QED BY <2>2, <3>1, Times
  <2> QED BY <2>1, <2>2
<1>2. relayed_lines' \in Seq(Pieces) /\ Len(relayed_lines') <= 3
      /\ \A i \in DOMAIN relayed_lines' : relayed_lines'[i].age <= Hold
  <2>1. CASE relayed_lines' = relayed_lines
    BY <2>1 DEF StreamIsYoung
  <2>2. CASE relayed_lines' = <<>>
    <3>1. relayed_lines' \in Seq(Pieces) /\ Len(relayed_lines') = 0 /\ DOMAIN relayed_lines' = {}
      BY <2>2
    <3> QED BY <3>1
  <2> QED BY <2>1, <2>2
<1> QED BY <1>1, <1>2 DEF StreamIsYoung

(* What the phone answers is a fix of now, or none.                        *)
LEMMA PhoneKeeps == GpsInv /\ (Sample \/ Refuse) => GpsInv'
<1> SUFFICES ASSUME GpsInv, Sample \/ Refuse PROVE GpsInv'
  OBVIOUS
<1>1. UNCHANGED <<stream, geotag, gps_source, receiver, phone, asking>>
  BY DEF Sample, Refuse
<1>2. \E v : gps_publish_fix(v, 0)
  BY DEF Sample, Refuse
<1>3. call' \in Refusals \cup {"streaming", "coarse", "error"}
  BY DEF Sample, Refuse
<1>4. 0 \in 0..Old /\ 0 <= Hold
  BY Times
<1>5. FixIsYoung'
  BY <1>2, <1>4, Published DEF GpsInv
<1>6. StreamIsYoung'
  BY <1>1, StreamCleared DEF GpsInv, stream
<1>7. RestOK'
  BY <1>1, <1>3 DEF GpsInv, RestOK, receiver
<1> QED BY <1>5, <1>6, <1>7 DEF GpsInv

(* The steps that publish nothing and buffer nothing.                      *)
LEMMA OtherKeeps ==
  GpsInv /\ (\/ Sky \/ Record \/ gps_rpc_tick \/ CallEnds \/ Pairing \/ Sight
             \/ scan_session_gps_start \/ scan_session_gps_stop \/ UNCHANGED gps_vars) => GpsInv'
<1> SUFFICES ASSUME GpsInv,
                    \/ Sky \/ Record \/ gps_rpc_tick \/ CallEnds \/ Pairing \/ Sight
                    \/ scan_session_gps_start \/ scan_session_gps_stop \/ UNCHANGED gps_vars
             PROVE  GpsInv'
  OBVIOUS
<1>1. UNCHANGED <<gps_fix, gps_source, burst_sent>>
  BY DEF Sky, Record, gps_rpc_tick, CallEnds, Pairing, Sight, scan_session_gps_start,
     scan_session_gps_stop, gps_vars, receiver
<1>2. /\ \/ UNCHANGED <<gps_rx, unread_for>>
         \/ gps_rx' = <<>> /\ unread_for' = 0
      /\ relayed_lines' = relayed_lines \/ relayed_lines' = <<>>
  BY DEF Sky, Record, gps_rpc_tick, CallEnds, Pairing, Sight, scan_session_gps_start,
     scan_session_gps_stop, gps_link_start, gps_link_stop, gps_vars, stream
<1>3. receiver_says' \in {"fix", "lost", "garbled", "silent"}
  BY DEF Sky, Record, gps_rpc_tick, CallEnds, Pairing, Sight, scan_session_gps_start,
     scan_session_gps_stop, gps_vars, receiver, GpsInv, RestOK
<1>4. geotag' \in Levels \cup {0}
  BY DEF Sky, Record, gps_rpc_tick, CallEnds, Pairing, Sight, scan_session_gps_start,
     scan_session_gps_stop, gps_vars, GpsInv, RestOK
<1>5. asking' \in {"none", "no_client", "waiting"}
  BY DEF Sky, Record, gps_rpc_tick, CallEnds, Pairing, Sight, scan_session_gps_start,
     scan_session_gps_stop, gps_vars, rpc, gps_rpc_request, gps_rpc_start, GpsInv, RestOK
<1>6. call' \in Refusals \cup {"none", "streaming", "coarse", "error"}
  BY DEF Sky, Record, gps_rpc_tick, CallEnds, Pairing, Sight, scan_session_gps_start,
     scan_session_gps_stop, gps_vars, rpc, GpsInv, RestOK
<1>7. phone' \in Refusals \cup {"off", "unsupported", "no_client", "waiting", "streaming",
                             "coarse", "error"}
  BY DEF Sky, Record, gps_rpc_tick, CallEnds, Pairing, Sight, scan_session_gps_start,
     scan_session_gps_stop, gps_vars, rpc, gps_rpc_start, gps_rpc_stop, GpsInv, RestOK
<1>8. StreamIsYoung'
  BY <1>2, StreamCleared DEF GpsInv
<1>9. FixIsYoung'
  BY <1>1 DEF GpsInv, FixIsYoung
<1>10. RestOK'
  BY <1>1, <1>3, <1>4, <1>5, <1>6, <1>7 DEF GpsInv, RestOK
<1> QED BY <1>8, <1>9, <1>10 DEF GpsInv

(* Every step keeps the fix young.                                         *)
LEMMA StepGps == GpsInv /\ [GpsNext]_gps_vars => GpsInv'
BY EmitKeeps, WorkerKeeps, PollKeeps, RelayKeeps, SecondKeeps, PhoneKeeps, OtherKeeps
   DEF GpsNext, GpsApp

(* The source starts without a fix.                                        *)
LEMMA GpsStarts == GpsInit => GpsInv
<1> SUFFICES ASSUME GpsInit PROVE GpsInv
  OBVIOUS
<1>1. /\ <<>> \in Seq(Pieces) /\ Len(<<>>) = 0 /\ DOMAIN <<>> = {}
      /\ 0 \in 0..Hold /\ 0 \in 0..(2 * Len(Burst)) /\ 0 <= RxCap
  BY Times, GpsAssumption
<1>2. StreamIsYoung
  BY <1>1 DEF GpsInit, StreamIsYoung
<1>3. FixIsYoung
  BY Times DEF GpsInit, FixIsYoung, NoFix, Fixes
<1>4. RestOK
  BY <1>1 DEF GpsInit, RestOK
<1> QED BY <1>2, <1>3, <1>4 DEF GpsInv

(* Whatever the receiver, the wire or the phone does, no detection is      *)
(* tagged with a position older than the expiry and one drain's delay.     *)
THEOREM TagsAreRecent == GpsSpec => TagIsRecent
<1>1. GpsInv /\ [GpsNext]_gps_vars => [geotag' # geotag => gps_fix.born <= Stale + Hold]_gps_vars
  <2> SUFFICES ASSUME GpsInv, [GpsNext]_gps_vars, geotag' # geotag
               PROVE  gps_fix.born <= Stale + Hold
    OBVIOUS
  <2>1. Sight
    BY DEF GpsNext, GpsApp, gps_vars, Emit, Sky, gps_worker, gps_poll, Relay, Record, gps_rpc_tick,
       CallEnds, Sample, Refuse, Pairing, scan_session_gps_start, scan_session_gps_stop, GpsSecond
  <2>2. gps_fix.valid
    BY <2>1 DEF Sight, TagDue
  <2>3. /\ gps_fix.stamp \in 0..Old /\ gps_fix.born \in 0..Old
        /\ gps_fix.stamp < Stale /\ gps_fix.born <= gps_fix.stamp + Hold
    BY <2>2 DEF GpsInv, FixIsYoung, Fixes
  <2> QED BY <2>3, Times
<1> QED BY <1>1, GpsStarts, StepGps, PTL DEF GpsSpec, TagIsRecent

(* The sources, the buffers and the fix keep their shape.                  *)
THEOREM GpsKeepsShape == GpsSpec => []GpsTypeOK
<1>1. GpsInv => GpsTypeOK
  <2> SUFFICES ASSUME GpsInv PROVE GpsTypeOK
    OBVIOUS
  <2>1. Len(Order) = 3
    BY DEF Order
  <2>2. gps_fix.valid \in BOOLEAN /\ gps_fix.stamp \in 0..Old /\ gps_fix.born \in 0..Old
    BY DEF GpsInv, FixIsYoung, Fixes
  <2> QED BY <2>1, <2>2 DEF GpsInv, StreamIsYoung, RestOK, GpsTypeOK
<1> QED BY <1>1, GpsStarts, StepGps, PTL DEF GpsSpec

-----------------------------------------------------------------------------
(* The settings, for any boards, items and failures.                       *)

ThePin == "esp_gps_pin"

(* The items by name.                                                      *)
LEMMA KeysAre ==
  Keys = {"backend", "esp_band", "esp_uart", "gps_uart", "esp_baud", "gps_baud", "marauder_cmd",
          "gps_enabled", "gps_source", "esp_gps_pin", "sound", "flash_fast", "log_serials",
          "alert_mode", "alert_min_conf", "save_hits", "esp_auto_5v", "card_autodismiss"}
BY SMTT(30) DEF Keys, FileOrder, ToSet

(* Each has one place in the file.                                         *)
LEMMA OnePlaceEach ==
  /\ DOMAIN FileOrder = 1..18
  /\ \A i, j \in 1..18 : FileOrder[i] = FileOrder[j] => i = j
BY SMTT(30) DEF FileOrder

(* What the screen offers of an item other than the pin.                   *)
LEMMA OffersAre ==
  \A k \in Keys \ {ThePin} :
    ToSet(Offers(k)) = IF k \in Switches THEN {0, 1} ELSE Accepts(k)
<1>1. /\ ToSet(<<0, 1>>) = {0, 1} /\ ToSet(<<0, 1, 2>>) = 0..2 /\ ToSet(<<0, 1, 2, 3>>) = 0..3
      /\ ToSet(<<115200, 921600>>) = {115200, 921600}
      /\ ToSet(<<9600, 115200, 57600>>) = {9600, 57600, 115200}
  BY DEF ToSet
<1> QED BY <1>1, KeysAre, SMTT(30) DEF ThePin, Offers, Switches, Accepts, Pairs

(* The defaults are among them.                                            *)
LEMMA DefaultsFit ==
  /\ \A k \in Keys \ {ThePin} : Defaults[k] \in IF k \in Switches THEN {0, 1} ELSE Accepts(k)
  /\ Defaults[ThePin] = 16
BY KeysAre, SMTT(30) DEF ThePin, Defaults, Switches, Accepts, Pairs

(* A set of places has a last one.                                         *)
LEMMA LastOf ==
  ASSUME NEW n \in Nat, NEW S \in SUBSET (1..n), S # {}
  PROVE  \E i \in S : \A j \in S : j <= i
<1> DEFINE T == {n - i : i \in S}
<1>1. T \in SUBSET Nat /\ T # {}
  <2>1. \A i \in S : n - i \in Nat
    OBVIOUS
  <2> QED BY <2>1
<1>2. Min(T) \in T /\ \A x \in T : Min(T) <= x
  BY <1>1, LeastOf
<1>3. PICK i \in S : Min(T) = n - i
  BY <1>2
<1>4. \A j \in S : n - i <= n - j
  BY <1>2, <1>3
<1> QED BY <1>4

(* What can be in force.                                                   *)
Fitting ==
  {s \in [Keys -> Int] :
     /\ \A k \in Keys \ {ThePin} : s[k] \in IF k \in Switches THEN {0, 1} ELSE Accepts(k)
     /\ s[ThePin] \in 0..47}

FileLines == Keys \X Int

(* The kinds of item.                                                      *)
LEMMA ItemKinds ==
  /\ ThePin \in Keys /\ ThePin \notin Switches \cup Pairs
  /\ Switches \cap Pairs = {} /\ Switches \subseteq Keys /\ Pairs \subseteq Keys
<1>1. ThePin \in Keys /\ ThePin \notin Switches \cup Pairs
  BY KeysAre DEF ThePin, Switches, Pairs
<1>2. Switches \cap Pairs = {}
  BY DEF Switches, Pairs
<1>3. Switches \subseteq Keys /\ Pairs \subseteq Keys
  BY KeysAre DEF Switches, Pairs
<1> QED BY <1>1, <1>2, <1>3

(* The pins the loader takes.                                              *)
LEMMA PinsTaken == \A p \in Int : p \in Accepts(ThePin) <=> p \in 2..47 /\ p # 3
BY DEF ThePin, Accepts, Pairs

(* The values it takes of an item that is no switch.                       *)
LEMMA TakenValues ==
  /\ \A k \in Keys \ Switches : Accepts(k) \subseteq Int
  /\ \A k \in Pairs : Accepts(k) = {0, 1} /\ Defaults[k] \in {0, 1}
<1>1. \A k \in Keys \ Switches : Accepts(k) \subseteq Int
  BY KeysAre, SMTT(30) DEF Switches, Accepts, Pairs
<1>2. \A k \in Pairs : Accepts(k) = {0, 1}
  BY SMTT(30) DEF Pairs, Accepts
<1>3. \A k \in Pairs : Defaults[k] \in {0, 1}
  BY <1>2, DefaultsFit, ItemKinds
<1> QED BY <1>1, <1>2, <1>3

(* A line that applies leaves a value that fits.                           *)
LEMMA LineFits ==
  ASSUME NEW x \in FileLines, Applies(x)
  PROVE  recon_settings_apply_kv(x) \in IF x[1] \in Switches THEN {0, 1} ELSE Accepts(x[1])
<1>1. x[1] \in Keys
  BY DEF FileLines
<1>2. CASE x[1] \in Switches
  BY <1>2, ItemKinds DEF recon_settings_apply_kv
<1>3. CASE x[1] \in Pairs
  BY <1>3, ItemKinds, TakenValues DEF recon_settings_apply_kv
<1>4. CASE x[1] \notin Switches \cup Pairs
  BY <1>4 DEF recon_settings_apply_kv, Applies
<1> QED BY <1>2, <1>3, <1>4

(* Whatever the file says, what is loaded fits.                            *)
LEMMA LoadedFits ==
  ASSUME NEW file \in Seq(FileLines)
  PROVE  LoadedFrom(file) \in Fitting
<1> DEFINE Is(k) == {i \in DOMAIN file : file[i][1] = k /\ Applies(file[i])}
           Final(k) == CHOOSE i \in Is(k) : \A j \in Is(k) : j <= i
           Value(k) == IF Is(k) = {} THEN Defaults[k] ELSE recon_settings_apply_kv(file[Final(k)])
<1>1. LoadedFrom(file) = [k \in Keys |-> Value(k)]
  BY DEF LoadedFrom
<1>2. ASSUME NEW k \in Keys, Is(k) # {}
      PROVE  Value(k) \in IF k \in Switches THEN {0, 1} ELSE Accepts(k)
  <2>1. Is(k) \in SUBSET (1..Len(file)) /\ Len(file) \in Nat
    OBVIOUS
  <2>2. \E i \in Is(k) : \A j \in Is(k) : j <= i
    BY <1>2, <2>1, LastOf
  <2>3. Final(k) \in Is(k)
    BY <2>2
  <2>4. file[Final(k)] \in FileLines /\ file[Final(k)][1] = k /\ Applies(file[Final(k)])
    BY <2>3
  <2> QED BY <1>2, <2>4, LineFits
<1>3. ASSUME NEW k \in Keys \ {ThePin}
      PROVE  Value(k) \in IF k \in Switches THEN {0, 1} ELSE Accepts(k)
  BY <1>2, DefaultsFit
<1>4. Value(ThePin) \in Accepts(ThePin) \cup {16}
  BY <1>2, DefaultsFit, ItemKinds
<1> HIDE DEF Value
<1>5. Value(ThePin) \in 0..47
  <2>1. Accepts(ThePin) \subseteq Int
    BY ItemKinds, TakenValues
  <2>2. ASSUME NEW p \in Accepts(ThePin) PROVE p \in 0..47
    <3>1. p \in Int
      BY <2>1
    <3>2. p \in 2..47
      BY <3>1, PinsTaken, Zenon
    <3> QED BY <3>2
  <2> QED BY <1>4, <2>2
<1>6. \A k \in Keys : Value(k) \in Int
  <2>1. ASSUME NEW k \in Keys, k # ThePin PROVE Value(k) \in Int
    BY <1>3, <2>1, TakenValues
  <2> QED BY <2>1, <1>5
<1> QED BY <1>1, <1>3, <1>5, <1>6, ItemKinds DEF Fitting

(* What a whole save leaves is read back, item by item, but for a pin that *)
(* is not taken.                                                           *)
LEMMA WrittenIsRead ==
  ASSUME NEW s \in Fitting, NEW k \in Keys
  PROVE  \/ LoadedFrom(WrittenLines(s))[k] = s[k]
         \/ k = ThePin /\ s[k] \in {0, 1, 3}
<1> DEFINE file == WrittenLines(s)
           Is == {i \in DOMAIN file : file[i][1] = k /\ Applies(file[i])}
<1>1. PICK n \in 1..18 : FileOrder[n] = k
  BY OnePlaceEach DEF Keys, ToSet
<1>2. DOMAIN file = 1..18 /\ \A i \in 1..18 : file[i] = <<FileOrder[i], s[FileOrder[i]]>>
  BY OnePlaceEach DEF WrittenLines
<1>3. file[n] = <<k, s[k]>>
  BY <1>1, <1>2
<1> HIDE DEF file
<1>4. \A i \in DOMAIN file : file[i][1] = k => i = n
  BY <1>1, <1>2, OnePlaceEach
<1>5. CASE Applies(file[n])
  <2>1. Is = {n}
    BY <1>2, <1>3, <1>4, <1>5
  <2>2. (CHOOSE i \in Is : \A j \in Is : j <= i) = n
    BY <2>1
  <2>3. LoadedFrom(file)[k] = recon_settings_apply_kv(file[n])
    BY <2>1, <2>2 DEF LoadedFrom
  <2>4. recon_settings_apply_kv(<<k, s[k]>>) = s[k]
    <3>1. CASE k \in Switches
      BY <3>1, ItemKinds DEF recon_settings_apply_kv, Fitting
    <3>2. CASE k \in Pairs
      BY <3>2, ItemKinds DEF recon_settings_apply_kv, Fitting
    <3>3. CASE k \notin Switches \cup Pairs
      BY <3>3 DEF recon_settings_apply_kv
    <3> QED BY <3>1, <3>2, <3>3
  <2> QED BY <2>3, <2>4, <1>3 DEF file
<1>6. CASE ~Applies(file[n])
  <2>1. k \notin Switches \cup Pairs /\ s[k] \notin Accepts(k)
    BY <1>3, <1>6 DEF Applies
  <2>2. k = ThePin
    BY <2>1 DEF Fitting
  <2>3. s[ThePin] \in 0..47
    BY DEF Fitting
  <2> QED BY <2>1, <2>2, <2>3, PinsTaken
<1> QED BY <1>5, <1>6

(* A file is made of lines, whole or cut short.                            *)
LEMMA WrittenAreLines ==
  ASSUME NEW s \in Fitting
  PROVE  /\ WrittenLines(s) \in Seq(FileLines)
         /\ CutShort(WrittenLines(s)) \subseteq Seq(FileLines)
<1> DEFINE w == WrittenLines(s)
<1>1. w \in Seq(FileLines) /\ Len(w) = 18
  <2>1. \A i \in 1..18 : FileOrder[i] \in Keys
    BY OnePlaceEach DEF Keys, ToSet
  <2>2. \A i \in 1..18 : <<FileOrder[i], s[FileOrder[i]]>> \in FileLines
    BY <2>1 DEF Fitting, FileLines
  <2>3. w = [i \in 1..18 |-> <<FileOrder[i], s[FileOrder[i]]>>]
    BY OnePlaceEach DEF WrittenLines
  <2>4. w \in Seq(FileLines)
    BY <2>2, <2>3, SMT
  <2>5. Len(w) = 18
    BY <2>3
  <2> QED BY <2>4, <2>5
<1> HIDE DEF w
<1>2. \A i \in 1..18 : w[i] \in FileLines
  BY <1>1, ElementOfSeq
<1>3. ASSUME NEW n \in 0..18 PROVE SubSeq(w, 1, n) \in Seq(FileLines)
  <2>1. 1 \in Int /\ n \in Int /\ \A i \in 1..n : w[i] \in FileLines
    BY <1>2
  <2> QED BY <2>1, SubSeqProperties
<1>4. ASSUME NEW n \in 0..17, NEW v \in Leading(w[n + 1][2])
      PROVE  Append(SubSeq(w, 1, n), <<w[n + 1][1], v>>) \in Seq(FileLines)
  <2>1. w[n + 1] \in FileLines
    BY <1>2
  <2>2. v \in Int
    <3>1. w[n + 1][2] \in Int
      BY <2>1 DEF FileLines
    <3> QED BY <3>1 DEF Leading
  <2>3. <<w[n + 1][1], v>> \in FileLines
    BY <2>1, <2>2 DEF FileLines
  <2>4. SubSeq(w, 1, n) \in Seq(FileLines)
    BY <1>3
  <2> QED BY <2>3, <2>4
<1>5. CutShort(w) \subseteq Seq(FileLines)
  <2> SUFFICES ASSUME NEW f \in CutShort(w) PROVE f \in Seq(FileLines)
    OBVIOUS
  <2>1. CASE \E n \in 0..Len(w) : f = SubSeq(w, 1, n)
    BY <2>1, <1>1, <1>3
  <2>2. CASE \E n \in 0..(Len(w) - 1) : \E v \in Leading(w[n + 1][2]) :
               f = Append(SubSeq(w, 1, n), <<w[n + 1][1], v>>)
    <3>1. Len(w) - 1 = 17
      BY <1>1
    <3> QED BY <2>2, <3>1, <1>4
  <2> QED BY <2>1, <2>2, Zenon DEF CutShort
<1> QED BY <1>1, <1>5 DEF w

(* What holds of the settings: those in force fit, the pins listed are     *)
(* pins, and the file is one that a save or a cut leaves.  What is kept of *)
(* a whole save is part of it, because a relaunch starts from the file.    *)
SettingsInv ==
  /\ settings \in Fitting
  /\ settings_file \in Seq(FileLines)
  /\ plugged \in Boards
  /\ pin_mask = {} \/ \E b \in Boards : pin_mask = gps_usable_mask(b)
  /\ \A i \in DOMAIN pin_list : pin_list[i] \in 0..47
  /\ SettingsAreKept

(* A board's pins are pins the loader may have to do with.                 *)
LEMMA UsablePins ==
  ASSUME NEW b \in Boards
  PROVE  gps_usable_mask(b) \subseteq 0..47
<1>1. b.count \in 0..48
  BY SettingsAssumption
<1>2. ASSUME NEW p \in gps_usable_mask(b) PROVE p \in 0..47
  BY <1>1 DEF gps_usable_mask, gps_pin_reject
<1> QED BY <1>2

(* Every list has pins only, and one for a board that has reported any     *)
(* begins with one of its own.                                             *)
LEMMA ListedPins ==
  ASSUME SettingsInv, NEW s \in PinLists
  PROVE  /\ \A i \in DOMAIN s : s[i] \in 0..47
         /\ pin_mask # {} => s[1] \in pin_mask
<1>1. pin_mask \subseteq 0..47
  BY UsablePins DEF SettingsInv
<1>2. settings[ThePin] \in 0..47
  BY DEF SettingsInv, Fitting
<1>3. CASE pin_mask # {}
  <2>1. s \in [1..Cardinality(pin_mask) -> pin_mask]
    BY <1>3 DEF PinLists, Ascending
  <2>2. IsFiniteSet(pin_mask) /\ Cardinality(pin_mask) \in Nat
    <3>1. IsFiniteSet(0..47)
      <4>1. 0 \in Int /\ 47 \in Int
        OBVIOUS
      <4> QED BY <4>1, FS_Interval
    <3> QED BY <1>1, <3>1, FS_Subset, FS_CardinalityType
  <2>3. Cardinality(pin_mask) # 0
    BY <1>3, <2>2, FS_EmptySet
  <2>4. 1 \in 1..Cardinality(pin_mask)
    BY <2>2, <2>3
  <2> QED BY <1>1, <2>1, <2>4
<1>4. CASE pin_mask = {} /\ settings[ThePin] \in ToSet(Fallback)
  BY <1>4 DEF PinLists, Fallback, ThePin
<1>5. CASE pin_mask = {} /\ settings[ThePin] \notin ToSet(Fallback)
  <2>1. s = Append(<< 4, 5 >>, settings[ThePin])
    BY <1>5 DEF PinLists, Fallback, ThePin
  <2>2. << 4, 5 >> \in Seq(0..47)
    OBVIOUS
  <2>3. s \in Seq(0..47)
    BY <1>2, <2>1, <2>2
  <2> QED BY <1>5, <2>3, ElementOfSeq, LenProperties
<1> QED BY <1>3, <1>4, <1>5

(* The choices of a turned item fit.                                       *)
LEMMA TurnedFits ==
  ASSUME SettingsInv, NEW k \in Keys, NEW i \in DOMAIN Offers(k)
  PROVE  [settings EXCEPT ![k] = Offers(k)[i]] \in Fitting
<1>1. settings \in Fitting
  BY DEF SettingsInv
<1>2. CASE k = ThePin
  <2>1. Offers(k)[i] \in 0..47
    <3>1. Offers(k) = pin_list
      BY <1>2 DEF Offers, ThePin
    <3> QED BY <3>1 DEF SettingsInv
  <2> QED BY <1>1, <1>2, <2>1 DEF Fitting
<1>3. CASE k # ThePin
  <2>1. Offers(k)[i] \in ToSet(Offers(k))
    BY DEF ToSet
  <2>2. Offers(k)[i] \in IF k \in Switches THEN {0, 1} ELSE Accepts(k)
    BY <1>3, <2>1, OffersAre
  <2>3. Offers(k)[i] \in Int
    BY <2>2, TakenValues
  <2> DEFINE s == [settings EXCEPT ![k] = Offers(k)[i]]
  <2>4. s \in [Keys -> Int] /\ s[k] = Offers(k)[i] /\ \A j \in Keys \ {k} : s[j] = settings[j]
    BY <1>1, <2>3 DEF Fitting
  <2> HIDE DEF s
  <2>5. \A j \in Keys \ {ThePin} : s[j] \in IF j \in Switches THEN {0, 1} ELSE Accepts(j)
    <3> SUFFICES ASSUME NEW j \in Keys \ {ThePin}
                 PROVE  s[j] \in IF j \in Switches THEN {0, 1} ELSE Accepts(j)
      OBVIOUS
    <3>1. CASE j = k
      BY <2>2, <2>4, <3>1
    <3>2. CASE j # k
      BY <1>1, <2>4, <3>2 DEF Fitting
    <3> QED BY <3>1, <3>2
  <2>6. s[ThePin] \in 0..47
    BY <1>1, <1>3, <2>4, ItemKinds DEF Fitting
  <2>7. s \in Fitting
    BY <2>4, <2>5, <2>6 DEF Fitting
  <2> QED BY <2>7 DEF s
<1> QED BY <1>2, <1>3

(* After a whole save of what is in force.                                 *)
LEMMA SavedIsKept ==
  ASSUME settings' \in Fitting, settings_file' = WrittenLines(settings')
  PROVE  SettingsAreKept'
<1> SUFFICES ASSUME NEW k \in Keys
             PROVE  \/ LoadedFrom(settings_file')[k] = settings'[k]
                    \/ k = ThePin /\ \E p \in {0, 1, 3} : <<k, p>> \in ToSet(settings_file')
  BY DEF SettingsAreKept, ThePin
<1>1. CASE LoadedFrom(settings_file')[k] = settings'[k]
  BY <1>1
<1>2. CASE k = ThePin /\ settings'[k] \in {0, 1, 3}
  <2>1. PICK n \in 1..18 : FileOrder[n] = k
    BY OnePlaceEach DEF Keys, ToSet
  <2>2. n \in DOMAIN settings_file' /\ settings_file'[n] = <<k, settings'[k]>>
    BY <2>1, OnePlaceEach DEF WrittenLines
  <2>3. <<k, settings'[k]>> \in ToSet(settings_file')
    BY <2>2 DEF ToSet
  <2> QED BY <1>2, <2>3
<1> QED BY <1>1, <1>2, WrittenIsRead

(* The defaults may be in force.                                           *)
LEMMA DefaultsAreInForce == Defaults \in Fitting
<1>1. \A k \in Keys : Defaults[k] \in Int
  BY DefaultsFit, TakenValues
<1>2. Defaults \in [Keys -> Int]
  <2>1. Defaults = [k \in Keys |-> Defaults[k]]
    BY DEF Defaults
  <2> QED BY <1>1, <2>1
<1> QED BY <1>2, DefaultsFit, ItemKinds DEF Fitting

(* An item turned: the choice fits, and a save made whole holds it.        *)
LEMMA TurnKeeps ==
  ASSUME SettingsInv, NEW k \in Keys, Turn(k)
  PROVE  SettingsInv'
<1>1. PICK i \in DOMAIN Offers(k) :
        /\ settings' = [settings EXCEPT ![k] = Offers(k)[i]]
        /\ recon_settings_save(settings')
  BY DEF Turn
<1>2. UNCHANGED <<launched, settings_open, pin_list, pin_mask, plugged, stops>>
  BY DEF Turn
<1>3. settings' \in Fitting
  BY <1>1, TurnedFits
<1>4. CASE settings_file' = WrittenLines(settings') /\ saved_whole' = TRUE
  <2>1. settings_file' \in Seq(FileLines)
    BY <1>3, <1>4, WrittenAreLines
  <2>2. SettingsAreKept'
    BY <1>3, <1>4, SavedIsKept
  <2> QED BY <1>2, <1>3, <2>1, <2>2 DEF SettingsInv
<1>5. CASE /\ settings_file' \in {settings_file} \cup CutShort(WrittenLines(settings'))
           /\ saved_whole' = FALSE
  <2>1. settings_file' \in Seq(FileLines)
    BY <1>3, <1>5, WrittenAreLines DEF SettingsInv
  <2>2. SettingsAreKept'
    BY <1>5 DEF SettingsAreKept
  <2> QED BY <1>2, <1>3, <2>1, <2>2 DEF SettingsInv
<1> QED BY <1>1, <1>4, <1>5 DEF recon_settings_save

(* The screen is opened: a pin that gives way is one a board has not got,  *)
(* and it was in force, so either it is what a relaunch finds or that was  *)
(* excused before.                                                         *)
LEMMA EnterKeeps ==
  ASSUME SettingsInv, recon_scene_settings_on_enter
  PROVE  SettingsInv'
<1>1. /\ pin_list' \in PinLists
      /\ settings' = IF pin_mask # {} /\ settings[ThePin] \notin pin_mask
                     THEN [settings EXCEPT ![ThePin] = pin_list'[1]] ELSE settings
      /\ UNCHANGED <<settings_file, launched, pin_mask, plugged, saved_whole>>
  BY DEF recon_scene_settings_on_enter, recon_settings_build_gps_pins, ThePin
<1>2. \A i \in DOMAIN pin_list' : pin_list'[i] \in 0..47
  BY <1>1, ListedPins
<1>3. CASE settings' = settings
  BY <1>1, <1>2, <1>3 DEF SettingsInv, SettingsAreKept
<1>4. CASE /\ pin_mask # {} /\ settings[ThePin] \notin pin_mask
           /\ settings' = [settings EXCEPT ![ThePin] = pin_list'[1]]
  <2>1. PICK b \in Boards : pin_mask = gps_usable_mask(b)
    BY <1>4 DEF SettingsInv
  <2>2. pin_list'[1] \in 0..47
    BY <1>1, <1>4, <2>1, ListedPins, UsablePins
  <2>3. /\ settings' \in [Keys -> Int] /\ settings'[ThePin] = pin_list'[1]
        /\ \A k \in Keys \ {ThePin} : settings'[k] = settings[k]
    <3>1. settings \in [Keys -> Int]
      BY DEF SettingsInv, Fitting
    <3>2. pin_list'[1] \in Int
      BY <2>2
    <3> QED BY <1>4, <3>1, <3>2, ItemKinds
  <2>4. settings' \in Fitting
    <3>1. \A k \in Keys \ {ThePin} :
            settings[k] \in IF k \in Switches THEN {0, 1} ELSE Accepts(k)
      BY DEF SettingsInv, Fitting
    <3>2. \A k \in Keys \ {ThePin} :
            settings'[k] \in IF k \in Switches THEN {0, 1} ELSE Accepts(k)
      BY <2>3, <3>1
    <3> QED BY <2>2, <2>3, <3>2 DEF Fitting
  <2>5. SettingsAreKept'
    <3> SUFFICES ASSUME launched', saved_whole', NEW k \in Keys
                 PROVE  \/ LoadedFrom(settings_file')[k] = settings'[k]
                        \/ k = ThePin /\ \E p \in {0, 1, 3} : <<k, p>> \in ToSet(settings_file')
                        \/ k = ThePin /\ \E c \in Boards :
                             LoadedFrom(settings_file')[k] \notin gps_usable_mask(c)
      BY DEF SettingsAreKept, ThePin
    <3>1. \/ LoadedFrom(settings_file)[k] = settings[k]
          \/ k = ThePin /\ \E p \in {0, 1, 3} : <<k, p>> \in ToSet(settings_file)
          \/ k = ThePin /\ \E c \in Boards :
               LoadedFrom(settings_file)[k] \notin gps_usable_mask(c)
      BY <1>1 DEF SettingsInv, SettingsAreKept, ThePin
    <3>2. CASE k = ThePin /\ LoadedFrom(settings_file)[k] = settings[k]
      BY <1>1, <1>4, <2>1, <3>2
    <3>3. CASE k # ThePin
      BY <1>1, <2>3, <3>1, <3>3
    <3> QED BY <1>1, <3>1, <3>2, <3>3
  <2> QED BY <1>1, <1>2, <2>4, <2>5 DEF SettingsInv
<1> QED BY <1>1, <1>3, <1>4

(* Every step keeps it.                                                    *)
LEMMA StepSettings ==
  ASSUME SettingsInv, [SettingsNext]_settings_vars
  PROVE  SettingsInv'
<1>1. CASE recon_settings_load
  <2>1. settings' = LoadedFrom(settings_file)
    BY <1>1 DEF recon_settings_load
  <2>2. UNCHANGED <<settings_file, pin_list, pin_mask, plugged, saved_whole>>
    BY <1>1 DEF recon_settings_load
  <2>3. settings' \in Fitting
    BY <2>1, LoadedFits DEF SettingsInv
  <2>4. SettingsAreKept'
    BY <2>1, <2>2 DEF SettingsAreKept
  <2> QED BY <2>2, <2>3, <2>4 DEF SettingsInv
<1>2. CASE Stop
  <2>1. /\ launched' = FALSE /\ settings' = Defaults /\ pin_list' = <<>> /\ pin_mask' = {}
        /\ UNCHANGED <<settings_file, plugged, saved_whole>>
    BY <1>2 DEF Stop
  <2>2. Defaults \in Fitting
    BY DefaultsAreInForce
  <2> QED BY <2>1, <2>2 DEF SettingsInv, SettingsAreKept
<1>3. CASE recon_scene_settings_on_enter
  BY <1>3, EnterKeeps
<1>4. CASE recon_scene_settings_on_exit \/ Plug
  <2>1. /\ UNCHANGED <<settings, settings_file, launched, pin_list, pin_mask, saved_whole>>
        /\ plugged' \in Boards
    BY <1>4 DEF recon_scene_settings_on_exit, Plug, SettingsInv
  <2> QED BY <2>1 DEF SettingsInv, SettingsAreKept
<1>5. CASE \E k \in Turned : Turn(k)
  BY <1>5, TurnKeeps, SettingsAssumption
<1>6. CASE recon_app_set_chip
  <2>1. /\ pin_mask' = gps_usable_mask(plugged)
        /\ UNCHANGED <<settings, settings_file, launched, pin_list, plugged, saved_whole>>
    BY <1>6 DEF recon_app_set_chip
  <2> QED BY <2>1 DEF SettingsInv, SettingsAreKept
<1>7. CASE UNCHANGED settings_vars
  BY <1>7 DEF settings_vars, SettingsInv, SettingsAreKept
<1> QED BY <1>1, <1>2, <1>3, <1>4, <1>5, <1>6, <1>7 DEF SettingsNext

(* And the initial state has it.                                           *)
LEMMA SettingsStart == SettingsInit => SettingsInv
<1> SUFFICES ASSUME SettingsInit PROVE SettingsInv
  OBVIOUS
<1>1. settings = Defaults /\ settings_file = <<>> /\ pin_list = <<>> /\ pin_mask = {} /\ ~launched
      /\ plugged \in Boards
  BY DEF SettingsInit
<1>2. settings_file \in Seq(FileLines)
  BY <1>1
<1> QED BY <1>1, <1>2, DefaultsAreInForce DEF SettingsInv, SettingsAreKept

(* Whatever was turned, refused, cut short or relaunched, and whichever    *)
(* boards came and went, what a whole save left is what is in force and    *)
(* what a relaunch finds, but for the pins that are excused.               *)
THEOREM SettingsLast == SettingsSpec => []SettingsAreKept
<1>1. SettingsInv /\ [SettingsNext]_settings_vars => SettingsInv'
  BY StepSettings
<1>2. SettingsInv => SettingsAreKept
  BY DEF SettingsInv
<1> QED BY <1>1, <1>2, SettingsStart, PTL DEF SettingsSpec

(* The settings in force are always among those the screen offers, however *)
(* damaged the file.                                                       *)
THEOREM SettingsFit == SettingsSpec => []SettingsTypeOK
<1>1. SettingsInv /\ [SettingsNext]_settings_vars => SettingsInv'
  BY StepSettings
<1>2. SettingsInv => SettingsTypeOK
  BY OffersAre DEF SettingsInv, Fitting, SettingsTypeOK, ThePin
<1> QED BY <1>1, <1>2, SettingsStart, PTL DEF SettingsSpec

-----------------------------------------------------------------------------
(* Places.  In a strict order of finitely many things the place of one is  *)
(* the number of those before it: no two have one place, and as there are  *)
(* as many places as things, none is left empty.                           *)
Earlier(S, order, i) == {k \in S : <<k, i>> \in order}

StrictOn(S, order) ==
  /\ \A i \in S : <<i, i>> \notin order
  /\ \A i, k, m \in S : <<i, k>> \in order /\ <<k, m>> \in order => <<i, m>> \in order
  /\ \A i, k \in S : i # k => <<i, k>> \in order \/ <<k, i>> \in order

(* Fewer are before the one before.                                        *)
LEMMA FewerEarlier ==
  ASSUME NEW S, IsFiniteSet(S), NEW order, StrictOn(S, order),
         NEW i \in S, NEW k \in S, <<i, k>> \in order
  PROVE  /\ Cardinality(Earlier(S, order, i)) < Cardinality(Earlier(S, order, k))
         /\ Cardinality(Earlier(S, order, i)) \in Nat
         /\ Cardinality(Earlier(S, order, k)) \in Nat
<1>1. IsFiniteSet(Earlier(S, order, k)) /\ IsFiniteSet(Earlier(S, order, i))
  BY FS_Subset DEF Earlier
<1>2. Earlier(S, order, i) \subseteq Earlier(S, order, k) /\ i \in Earlier(S, order, k)
  BY DEF StrictOn, Earlier
<1>3. i \notin Earlier(S, order, i)
  BY DEF StrictOn, Earlier
<1>4. Earlier(S, order, i) # Earlier(S, order, k)
  BY <1>2, <1>3
<1> QED
  BY <1>1, <1>2, <1>4, FS_Subset, FS_CardinalityType

(* The order is that of the places.                                        *)
LEMMA OrderOfPlaces ==
  ASSUME NEW S, IsFiniteSet(S), NEW order, StrictOn(S, order), NEW i \in S, NEW k \in S
  PROVE  /\ <<i, k>> \in order <=>
              Cardinality(Earlier(S, order, i)) < Cardinality(Earlier(S, order, k))
         /\ Cardinality(Earlier(S, order, i)) = Cardinality(Earlier(S, order, k)) => i = k
         /\ Cardinality(Earlier(S, order, i)) \in Nat
<1>1. Cardinality(Earlier(S, order, i)) \in Nat /\ Cardinality(Earlier(S, order, k)) \in Nat
  BY FS_Subset, FS_CardinalityType DEF Earlier
<1>2. <<i, k>> \in order \/ <<k, i>> \in order \/ i = k
  BY DEF StrictOn
<1>3. <<i, k>> \in order =>
        Cardinality(Earlier(S, order, i)) < Cardinality(Earlier(S, order, k))
  BY FewerEarlier
<1>4. <<k, i>> \in order =>
        Cardinality(Earlier(S, order, k)) < Cardinality(Earlier(S, order, i))
  BY FewerEarlier
<1> QED
  BY <1>1, <1>2, <1>3, <1>4

(* Every place is taken.                                                   *)
LEMMA PlacesTaken ==
  ASSUME NEW S, IsFiniteSet(S), NEW order, StrictOn(S, order)
  PROVE  LET n == Cardinality(S)
         IN  /\ n \in Nat
             /\ [i \in S |-> Cardinality(Earlier(S, order, i))] \in Bijection(S, 0..(n - 1))
<1> DEFINE n == Cardinality(S)
           T == 0..(n - 1)
           place == [i \in S |-> Cardinality(Earlier(S, order, i))]
<1>1. n \in Nat
  BY FS_CardinalityType
<1>2. ASSUME NEW i \in S PROVE Cardinality(Earlier(S, order, i)) \in T
  <2>1. i \notin Earlier(S, order, i)
    BY DEF StrictOn, Earlier
  <2>2. Earlier(S, order, i) \in SUBSET (S \ {i})
    BY <2>1 DEF Earlier
  <2>3. IsFiniteSet(S \ {i}) /\ Cardinality(S \ {i}) = n - 1
    BY <1>1, FS_RemoveElement
  <2>4. /\ Cardinality(Earlier(S, order, i)) <= n - 1
        /\ IsFiniteSet(Earlier(S, order, i))
    BY <2>2, <2>3, FS_Subset
  <2> QED
    BY <1>1, <2>4, FS_CardinalityType
<1>3. place \in Injection(S, T)
  <2>1. place \in [S -> T]
    BY <1>2
  <2>2. \A i, k \in S : place[i] = place[k] => i = k
    BY OrderOfPlaces
  <2> QED
    BY <2>1, <2>2 DEF Injection, IsInjective
<1>4. IsFiniteSet(T) /\ Cardinality(T) = n
  BY <1>1, FS_Interval
<1>5. place \in Surjection(S, T)
  BY <1>1, <1>3, <1>4, FS_Injection
<1> QED
  BY <1>1, <1>3, <1>5 DEF Bijection

-----------------------------------------------------------------------------
(* SurveyCard.  The groups in the two logs are the last of those begun, in *)
(* their order: a rotation drops whole sessions from the front, and only   *)
(* when it leaves a full log behind.                                       *)

(* A group of rows in a log.                                               *)
Groups == [session : Nat, torn : BOOLEAN, rows : Int]

(* The groups on the card are the last of those begun; those no longer     *)
(* there made room for a full log.                                         *)
LastBegun(old, log, begun) ==
  LET gone == Len(begun) - Len(old \o log)
  IN  /\ gone \in Nat
      /\ gone = 0 \/ LogMax <= Len(old \o log)
      /\ \A i \in 1..Len(old \o log) : (old \o log)[i].session = begun[gone + i]

(* Sessions are begun once each, in order, before the one that is next.    *)
InOrder(begun, bound) ==
  /\ \A i, k \in 1..Len(begun) : i < k => begun[i] < begun[k]
  /\ \A k \in 1..Len(begun) : begun[k] <= bound

(* The session whose group is the last that may have been begun.           *)
SessionsFiled == IF at_scene = "scan" THEN session - 1 ELSE session

CardShape ==
  /\ at_scene \in {"menu", "scan", "survey", "detail"}
  /\ rows_heard \in Seq(SurveyRows)
  /\ session \in Nat /\ bad_writes \in Nat
  /\ survey_log \in Seq(Groups) /\ survey_log_old \in Seq(Groups)
  /\ filed \in Seq(Nat)

CardInv ==
  /\ CardShape
  /\ LastBegun(survey_log_old, survey_log, filed)
  /\ InOrder(filed, SessionsFiled)
  /\ SnapshotIsTheLast /\ RowIsTheOneShown

(* Counting places.                                                        *)
LEMMA OneMore == \A n \in Nat : \A i \in 1..(n + 1) : i <= n \/ i = n + 1
  OBVIOUS
LEMMA Shifted ==
  \A n, a, o, k, i \in Int : n - k = n - a + o => (n - a) + (o + i) = n - k + i
  OBVIOUS

(* A rotation leaves the last groups, whichever of its steps fails.        *)
LEMMA RotationKeeps ==
  ASSUME CardShape, LastBegun(survey_log_old, survey_log, filed), NEW r \in Rotations
  PROVE  /\ r.log \in Seq(Groups) /\ r.old \in Seq(Groups) /\ r.bad \in Nat
         /\ LastBegun(r.old, r.log, filed)
<1> USE CardAssumption DEF CardShape
<1>1. CASE r.log = survey_log /\ r.old = survey_log_old /\ r.bad \in Nat
  BY <1>1
<1>2. CASE /\ LogMax <= Len(survey_log) /\ r.bad \in Nat
           /\ \/ r.log = << >> /\ r.old = survey_log
              \/ r.log = survey_log /\ r.old = << >>
  <2> DEFINE all == survey_log_old \o survey_log
             left == r.old \o r.log
  <2>1. left = survey_log
    <3>1. survey_log \o << >> = survey_log /\ << >> \o survey_log = survey_log
      BY ConcatProperties
    <3> QED
      BY <1>2, <3>1
  <2>2. /\ all \in Seq(Groups) /\ Len(all) = Len(survey_log_old) + Len(survey_log)
        /\ \A i \in 1..Len(survey_log) : all[Len(survey_log_old) + i] = survey_log[i]
    OBVIOUS
  <2>3. /\ Len(filed) - Len(all) \in Nat
        /\ \A i \in 1..Len(all) : all[i].session = filed[(Len(filed) - Len(all)) + i]
    BY DEF LastBegun
  <2>4. /\ Len(all) \in Nat /\ Len(filed) \in Nat /\ Len(survey_log) \in Nat
        /\ Len(survey_log_old) \in Nat
    BY <2>2
  <2> HIDE DEF all, left
  <2>5. Len(filed) - Len(left) = Len(filed) - Len(all) + Len(survey_log_old)
    BY <2>1, <2>2, <2>4
  <2>6. \A i \in 1..Len(left) :
          left[i].session = filed[Len(filed) - Len(left) + i]
    <3> SUFFICES ASSUME NEW i \in 1..Len(survey_log)
                 PROVE  survey_log[i].session = filed[Len(filed) - Len(left) + i]
      BY <2>1
    <3>1. Len(survey_log_old) + i \in 1..Len(all)
      BY <2>2, <2>4
    <3>2. i \in Int /\ Len(left) = Len(survey_log)
      BY <2>1, <2>4
    <3>3. (Len(filed) - Len(all)) + (Len(survey_log_old) + i) = Len(filed) - Len(left) + i
      BY ONLY <2>4, <2>5, <3>2, Shifted
    <3> QED
      BY <2>2, <2>3, <3>1, <3>3
  <2>7. Len(filed) - Len(left) \in Nat /\ LogMax <= Len(left)
    BY <1>2, <2>1, <2>3, <2>4, <2>5
  <2>8. LastBegun(r.old, r.log, filed)
    BY <2>6, <2>7 DEF LastBegun, left
  <2>9. r.log \in Seq(Groups) /\ r.old \in Seq(Groups)
    <3>1. << >> \in Seq(Groups)
      OBVIOUS
    <3> QED
      BY <1>2, <3>1
  <2> QED
    BY <1>2, <2>8, <2>9
<1>3. CASE Len(survey_log) < LogMax
  BY <1>1, <1>3 DEF Rotations
<1>4. CASE ~(Len(survey_log) < LogMax)
  <2>1. LogMax <= Len(survey_log)
    BY <1>4
  <2>2. /\ r.bad \in Nat
        /\ \/ r.log = << >> /\ r.old = survey_log
           \/ r.log = survey_log /\ r.old = << >>
           \/ r.log = survey_log /\ r.old = survey_log_old
    BY <1>4 DEF Rotations
  <2> QED
    BY <1>1, <1>2, <2>1, <2>2
<1> QED
  BY <1>3, <1>4

(* So does the next group.                                                 *)
LEMMA GroupAdded ==
  ASSUME NEW old \in Seq(Groups), NEW log \in Seq(Groups), NEW begun \in Seq(Nat),
         LastBegun(old, log, begun), NEW g \in Groups
  PROVE  LastBegun(old, Append(log, g), Append(begun, g.session))
<1> USE CardAssumption
<1> DEFINE all == old \o log
           more == old \o Append(log, g)
           now == Append(begun, g.session)
           gone == Len(begun) - Len(all)
<1>1. /\ all \in Seq(Groups) /\ more = Append(all, g) /\ g.session \in Nat
  <2>1. all \in Seq(Groups)
    OBVIOUS
  <2>2. more = Append(all, g)
    OBVIOUS
  <2>3. g.session \in Nat
    BY DEF Groups
  <2> QED
    BY <2>1, <2>2, <2>3
<1>2. /\ Len(more) = Len(all) + 1 /\ Len(now) = Len(begun) + 1
      /\ \A i \in 1..Len(all) : more[i] = all[i]
      /\ more[Len(all) + 1] = g
      /\ \A i \in 1..Len(begun) : now[i] = begun[i]
      /\ now[Len(begun) + 1] = g.session
  BY <1>1
<1>3. /\ gone \in Nat /\ (gone = 0 \/ LogMax <= Len(all))
      /\ \A i \in 1..Len(all) : all[i].session = begun[gone + i]
  BY DEF LastBegun
<1>4. Len(now) - Len(more) = gone
  BY <1>1, <1>2
<1>5. ASSUME NEW i \in 1..Len(more)
      PROVE  more[i].session = now[gone + i]
  <2>1. CASE i <= Len(all)
    <3>1. i \in 1..Len(all) /\ gone + i \in 1..Len(begun)
      BY <1>1, <1>2, <1>3, <1>5, <2>1
    <3> QED
      BY <1>2, <1>3, <3>1
  <2>2. CASE i = Len(all) + 1
    <3>1. gone + i = Len(begun) + 1
      BY <1>1, <1>3, <2>2
    <3> QED
      BY <1>2, <2>2, <3>1
  <2> QED
    <3>1. Len(all) \in Nat
      BY <1>1
    <3>2. i \in 1..(Len(all) + 1)
      BY <1>2, <1>5
    <3>3. i <= Len(all) \/ i = Len(all) + 1
      BY <3>1, <3>2, OneMore
    <3> QED
      BY <2>1, <2>2, <3>3
<1>6. gone = 0 \/ LogMax <= Len(more)
  BY <1>1, <1>2, <1>3
<1> QED
  BY <1>3, <1>4, <1>5, <1>6 DEF LastBegun

(* An append to the log, made as a session ends, begins at most one group  *)
(* of it.                                                                  *)
LEMMA LogKeeps ==
  ASSUME CardShape, LastBegun(survey_log_old, survey_log, filed), InOrder(filed, session - 1),
         NEW bad \in Nat, recon_survey_log_append(bad)
  PROVE  /\ survey_log' \in Seq(Groups) /\ survey_log_old' \in Seq(Groups)
         /\ filed' \in Seq(Nat) /\ bad_writes' \in Nat /\ bad_writes' >= bad
         /\ LastBegun(survey_log_old, survey_log, filed)'
         /\ InOrder(filed', session)
<1>3. InOrder(filed, session)
  <2>1. \A k \in 1..Len(filed) : filed[k] \in Nat
    BY DEF CardShape
  <2> QED
    BY <2>1 DEF CardShape, InOrder
<1>1. CASE UNCHANGED <<survey_log, survey_log_old, filed>> /\ bad_writes' = bad
  <2>1. LastBegun(survey_log_old, survey_log, filed)'
    BY <1>1 DEF LastBegun
  <2> QED
    BY <1>1, <1>3, <2>1 DEF CardShape
<1>2. ASSUME NEW r \in Rotations, survey_log_old' = r.old,
             \/ survey_log' = Append(r.log, Group(r.log)) /\ bad_writes' = bad + r.bad
             \/ survey_log' = Append(r.log, TornGroup) /\ bad_writes' = bad + r.bad + 1
             \/ survey_log' = r.log /\ bad_writes' = bad + r.bad + 1,
             filed' = IF survey_log' = r.log THEN filed ELSE Append(filed, session)
      PROVE  /\ survey_log' \in Seq(Groups) /\ survey_log_old' \in Seq(Groups)
             /\ filed' \in Seq(Nat) /\ bad_writes' \in Nat /\ bad_writes' >= bad
             /\ LastBegun(survey_log_old, survey_log, filed)'
             /\ InOrder(filed', session)
  <2>1. /\ r.log \in Seq(Groups) /\ r.old \in Seq(Groups) /\ r.bad \in Nat
        /\ LastBegun(r.old, r.log, filed)
    BY RotationKeeps
  <2>2. filed \in Seq(Nat) /\ session \in Nat
    BY DEF CardShape
  <2>3. bad_writes' \in Nat /\ bad_writes' >= bad
    BY <1>2, <2>1
  <2>4. CASE survey_log' = r.log
    <3>1. filed' = filed
      BY <1>2, <2>4
    <3> QED
      <4>1. LastBegun(survey_log_old, survey_log, filed)'
        BY <1>2, <2>1, <2>4, <3>1 DEF LastBegun
      <4> QED
        BY <1>2, <1>3, <2>1, <2>2, <2>3, <2>4, <3>1, <4>1
  <2>5. CASE survey_log' # r.log
    <3>1. PICK g \in Groups : g.session = session /\ survey_log' = Append(r.log, g)
      <4>1. Group(r.log) \in Groups /\ Group(r.log).session = session
        BY <2>2 DEF CardShape, Group, Groups
      <4>2. TornGroup \in Groups /\ TornGroup.session = session
        BY <2>2 DEF TornGroup, Groups
      <4> QED
        BY <1>2, <2>5, <4>1, <4>2
    <3>2. filed' = Append(filed, g.session)
      BY <1>2, <2>5, <3>1
    <3>3. LastBegun(r.old, Append(r.log, g), Append(filed, g.session))
      BY <2>1, <2>2, GroupAdded
    <3>4. LastBegun(survey_log_old, survey_log, filed)'
      BY <1>2, <3>1, <3>2, <3>3 DEF LastBegun
    <3>5. InOrder(Append(filed, session), session)
      BY <2>2 DEF InOrder
    <3> QED
      BY <1>2, <2>1, <2>2, <2>3, <3>1, <3>2, <3>4, <3>5
  <2> QED
    BY <2>4, <2>5
<1> QED
  BY <1>1, <1>2 DEF recon_survey_log_append

(* What a step leaves alone it leaves in order.                            *)
LEMMA LogAlone ==
  ASSUME UNCHANGED <<survey_log, survey_log_old, filed>>,
         LastBegun(survey_log_old, survey_log, filed)
  PROVE  LastBegun(survey_log_old, survey_log, filed)'
  BY DEF LastBegun

(* Sessions start, rows arrive, the snapshot is rewritten, the tables go.  *)
LEMMA SessionKeeps ==
  ASSUME CardInv,
         \/ StartSession \/ (\E r \in SurveyRows : RowArrives(r)) \/ AutosaveDue
         \/ recon_survey_autosave_tick \/ TablesGone
  PROVE  CardInv'
<1> USE DEF CardInv, CardShape, on_card, shown, SessionsFiled, InOrder
<1>1. CASE StartSession
  <2>1. CardShape' /\ SnapshotIsTheLast' /\ RowIsTheOneShown'
    BY <1>1 DEF StartSession, SnapshotIsTheLast, RowIsTheOneShown
  <2>2. InOrder(filed, SessionsFiled)'
    BY <1>1 DEF StartSession
  <2> QED BY <1>1, <2>1, <2>2, LogAlone DEF StartSession
<1>2. ASSUME NEW r \in SurveyRows, RowArrives(r) PROVE CardInv'
  <2>3. rows_heard' \in Seq(SurveyRows)
    <3>1. CASE rows_heard' = Append(rows_heard, r)
      BY <3>1
    <3>2. ASSUME NEW i \in DOMAIN rows_heard, rows_heard' = [rows_heard EXCEPT ![i] = r]
          PROVE  rows_heard' \in Seq(SurveyRows)
      BY <3>2
    <3> QED BY <1>2, <3>1, <3>2 DEF RowArrives
  <2>1. CardShape' /\ SnapshotIsTheLast' /\ RowIsTheOneShown'
    BY <1>2, <2>3 DEF RowArrives, SnapshotIsTheLast, RowIsTheOneShown
  <2>2. InOrder(filed, SessionsFiled)'
    BY <1>2 DEF RowArrives
  <2> QED BY <1>2, <2>1, <2>2, LogAlone DEF RowArrives
<1>3. CASE AutosaveDue
  <2>1. CardShape' /\ SnapshotIsTheLast' /\ RowIsTheOneShown'
    BY <1>3 DEF AutosaveDue, SnapshotIsTheLast, RowIsTheOneShown, RowShown
  <2>2. InOrder(filed, SessionsFiled)'
    BY <1>3 DEF AutosaveDue
  <2> QED BY <1>3, <2>1, <2>2, LogAlone DEF AutosaveDue
<1>4. CASE recon_survey_autosave_tick
  <2>1. bad_writes' \in Nat
    BY <1>4 DEF recon_survey_autosave_tick, WriteSnapshot
  <2>2. CardShape' /\ SnapshotIsTheLast' /\ RowIsTheOneShown'
    BY <1>4, <2>1 DEF recon_survey_autosave_tick, SnapshotIsTheLast, RowIsTheOneShown
  <2>3. InOrder(filed, SessionsFiled)'
    BY <1>4 DEF recon_survey_autosave_tick
  <2> QED BY <1>4, <2>2, <2>3, LogAlone DEF recon_survey_autosave_tick
<1>5. CASE TablesGone
  <2>1. CardShape' /\ SnapshotIsTheLast' /\ RowIsTheOneShown'
    BY <1>5 DEF TablesGone, SnapshotIsTheLast, RowIsTheOneShown
  <2>2. InOrder(filed, SessionsFiled)'
    BY <1>5 DEF TablesGone
  <2> QED BY <1>5, <2>1, <2>2, LogAlone DEF TablesGone
<1> QED BY <1>1, <1>2, <1>3, <1>4, <1>5

(* A session ends, or the battery does.                                    *)
LEMMA EndKeeps == ASSUME CardInv, StopSession \/ CardPowerLoss PROVE CardInv'
<1>1. /\ CardShape /\ LastBegun(survey_log_old, survey_log, filed)
      /\ InOrder(filed, SessionsFiled) /\ SnapshotIsTheLast
  BY DEF CardInv
<1>2. session \in Nat /\ bad_writes \in Nat
  BY <1>1 DEF CardShape
<1>3. /\ at_scene' = "menu" /\ session' = session
      /\ rows_heard' \in {rows_heard, << >>}
  BY DEF StopSession, CardPowerLoss
<1>4. /\ survey_log' \in Seq(Groups) /\ survey_log_old' \in Seq(Groups)
      /\ filed' \in Seq(Nat) /\ bad_writes' \in Nat
      /\ LastBegun(survey_log_old, survey_log, filed)'
      /\ InOrder(filed', session)
      /\ bad_writes' = 0 => survey_csv' = Snapshot
  <2>1. ASSUME NEW bad \in Nat, recon_survey_log_append(bad), at_scene = "scan",
               bad > 0 \/ survey_csv' = Snapshot
        PROVE  /\ survey_log' \in Seq(Groups) /\ survey_log_old' \in Seq(Groups)
               /\ filed' \in Seq(Nat) /\ bad_writes' \in Nat
               /\ LastBegun(survey_log_old, survey_log, filed)'
               /\ InOrder(filed', session)
               /\ bad_writes' = 0 => survey_csv' = Snapshot
    <3>1. InOrder(filed, session - 1)
      BY <1>1, <2>1 DEF SessionsFiled
    <3>2. /\ survey_log' \in Seq(Groups) /\ survey_log_old' \in Seq(Groups)
          /\ filed' \in Seq(Nat) /\ bad_writes' \in Nat /\ bad_writes' >= bad
          /\ LastBegun(survey_log_old, survey_log, filed)'
          /\ InOrder(filed', session)
      BY <1>1, <2>1, <3>1, LogKeeps
    <3> QED BY <2>1, <3>2
  <2>2. CASE StopSession
    BY <1>2, <2>1, <2>2 DEF StopSession
  <2>3. CASE CardPowerLoss /\ UNCHANGED <<survey_log, survey_log_old, filed>>
                           /\ bad_writes' = bad_writes + 1
    <3>1. LastBegun(survey_log_old, survey_log, filed)'
      BY <1>1, <2>3, LogAlone
    <3>2. InOrder(filed', session)
      BY <1>1, <1>2, <2>3 DEF InOrder, SessionsFiled, CardShape
    <3> QED BY <1>1, <1>2, <2>3, <3>1, <3>2 DEF CardShape
  <2>4. CASE CardPowerLoss /\ recon_survey_log_append(bad_writes + 1) /\ at_scene = "scan"
    BY <1>2, <2>1, <2>4
  <2> QED BY <2>2, <2>3, <2>4 DEF CardPowerLoss
<1>5. CardShape'
  <2>1. rows_heard' \in Seq(SurveyRows)
    <3>1. << >> \in Seq(SurveyRows) /\ rows_heard \in Seq(SurveyRows)
      BY <1>1 DEF CardShape
    <3> QED BY <1>3, <3>1
  <2> QED BY <1>2, <1>3, <1>4, <2>1 DEF CardShape
<1>6. InOrder(filed, SessionsFiled)'
  BY <1>3, <1>4 DEF SessionsFiled, InOrder
<1>7. SnapshotIsTheLast' /\ RowIsTheOneShown'
  BY <1>3, <1>4 DEF SnapshotIsTheLast, RowIsTheOneShown, Snapshot
<1> QED BY <1>4, <1>5, <1>6, <1>7 DEF CardInv

(* The list is opened, a row picked, and left again.                       *)
LEMMA ListKeeps == ASSUME CardInv, OpenSurvey \/ PickRow \/ SurveyBack PROVE CardInv'
<1> USE DEF CardInv, CardShape, on_card, shown, SessionsFiled, InOrder
<1>1. UNCHANGED <<rows_heard, session, survey_csv, survey_log, survey_log_old, filed, bad_writes>>
      /\ at_scene # "scan" /\ at_scene' \in {"menu", "survey", "detail"}
  BY DEF OpenSurvey, PickRow, SurveyBack
<1>2. CardShape' /\ SnapshotIsTheLast'
  BY <1>1 DEF SnapshotIsTheLast
<1>3. InOrder(filed, SessionsFiled)'
  BY <1>1
<1>4. RowIsTheOneShown'
  BY DEF OpenSurvey, PickRow, SurveyBack, RowIsTheOneShown, RowShown
<1> QED BY <1>1, <1>2, <1>3, <1>4, LogAlone

(* Every step keeps the invariant.                                         *)
LEMMA StepCard == CardInv /\ [CardNext]_card_vars => CardInv'
<1> SUFFICES ASSUME CardInv, [CardNext]_card_vars PROVE CardInv'
  OBVIOUS
<1>1. CASE UNCHANGED card_vars
  BY <1>1, LogAlone DEF card_vars, CardInv, CardShape, InOrder, SessionsFiled, SnapshotIsTheLast,
     RowIsTheOneShown, RowShown
<1> QED BY <1>1, SessionKeeps, EndKeeps, ListKeeps DEF CardNext

(* And the initial state has it.                                           *)
LEMMA CardStart == CardInit => CardInv
  BY DEF CardInit, CardInv, CardShape, LastBegun, InOrder, SessionsFiled, SnapshotIsTheLast,
     RowIsTheOneShown, NoFile

(***************************************************************************)
(* The ranked list.  A row's place is the number of rows ahead of it.      *)
(***************************************************************************)
AheadOf(rows, i) == {k \in DOMAIN rows : Ahead(rows, k, i)}

(* Tables, or parts of one, whose rows can be scored.                      *)
Scored(rows) ==
  /\ IsFiniteSet(DOMAIN rows) /\ DOMAIN rows \subseteq Int
  /\ \A i \in DOMAIN rows : Score(rows, i) \in Int

(* It is a strict order of the rows.                                       *)
LEMMA AheadIsStrict ==
  ASSUME NEW rows, Scored(rows)
  PROVE  LET order == {p \in (DOMAIN rows) \X (DOMAIN rows) : Ahead(rows, p[1], p[2])}
         IN  /\ IsFiniteSet(DOMAIN rows) /\ StrictOn(DOMAIN rows, order)
             /\ \A i, k \in DOMAIN rows : <<i, k>> \in order <=> Ahead(rows, i, k)
             /\ \A i \in DOMAIN rows : Earlier(DOMAIN rows, order, i) = AheadOf(rows, i)
<1> DEFINE order == {p \in (DOMAIN rows) \X (DOMAIN rows) : Ahead(rows, p[1], p[2])}
<1>1. \A i, k \in DOMAIN rows : <<i, k>> \in order <=> Ahead(rows, i, k)
  OBVIOUS
<1> HIDE DEF order
<1>2. StrictOn(DOMAIN rows, order)
  BY <1>1 DEF StrictOn, Scored, Ahead
<1>3. \A i \in DOMAIN rows : Earlier(DOMAIN rows, order, i) = AheadOf(rows, i)
  BY <1>1 DEF Earlier, AheadOf
<1> QED
  BY <1>1, <1>2, <1>3 DEF Scored, order

(* So the order of the rows is that of their places.                       *)
LEMMA PlacesInOrder ==
  ASSUME NEW rows, Scored(rows), NEW i \in DOMAIN rows, NEW k \in DOMAIN rows
  PROVE  /\ Ahead(rows, i, k) <=> Cardinality(AheadOf(rows, i)) < Cardinality(AheadOf(rows, k))
         /\ Cardinality(AheadOf(rows, i)) = Cardinality(AheadOf(rows, k)) => i = k
         /\ Cardinality(AheadOf(rows, i)) \in Nat
<1> DEFINE order == {p \in (DOMAIN rows) \X (DOMAIN rows) : Ahead(rows, p[1], p[2])}
<1>1. /\ IsFiniteSet(DOMAIN rows) /\ StrictOn(DOMAIN rows, order)
      /\ <<i, k>> \in order <=> Ahead(rows, i, k)
      /\ Earlier(DOMAIN rows, order, i) = AheadOf(rows, i)
      /\ Earlier(DOMAIN rows, order, k) = AheadOf(rows, k)
  BY AheadIsStrict
<1> HIDE DEF order
<1> QED
  BY <1>1, OrderOfPlaces

(* Every place of the list has a row, every row a place.                   *)
LEMMA EveryPlace ==
  ASSUME NEW rows, Scored(rows)
  PROVE  LET n == Cardinality(DOMAIN rows)
         IN  /\ n \in Nat
             /\ \A i \in DOMAIN rows : Cardinality(AheadOf(rows, i)) \in 0..(n - 1)
             /\ \A p \in 0..(n - 1) : \E i \in DOMAIN rows : Cardinality(AheadOf(rows, i)) = p
<1> DEFINE order == {p \in (DOMAIN rows) \X (DOMAIN rows) : Ahead(rows, p[1], p[2])}
           S == DOMAIN rows
           n == Cardinality(S)
           place == [i \in S |-> Cardinality(Earlier(S, order, i))]
<1>1. /\ IsFiniteSet(S) /\ StrictOn(S, order)
      /\ \A i \in S : Earlier(S, order, i) = AheadOf(rows, i)
  BY AheadIsStrict
<1> HIDE DEF order, S
<1>2. n \in Nat /\ place \in Bijection(S, 0..(n - 1))
  BY <1>1, PlacesTaken
<1>3. \A i \in S : place[i] = Cardinality(AheadOf(rows, i))
  BY <1>1
<1> HIDE DEF place
<1>4. /\ \A i \in S : place[i] \in 0..(n - 1)
      /\ \A p \in 0..(n - 1) : \E i \in S : place[i] = p
  BY <1>2 DEF Bijection, Injection, Surjection
<1> QED
  BY <1>2, <1>3, <1>4 DEF S

(* The list shows each row at its place, and two in the order of theirs.   *)
LEMMA ListInOrder ==
  ASSUME NEW rows, Scored(rows), NEW i \in DOMAIN rows, NEW k \in DOMAIN rows
  PROVE  LET list == survey_rank(rows)
         IN  /\ \E a \in DOMAIN list : list[a] = i
             /\ Above(list, i, k) <=> Ahead(rows, i, k)
<1> DEFINE n == Cardinality(DOMAIN rows)
           list == survey_rank(rows)
           spot(r) == Cardinality(AheadOf(rows, r)) + 1
<1>1. DOMAIN list = 1..n /\ n \in Nat
  BY EveryPlace DEF survey_rank
<1>2. ASSUME NEW a \in 1..n
      PROVE  list[a] \in DOMAIN rows /\ Cardinality(AheadOf(rows, list[a])) = a - 1
  <2>1. a - 1 \in 0..(n - 1)
    BY <1>1
  <2>2. \E r \in DOMAIN rows : Cardinality(AheadOf(rows, r)) = a - 1
    BY <2>1, EveryPlace
  <2>3. list[a] = CHOOSE r \in DOMAIN rows : Cardinality(AheadOf(rows, r)) = a - 1
    BY DEF survey_rank, AheadOf
  <2> QED
    BY <2>2, <2>3
<1>3. ASSUME NEW r \in DOMAIN rows
      PROVE  spot(r) \in 1..n /\ list[spot(r)] = r
  <2>1. Cardinality(AheadOf(rows, r)) \in 0..(n - 1)
    BY EveryPlace
  <2>2. spot(r) \in 1..n /\ spot(r) - 1 = Cardinality(AheadOf(rows, r))
    BY <1>1, <2>1
  <2>3. /\ list[spot(r)] \in DOMAIN rows
        /\ Cardinality(AheadOf(rows, list[spot(r)])) = Cardinality(AheadOf(rows, r))
    BY <1>2, <2>2
  <2> QED
    BY <2>2, <2>3, PlacesInOrder
<1>4. ASSUME NEW a \in 1..n, NEW r \in DOMAIN rows, list[a] = r
      PROVE  a = spot(r)
  BY <1>2, <1>4
<1>5. Above(list, i, k) <=> spot(i) < spot(k)
  BY <1>1, <1>3, <1>4 DEF Above
<1>6. spot(i) < spot(k) <=> Ahead(rows, i, k)
  BY PlacesInOrder
<1> QED
  BY <1>1, <1>3, <1>5, <1>6

(* The scale: the most of what a table's own shapes were heard.            *)
LEMMA ScaleIs ==
  ASSUME NEW rows, \A i \in DOMAIN rows : rows[i] \in SurveyRows
  PROVE  /\ Busiest(rows) \in Nat
         /\ \A i \in DOMAIN rows :
              ~GenericRow(rows[i]) => rows[i].count \in Nat /\ rows[i].count \in 1..Busiest(rows)
<1> DEFINE counts ==
             {0} \cup {rows[i].count : i \in {k \in DOMAIN rows : ~GenericRow(rows[k])}}
           below == {UINT16_MAX - c : c \in counts}
<1>1. \A i \in DOMAIN rows : rows[i].count \in 1..UINT16_MAX
  BY CardAssumption
<1>2. counts \in SUBSET (0..UINT16_MAX) /\ 0 \in counts /\ UINT16_MAX \in Nat
  BY <1>1, CardAssumption
<1>3. below \in SUBSET Nat /\ below # {}
  <2> HIDE DEF counts
  <2>1. \A c \in counts : UINT16_MAX - c \in Nat
    BY <1>2
  <2> QED BY <1>2, <2>1
<1>4. PICK m \in below : \A x \in below : m <= x
  BY <1>3, LeastOf
<1>5. PICK c \in counts : m = UINT16_MAX - c
  BY <1>4
<1>6. \A d \in counts : UINT16_MAX - d \in below
  OBVIOUS
<1>7. \A d \in counts : d <= c
  <2> HIDE DEF counts, below
  <2> SUFFICES ASSUME NEW d \in counts PROVE d <= c
    OBVIOUS
  <2>1. m <= UINT16_MAX - d
    BY <1>4, <1>6
  <2>2. c \in Nat /\ d \in Nat /\ UINT16_MAX \in Nat
    BY <1>2
  <2> QED BY <1>5, <2>1, <2>2
<1>8. Busiest(rows) \in counts /\ \A d \in counts : d <= Busiest(rows)
  BY <1>7 DEF Busiest
<1>9. ASSUME NEW i \in DOMAIN rows, ~GenericRow(rows[i])
      PROVE  rows[i].count \in Nat /\ rows[i].count \in 1..Busiest(rows)
  <2>1. rows[i].count \in counts
    BY <1>9
  <2> QED BY <1>1, <1>2, <1>8, <2>1
<1> QED BY <1>2, <1>8, <1>9

(* A quotient of numbers is one.                                           *)
LEMMA Quotient == \A a \in Nat : \A b \in Nat \ {0} : a \div b \in Nat
  OBVIOUS

(* A score is a number, and a commodity shape has none.                    *)
LEMMA ScoreIs ==
  ASSUME NEW rows, \A i \in DOMAIN rows : rows[i] \in SurveyRows, NEW i \in DOMAIN rows
  PROVE  Score(rows, i) \in Nat /\ (GenericRow(rows[i]) => Score(rows, i) = 0)
<1>1. CASE GenericRow(rows[i])
  BY <1>1 DEF Score
<1>2. CASE ~GenericRow(rows[i])
  <2> DEFINE persistence == (rows[i].count * 45) \div Busiest(rows)
             above == rows[i].rssi + 90
             closeness == IF above <= 0 THEN 0 ELSE IF above > 35 THEN 35 ELSE above
  <2>1. rows[i].count * 45 \in Nat /\ Busiest(rows) \in Nat \ {0}
    BY <1>2, ScaleIs
  <2>2. persistence \in Nat
    BY <2>1, Quotient
  <2>3. closeness \in Nat
    BY CardAssumption
  <2>4. Score(rows, i) = persistence + closeness + (IF Rotating(rows, i) THEN 20 ELSE 0)
    BY <1>2 DEF Score
  <2> HIDE DEF persistence, closeness
  <2> QED BY <1>2, <2>2, <2>3, <2>4
<1> QED BY <1>1, <1>2

(* Rows scored among their own kind score as they do among all.            *)
LEMMA ScoredAlike ==
  ASSUME NEW rows, \A i \in DOMAIN rows : rows[i] \in SurveyRows,
         NEW mine, mine = {k \in DOMAIN rows : ~GenericRow(rows[k])}, NEW i \in mine
  PROVE  Score(Restrict(rows, mine), i) = Score(rows, i)
<1> DEFINE without == Restrict(rows, mine)
<1>1. DOMAIN without = mine /\ mine \subseteq DOMAIN rows /\ \A k \in mine : without[k] = rows[k]
  BY DEF Restrict
<1>2. {k \in DOMAIN without : ~GenericRow(without[k])} = mine
  BY <1>1
<1>3. {without[k].count : k \in mine} = {rows[k].count : k \in mine}
  BY <1>1
<1>4. Busiest(without) = Busiest(rows)
  BY <1>2, <1>3 DEF Busiest
<1>5. Rotating(without, i) <=> Rotating(rows, i)
  BY <1>1 DEF Rotating, GenericRow
<1>6. without[i] = rows[i]
  BY <1>1
<1> HIDE DEF without
<1>7. Score(without, i) = Score(rows, i)
  BY <1>4, <1>5, <1>6 DEF Score
<1> QED BY <1>7 DEF without

(* Whatever rows the companion reported.                                   *)
LEMMA RanksHold == ASSUME CardShape PROVE CommodityChangesNothing
<1> DEFINE rows == rows_heard
           order == survey_rank(rows)
           mine == {i \in DOMAIN rows : ~GenericRow(rows[i])}
           fewer == Restrict(rows, mine)
           without == survey_rank(fewer)
<1>1. /\ rows \in Seq(SurveyRows) /\ DOMAIN rows = 1..Len(rows) /\ Len(rows) \in Nat
      /\ \A i \in DOMAIN rows : rows[i] \in SurveyRows
  BY DEF CardShape
<1>2. Scored(rows)
  <2>1. IsFiniteSet(1..Len(rows))
    BY <1>1, FS_Interval
  <2>2. \A i \in DOMAIN rows : Score(rows, i) \in Int
    BY <1>1, ScoreIs
  <2>3. DOMAIN rows \subseteq Int
    BY <1>1
  <2> QED BY <1>1, <2>1, <2>2, <2>3 DEF Scored
<1>3. /\ DOMAIN fewer = mine /\ mine \subseteq DOMAIN rows
      /\ \A i \in mine : fewer[i] = rows[i] /\ Score(fewer, i) = Score(rows, i)
  BY <1>1, ScoredAlike DEF Restrict
<1>4. IsFiniteSet(mine)
  BY <1>2, <1>3, FS_Subset DEF Scored
<1>5. Scored(fewer)
  BY <1>2, <1>3, <1>4 DEF Scored
<1>6. \A i \in DOMAIN rows : \E a \in DOMAIN order : order[a] = i
  BY <1>2, ListInOrder
<1>7. ASSUME NEW i \in mine, NEW k \in mine
      PROVE  Above(order, i, k) <=> Above(without, i, k)
  <2>1. i \in DOMAIN rows /\ k \in DOMAIN rows /\ i \in DOMAIN fewer /\ k \in DOMAIN fewer
    BY <1>3
  <2>2. Above(order, i, k) <=> Ahead(rows, i, k)
    BY <1>2, <2>1, ListInOrder
  <2>3. Above(without, i, k) <=> Ahead(fewer, i, k)
    BY <1>5, <2>1, ListInOrder
  <2>4. Ahead(rows, i, k) <=> Ahead(fewer, i, k)
    BY <1>3 DEF Ahead
  <2> QED BY <2>2, <2>3, <2>4
<1>8. ASSUME NEW i \in DOMAIN rows, NEW k \in DOMAIN rows, GenericRow(rows[i]), Above(order, i, k)
      PROVE  Score(rows, k) = 0
  <2>1. Ahead(rows, i, k)
    BY <1>2, <1>8, ListInOrder
  <2>2. Score(rows, i) = 0 /\ Score(rows, k) \in Nat
    BY <1>1, <1>8, ScoreIs
  <2> QED BY <2>1, <2>2 DEF Ahead
<1> QED BY <1>6, <1>7, <1>8 DEF CommodityChangesNothing

(* The last of a longer list, and its places in that list.                 *)
LEMMA FromTheEnd ==
  ASSUME NEW n \in Nat, NEW left \in Nat, NEW gone \in Nat, gone = n - left, NEW last \in Nat
  PROVE  /\ \A i, k \in 1..left :
              i < k => gone + i \in 1..n /\ gone + k \in 1..n /\ gone + i < gone + k
         /\ \A k \in 1..n : (gone = 0 \/ last <= left) /\ n - k < last =>
              k - gone \in 1..left /\ gone + (k - gone) = k
  OBVIOUS

(* The files and the list, from the invariant.                             *)
LEMMA CardKept == CardInv => SurveyIsKept
<1> SUFFICES ASSUME CardInv PROVE SurveyIsKept
  OBVIOUS
<1> DEFINE gone == Len(filed) - Len(Filings)
<1>1. /\ Filings \in Seq(Groups) /\ filed \in Seq(Nat)
      /\ gone \in Nat /\ (gone = 0 \/ LogMax <= Len(Filings))
      /\ \A i \in 1..Len(Filings) : Filings[i].session = filed[gone + i]
  BY DEF CardInv, CardShape, LastBegun, Filings
<1>2. DOMAIN Filings = 1..Len(Filings) /\ DOMAIN filed = 1..Len(filed)
      /\ Len(Filings) \in Nat /\ Len(filed) \in Nat
  BY <1>1
<1> HIDE DEF Filings
<1>0. gone = Len(filed) - Len(Filings) /\ LogMax \in Nat
  BY CardAssumption
<1> HIDE DEF gone
<1>3. ASSUME NEW i \in DOMAIN Filings, NEW k \in DOMAIN Filings, i < k
      PROVE  Filings[i].session < Filings[k].session
  <2>1. i \in 1..Len(Filings) /\ k \in 1..Len(Filings)
    BY <1>2
  <2>2. gone + i \in 1..Len(filed) /\ gone + k \in 1..Len(filed) /\ gone + i < gone + k
    BY ONLY <1>0, <1>1, <1>2, <1>3, <2>1, FromTheEnd
  <2>3. filed[gone + i] < filed[gone + k]
    BY <2>2 DEF CardInv, InOrder
  <2> QED BY <1>1, <2>1, <2>3
<1>4. ASSUME NEW k \in DOMAIN filed, Len(filed) - k < LogMax
      PROVE  \E i \in DOMAIN Filings : Filings[i].session = filed[k]
  <2>1. k \in 1..Len(filed)
    BY <1>2
  <2>3. Len(Filings) \in Nat /\ Len(filed) \in Nat /\ gone \in Nat
    BY <1>1, <1>2
  <2>4. \A p \in 1..Len(filed) :
          (gone = 0 \/ LogMax <= Len(Filings)) /\ Len(filed) - p < LogMax =>
            p - gone \in 1..Len(Filings) /\ gone + (p - gone) = p
    BY ONLY <1>0, <2>3, FromTheEnd
  <2>2. k - gone \in 1..Len(Filings) /\ gone + (k - gone) = k
    BY <1>1, <1>4, <2>1, <2>4
  <2> QED BY <1>1, <1>2, <2>2
<1>5. EachOutingOnce
  BY <1>3, <1>4 DEF EachOutingOnce
<1> QED BY <1>5, RanksHold DEF CardInv, SurveyIsKept

(* For any rows, any sessions, and any writes refused or cut short.        *)
THEOREM SurveyKept == CardSpec => []SurveyIsKept
<1>1. CardInv /\ [CardNext]_card_vars => CardInv'
  BY StepCard
<1> QED BY <1>1, CardStart, CardKept, PTL DEF CardSpec

-----------------------------------------------------------------------------
(* SigFiles.  An append cut short leaves half a line, which the next one   *)
(* completes to something that is neither; so there are no more such lines *)
(* than appends cut short, and a value that is not in force is the end of  *)
(* one of them, or was denied its room by one.                             *)

(* The n first of a set of places; whoever is not among them comes behind  *)
(* n of them.                                                              *)
LEMMA FirstOfIs ==
  ASSUME NEW S \in SUBSET Int, IsFiniteSet(S), NEW n \in Nat
  PROVE  /\ FirstOf(S, n) \subseteq S /\ IsFiniteSet(FirstOf(S, n))
         /\ Cardinality(FirstOf(S, n)) <= n
         /\ \A i \in S \ FirstOf(S, n) :
              Cardinality(FirstOf(S, n)) = n /\ \A k \in FirstOf(S, n) : k < i
<1> DEFINE order == {p \in S \X S : p[1] < p[2]}
           m == Cardinality(S)
           place == [i \in S |-> Cardinality(Earlier(S, order, i))]
           first == FirstOf(S, n)
<1>1. \A i, k \in S : <<i, k>> \in order <=> i < k
  OBVIOUS
<1>2. \A i \in S : Earlier(S, order, i) = {k \in S : k < i}
  BY <1>1 DEF Earlier
<1> HIDE DEF order
<1>3. StrictOn(S, order)
  BY <1>1 DEF StrictOn
<1>4. m \in Nat /\ place \in Bijection(S, 0..(m - 1))
  BY <1>3, PlacesTaken
<1>5. first = {i \in S : place[i] < n}
  BY <1>2 DEF FirstOf
<1>6. \A i, k \in S : i < k <=> place[i] < place[k]
  BY <1>1, <1>3, OrderOfPlaces
<1> HIDE DEF place, first
<1>7. first \subseteq S /\ IsFiniteSet(first)
  BY <1>5, FS_Subset
<1>9. Cardinality(first) <= n
  <2>1. place \in [S -> 0..(m - 1)] /\ (\A a, b \in S : place[a] = place[b] => a = b)
    BY <1>4 DEF Bijection, Injection, IsInjective
  <2> DEFINE f == [a \in first |-> place[a]]
             T == 0..(n - 1)
  <2>6. \A a \in first : a \in S /\ place[a] < n
    BY <1>5
  <2>7. \A a \in first : place[a] \in 0..(m - 1)
    BY <2>1, <2>6
  <2>2. f \in [first -> T]
    BY <1>4, <2>6, <2>7
  <2>3. \A a, b \in first : f[a] = f[b] => a = b
    BY <1>7, <2>1
  <2> HIDE DEF f
  <2>4. f \in Injection(first, T)
    BY <2>2, <2>3 DEF Injection, IsInjective
  <2>5. IsFiniteSet(T) /\ Cardinality(T) = n
    BY FS_Interval
  <2> QED BY <2>4, <2>5, FS_Injection
<1>8. ASSUME NEW i \in S \ first
      PROVE  Cardinality(first) = n /\ \A k \in first : k < i
  <2>1. place \in [S -> 0..(m - 1)] /\ (\A a, b \in S : place[a] = place[b] => a = b)
        /\ (\A p \in 0..(m - 1) : \E a \in S : place[a] = p)
    BY <1>4 DEF Bijection, Injection, Surjection, IsInjective
  <2>2. place[i] \in 0..(m - 1) /\ ~(place[i] < n)
    BY <1>5, <1>8, <2>1
  <2>3. \A k \in first : k < i
    <3> SUFFICES ASSUME NEW k \in first PROVE k < i
      OBVIOUS
    <3>3. k \in S /\ place[k] < n
      BY <1>5
    <3>1. k \in S /\ place[k] < n /\ place[k] \in 0..(m - 1)
      BY <2>1, <3>3
    <3>2. place[k] < place[i]
      BY <2>2, <3>1
    <3> QED BY <1>6, <1>8, <3>1, <3>2
  <2> DEFINE f == [a \in first |-> place[a]]
             T == 0..(n - 1)
  <2>10. \A a \in first : a \in S /\ place[a] < n
    BY <1>5
  <2>11. \A a \in first : place[a] \in 0..(m - 1)
    BY <2>1, <2>10
  <2>4. f \in [first -> T]
    BY <1>4, <2>10, <2>11
  <2>5. \A a, b \in first : f[a] = f[b] => a = b
    BY <1>7, <2>1
  <2>6. \A p \in T : \E a \in first : f[a] = p
    <3> SUFFICES ASSUME NEW p \in T PROVE \E a \in first : f[a] = p
      OBVIOUS
    <3>1. p \in 0..(m - 1) /\ p < n
      BY <1>4, <2>2
    <3> QED BY <1>5, <2>1, <3>1
  <2> HIDE DEF f
  <2>7. f \in Bijection(first, T)
    BY <2>4, <2>5, <2>6 DEF Bijection, Injection, Surjection, IsInjective
  <2>8. Cardinality(T) = Cardinality(first)
    BY <1>7, <2>7, FS_Bijection DEF ExistsBijection
  <2>9. Cardinality(T) = n
    BY FS_Interval
  <2> QED BY <2>3, <2>8, <2>9
<1> QED BY <1>7, <1>8, <1>9 DEF first

(* What the app is taught, and lines of pieces of it.                      *)
Values == {Fp(f) : f \in Fingerprints} \cup {Mac(m) : m \in Pins}
LinePieces == (Fingerprints \cup Pins \cup {"#"}) \X Nat
LearnedLines == [text : Seq(LinePieces), ended : BOOLEAN]

(* A file of lines of which only the last may be unfinished.               *)
LinesOf(file) ==
  /\ file \in Seq(LearnedLines)
  /\ \A i \in DOMAIN file : file[i].text # <<>>
  /\ \A i \in DOMAIN file : ~file[i].ended => i = Len(file)

(* The lines that were completed behind half another.                      *)
Joined(file) == {i \in DOMAIN file : file[i].ended /\ Len(file[i].text) > 1}

(* Whoever has a line has a first.                                         *)
LEMMA FirstHasPlace ==
  ASSUME NEW file, LinesOf(file), NEW i \in DOMAIN file
  PROVE  \E k \in DOMAIN file :
           /\ k <= i /\ file[k].text = file[i].text
           /\ \A d : sig_learned_parse_line(file[i]) = d => k \in Firsts(file, d)
<1> DEFINE S == {k \in DOMAIN file : file[k].text = file[i].text}
<1>1. DOMAIN file = 1..Len(file) /\ Len(file) \in Nat
  BY DEF LinesOf
<1>2. S \in SUBSET Nat /\ i \in S
  BY <1>1
<1>3. PICK k \in S : \A m \in S : k <= m
  BY <1>2, LeastOf
<1>4. k \in DOMAIN file /\ k <= i /\ file[k].text = file[i].text
  BY <1>2, <1>3
<1>5. \A m \in 1..(k - 1) : file[m].text # file[k].text
  BY <1>1, <1>3
<1>6. sig_learned_parse_line(file[k]) = sig_learned_parse_line(file[i])
  BY <1>4 DEF sig_learned_parse_line
<1> QED BY <1>4, <1>5, <1>6 DEF Firsts

(* No two of the lines taken say the same.                                 *)
LEMMA FirstsDiffer ==
  ASSUME NEW file, LinesOf(file), NEW d, NEW i \in Firsts(file, d), NEW k \in Firsts(file, d),
         file[i].text = file[k].text
  PROVE  i = k
<1>1. i \in 1..Len(file) /\ k \in 1..Len(file) /\ Len(file) \in Nat
  BY DEF LinesOf, Firsts
<1>2. \A m \in 1..(k - 1) : file[m].text # file[k].text
  BY DEF Firsts
<1>3. \A m \in 1..(i - 1) : file[m].text # file[i].text
  BY DEF Firsts
<1>4. ~(i < k)
  BY <1>1, <1>2
<1>5. ~(k < i)
  BY <1>1, <1>3
<1> QED BY <1>1, <1>4, <1>5

(* Where a value finds no room, those that did are as many as there is     *)
(* room for, and each is a taught one or a joined line.                    *)
LEMMA NoRoom ==
  ASSUME NEW file, LinesOf(file),
         NEW T, IsFiniteSet(T),
         \A k \in DOMAIN file : file[k].ended /\ Len(file[k].text) = 1 => file[k].text \in T,
         NEW table, IsFiniteSet(DOMAIN table), NEW d,
         Cardinality(DOMAIN table) + Cardinality(T) <= Cap,
         NEW i \in DOMAIN file, file[i].ended, sig_learned_parse_line(file[i]) = d,
         file[i].text \notin Folded(table, sig_lines_read(file, d, Cap))
  PROVE  Cardinality(T) <=
           Cardinality(Joined(file))
             + Cardinality(T \cap Folded(table, sig_lines_read(file, d, Cap)))
<1> USE FilesAssumption
<1> DEFINE F == Firsts(file, d)
           got == sig_lines_read(file, d, Cap)
           G == FirstOf(F, Cap)
           new == {k \in G : file[k].text \notin Range(table)}
           used == Cardinality(DOMAIN table)
           room == Cap - used
           K == FirstOf(new, room)
           known == Folded(table, got)
<1>1. /\ DOMAIN file = 1..Len(file) /\ Len(file) \in Nat
      /\ \A k \in DOMAIN file : file[k].text \in Seq(LinePieces) /\ file[k].text # << >>
  <2>1. file \in Seq(LearnedLines) /\ \A k \in DOMAIN file : file[k].text # << >>
    BY DEF LinesOf
  <2>2. DOMAIN file = 1..Len(file) /\ Len(file) \in Nat
    BY <2>1
  <2>3. \A k \in DOMAIN file : file[k] \in LearnedLines
    BY <2>1
  <2>4. \A l \in LearnedLines : l.text \in Seq(LinePieces)
    BY DEF LearnedLines
  <2> QED BY <2>1, <2>2, <2>3, <2>4
<1>2. F \in SUBSET Int /\ IsFiniteSet(F)
  <2>1. IsFiniteSet(1..Len(file)) /\ F \subseteq 1..Len(file)
    BY <1>1, FS_Interval DEF Firsts
  <2> QED BY <2>1, FS_Subset
<1>3. /\ G \subseteq F /\ IsFiniteSet(G)
      /\ \A k \in F \ G : Cardinality(G) = Cap /\ \A m \in G : m < k
  BY <1>2, FirstOfIs
<1>4. /\ used \in Nat /\ Cardinality(T) \in Nat /\ room \in Nat
      /\ Cardinality(T) <= room
  BY FS_CardinalityType
<1>5. DOMAIN got = G /\ \A k \in G : got[k] = file[k].text
  BY DEF sig_lines_read
<1>6. known = Range(table) \cup {file[k].text : k \in K}
  <2>1. {k \in DOMAIN got : got[k] \notin Range(table)} = new
    BY <1>5
  <2>2. new \subseteq G
    OBVIOUS
  <2> HIDE DEF got, G, new
  <2>3. known = Range(table) \cup {got[k] : k \in FirstOf(new, room)}
    BY <2>1 DEF Folded
  <2>4. FirstOf(new, room) \subseteq G
    BY <2>2 DEF FirstOf
  <2> QED BY <1>5, <2>3, <2>4
<1> HIDE DEF F, G, got, used, known
<1>7. new \in SUBSET Int /\ IsFiniteSet(new) /\ new \subseteq G
  BY <1>2, <1>3, FS_Subset
<1> HIDE DEF new, room
<1>8. /\ K \subseteq new /\ IsFiniteSet(K)
      /\ \A k \in new \ K : Cardinality(K) = room /\ \A m \in K : m < k
  BY <1>4, <1>7, FirstOfIs
<1>13. Cardinality(K) <= room /\ Cardinality(K) \in Nat
  BY <1>4, <1>7, <1>8, FirstOfIs, FS_CardinalityType
<1> HIDE DEF K
<1>9. PICK first \in F : first <= i /\ file[first].text = file[i].text
  BY FirstHasPlace DEF F
<1>10. \A a, b \in F : file[a].text = file[b].text => a = b
  BY FirstsDiffer DEF F
<1>11. first \notin K /\ file[first].text \notin Range(table)
  BY <1>6, <1>9 DEF known, got
<1>12. Cardinality(K) = room /\ \A m \in K : m < first
  <2>1. CASE first \in G
    <3>1. first \in new \ K
      BY <1>11, <2>1 DEF new
    <3> QED BY <1>8, <3>1
  <2>2. CASE first \notin G
    <3>1. Cardinality(G) = Cap /\ \A m \in G : m < first
      BY <1>3, <1>9, <2>2
    <3> DEFINE old == G \ new
               f == [k \in old |-> file[k].text]
    <3>2. f \in [old -> Range(table)]
      BY DEF new
    <3>3. \A a, b \in old : f[a] = f[b] => a = b
      BY <1>3, <1>10
    <3>4. f \in Injection(old, Range(table))
      <4> HIDE DEF f, old
      <4> QED BY <3>2, <3>3 DEF Injection, IsInjective
    <3>5. [x \in DOMAIN table |-> table[x]] \in Surjection(DOMAIN table, Range(table))
      BY DEF Surjection, Range
    <3>6. IsFiniteSet(Range(table)) /\ Cardinality(Range(table)) <= used
      BY <3>5, FS_Surjection DEF used
    <3> HIDE DEF f
    <3>7. IsFiniteSet(old) /\ Cardinality(old) <= Cardinality(Range(table))
      BY <3>4, <3>6, FS_Injection
    <3>8. Cardinality(old) = Cardinality(G) - Cardinality(G \cap new) /\ G \cap new = new
      BY <1>3, <1>7, FS_Difference
    <3>9. /\ Cardinality(old) \in Nat /\ Cardinality(Range(table)) \in Nat
          /\ Cardinality(new) \in Nat /\ Cardinality(K) \in Nat
      BY <1>7, <1>8, <3>6, <3>7, FS_CardinalityType
    <3>10. Cardinality(old) = Cap - Cardinality(new)
      BY <3>1, <3>8
    <3> HIDE DEF old
    <3>11. Cardinality(new) >= room
      BY <1>4, <3>6, <3>7, <3>9, <3>10 DEF room
    <3>12. CASE new \ K # {}
      BY <1>3, <1>7, <1>8, <3>1, <3>12
    <3>13. CASE new \ K = {}
      <4>1. K = new
        BY <1>8, <3>13
      <4> QED BY <1>4, <1>7, <1>13, <3>1, <3>9, <3>11, <4>1
    <3> QED BY <3>12, <3>13
  <2> QED BY <2>1, <2>2
<1>14. K \subseteq F /\ K \subseteq DOMAIN file
  BY <1>3, <1>7, <1>8 DEF F, Firsts
<1>15. \A k \in K : file[k].ended
  <2> SUFFICES ASSUME NEW k \in K PROVE file[k].ended
    OBVIOUS
  <2>1. k < first /\ first <= i /\ k \in 1..Len(file) /\ i \in 1..Len(file) /\ first \in Int
    BY <1>1, <1>2, <1>9, <1>12, <1>14
  <2>2. k # Len(file)
    <3>1. \A a, b, c, n \in Int : a < b /\ b <= c /\ c <= n => a # n
      OBVIOUS
    <3>2. i \in Int /\ i <= Len(file) /\ Len(file) \in Int /\ k \in Int
      BY <1>1, <2>1
    <3> QED BY <2>1, <3>1, <3>2
  <2> QED BY <1>1, <2>1, <2>2 DEF LinesOf
<1> DEFINE J == Joined(file)
           plain == K \ J
           f == [k \in plain |-> file[k].text]
<1>16. IsFiniteSet(J) /\ IsFiniteSet(plain) /\ Cardinality(J) \in Nat /\ Cardinality(plain) \in Nat
  <2>1. IsFiniteSet(1..Len(file)) /\ J \subseteq 1..Len(file)
    BY <1>1, FS_Interval DEF Joined
  <2>2. IsFiniteSet(J) /\ IsFiniteSet(plain)
    BY <1>8, <2>1, FS_Subset
  <2> QED BY <2>2, FS_CardinalityType
<1>17. \A k \in plain : file[k].text \in T \cap known
  <2> SUFFICES ASSUME NEW k \in plain PROVE file[k].text \in T \cap known
    OBVIOUS
  <2>1. k \in DOMAIN file /\ file[k].ended /\ ~(Len(file[k].text) > 1)
    BY <1>14, <1>15 DEF Joined
  <2>2. Len(file[k].text) = 1
    <3>1. file[k].text \in Seq(LinePieces) /\ file[k].text # << >>
      BY <1>1, <2>1
    <3>2. Len(file[k].text) \in Nat /\ Len(file[k].text) # 0
      BY <3>1
    <3>3. \A n \in Nat : n # 0 /\ ~(n > 1) => n = 1
      OBVIOUS
    <3> QED BY <2>1, <3>2, <3>3
  <2> QED BY <1>6, <2>1, <2>2
<1>18. Cardinality(plain) <= Cardinality(T \cap known)
  <2>1. f \in [plain -> T \cap known]
    BY <1>17
  <2>2. \A a, b \in plain : f[a] = f[b] => a = b
    BY <1>10, <1>14
  <2> HIDE DEF f, plain
  <2>3. f \in Injection(plain, T \cap known)
    BY <2>1, <2>2 DEF Injection, IsInjective
  <2>4. IsFiniteSet(T \cap known)
    BY FS_Intersection
  <2> QED BY <2>3, <2>4, FS_Injection
<1>19. Cardinality(plain) = Cardinality(K) - Cardinality(K \cap J)
  BY <1>8, FS_Difference
<1>20. Cardinality(K \cap J) <= Cardinality(J) /\ Cardinality(K \cap J) \in Nat
       /\ Cardinality(T \cap known) \in Nat
  BY <1>16, FS_Intersection, FS_CardinalityType
<1> HIDE DEF J, plain
<1>21. Cardinality(T) <= Cardinality(J) + Cardinality(T \cap known)
  BY <1>4, <1>12, <1>13, <1>16, <1>18, <1>19, <1>20
<1> QED BY <1>21 DEF J, known, got

(* What a line ends in.                                                    *)
Ending(line) == line.text[Len(line.text)]

(* Every finished line ends in a taught value, every taught value ends one. *)
Owned(file, T) ==
  /\ LinesOf(file) /\ T \in SUBSET Values /\ IsFiniteSet(T)
  /\ \A i \in DOMAIN file : file[i].ended => << Ending(file[i]) >> \in T
  /\ \A v \in T : \E i \in DOMAIN file : file[i].ended /\ << Ending(file[i]) >> = v

Unfinished(file) == file # << >> /\ ~file[Len(file)].ended

(* The lines an append cut short has spoiled or will.                      *)
Halves(file) == Cardinality(Joined(file)) + (IF Unfinished(file) THEN 1 ELSE 0)

(* There are finitely many.                                                *)
LEMMA JoinedAreFew ==
  ASSUME NEW file, LinesOf(file)
  PROVE  /\ IsFiniteSet(Joined(file)) /\ Cardinality(Joined(file)) \in Nat
         /\ DOMAIN file = 1..Len(file) /\ Len(file) \in Nat
         /\ \A i \in DOMAIN file :
              /\ file[i] \in LearnedLines /\ file[i].text \in Seq(LinePieces)
              /\ Len(file[i].text) \in Nat \ {0}
              /\ Len(file[i].text) = 1 => file[i].text = << Ending(file[i]) >>
<1>1. file \in Seq(LearnedLines) /\ \A k \in DOMAIN file : file[k].text # << >>
  BY DEF LinesOf
<1>2. DOMAIN file = 1..Len(file) /\ Len(file) \in Nat
  BY <1>1
<1>3. \A k \in DOMAIN file : file[k] \in LearnedLines
  BY <1>1
<1>4. \A l \in LearnedLines : l.text \in Seq(LinePieces)
  BY DEF LearnedLines
<1>5. \A s \in Seq(LinePieces) :
        s # << >> => Len(s) \in Nat \ {0} /\ (Len(s) = 1 => s = << s[Len(s)] >>)
  OBVIOUS
<1>6. IsFiniteSet(1..Len(file)) /\ Joined(file) \subseteq 1..Len(file)
  BY <1>2, FS_Interval DEF Joined
<1>7. IsFiniteSet(Joined(file)) /\ Cardinality(Joined(file)) \in Nat
  BY <1>6, FS_Subset, FS_CardinalityType
<1> QED BY <1>1, <1>2, <1>3, <1>4, <1>5, <1>7 DEF Ending

(* A line with a taught value and nothing else is read as that value.      *)
LEMMA ValueIsRead ==
  ASSUME NEW line
  PROVE  /\ \A f \in Fingerprints : line.text = Fp(f) => sig_learned_parse_line(line) = 8
         /\ \A m \in Pins : line.text = Mac(m) => sig_learned_parse_line(line) = 12
<1>1. ASSUME NEW x \in Fingerprints \cup Pins, NEW n \in {8, 12}, line.text = << <<x, n>> >>
      PROVE  sig_learned_parse_line(line) = n
  <2>1. line.text # << >> /\ Head(line.text)[1] = x /\ x # "#"
    BY <1>1, FilesAssumption
  <2>2. {d \in (DOMAIN line.text) \X (1..12) : d[2] <= line.text[d[1]][2]} = {1} \X (1..n)
    <3>1. DOMAIN line.text = {1} /\ line.text[1][2] = n
      BY <1>1
    <3> QED BY <1>1, <3>1
  <2>3. Cardinality({1} \X (1..n)) = n
    <3> DEFINE one == {1}
               few == 1..n
    <3>1. IsFiniteSet(one) /\ Cardinality(one) = 1
      BY FS_Singleton
    <3>2. IsFiniteSet(few) /\ Cardinality(few) = n
      <4>1. n \in Nat /\ n - 1 + 1 = n /\ ~(1 > n) /\ 1 \in Int
        BY <1>1
      <4>2. IsFiniteSet(1..n) /\ Cardinality(1..n) = IF 1 > n THEN 0 ELSE n - 1 + 1
        BY <4>1, FS_Interval
      <4> QED BY <4>1, <4>2
    <3> HIDE DEF one, few
    <3>3. Cardinality(one \X few) = 1 * n
      BY <3>1, <3>2, FS_Product
    <3> QED BY <1>1, <3>3 DEF one, few
  <2>4. Digits(line.text) = n
    BY <2>2, <2>3 DEF Digits
  <2> QED BY <1>1, <2>1, <2>4 DEF sig_learned_parse_line
<1> QED BY <1>1 DEF Fp, Mac

(* A launch misses no more of what was taught than lines were joined.      *)
LEMMA LoadCosts ==
  ASSUME NEW file, NEW T, Owned(file, T),
         NEW fps, IsFiniteSet(DOMAIN fps), Cardinality(DOMAIN fps) + Cardinality(T) <= Cap,
         NEW macs, IsFiniteSet(DOMAIN macs), Cardinality(DOMAIN macs) + Cardinality(T) <= Cap
  PROVE  Cardinality(T \ (Folded(fps, sig_lines_read(file, 8, Cap))
                          \cup Folded(macs, sig_lines_read(file, 12, Cap))))
           <= Cardinality(Joined(file))
<1> DEFINE E8 == Folded(fps, sig_lines_read(file, 8, Cap))
           E12 == Folded(macs, sig_lines_read(file, 12, Cap))
           lost == T \ (E8 \cup E12)
           J == Joined(file)
<1> SUFFICES Cardinality(lost) <= Cardinality(J)
  OBVIOUS
<1>1. /\ LinesOf(file) /\ T \subseteq Values /\ IsFiniteSet(T)
      /\ \A i \in DOMAIN file : file[i].ended => << Ending(file[i]) >> \in T
      /\ \A v \in T : \E i \in DOMAIN file : file[i].ended /\ << Ending(file[i]) >> = v
  BY DEF Owned
<1>2. /\ IsFiniteSet(J) /\ Cardinality(J) \in Nat
      /\ \A i \in DOMAIN file :
           /\ Len(file[i].text) \in Nat \ {0}
           /\ Len(file[i].text) = 1 => file[i].text = << Ending(file[i]) >>
  BY <1>1, JoinedAreFew
<1>3. \A i \in DOMAIN file : file[i].ended /\ Len(file[i].text) = 1 => file[i].text \in T
  BY <1>1, <1>2
<1>4. /\ IsFiniteSet(lost) /\ Cardinality(lost) \in Nat /\ Cardinality(T) \in Nat
      /\ IsFiniteSet(T \ E8) /\ IsFiniteSet(T \ E12)
      /\ Cardinality(lost) <= Cardinality(T \ E8) /\ Cardinality(lost) <= Cardinality(T \ E12)
      /\ Cardinality(T \ E8) = Cardinality(T) - Cardinality(T \cap E8)
      /\ Cardinality(T \ E12) = Cardinality(T) - Cardinality(T \cap E12)
      /\ Cardinality(T \cap E8) \in Nat /\ Cardinality(T \cap E12) \in Nat
  <2>1. IsFiniteSet(T \ E8) /\ IsFiniteSet(T \ E12) /\ lost \subseteq T \ E8 /\ lost \subseteq T \ E12
    BY <1>1, FS_Difference
  <2>2. IsFiniteSet(T \cap E8) /\ IsFiniteSet(T \cap E12)
    BY <1>1, FS_Intersection
  <2> HIDE DEF E8, E12, lost
  <2> QED BY <1>1, <2>1, <2>2, FS_Subset, FS_Difference, FS_CardinalityType
<1>7. lost \subseteq T /\ \A v \in lost : v \notin E8 /\ v \notin E12
  OBVIOUS
<1> HIDE DEF E8, E12, J, lost
<1>5. CASE \E v \in lost : \E i \in DOMAIN file : file[i].ended /\ file[i].text = v
  <2>1. PICK v \in lost, i \in DOMAIN file : file[i].ended /\ file[i].text = v
    BY <1>5
  <2>2. v \in Values /\ v \notin E8 /\ v \notin E12
    BY <1>1, <1>7
  <2>3. CASE \E f \in Fingerprints : v = Fp(f)
    <3>1. sig_learned_parse_line(file[i]) = 8
      BY <2>1, <2>3, ValueIsRead
    <3>2. Cardinality(T) <= Cardinality(J) + Cardinality(T \cap E8)
      BY <1>1, <1>3, <2>1, <2>2, <3>1, NoRoom DEF E8, J
    <3> QED BY <1>2, <1>4, <3>2
  <2>4. CASE \E m \in Pins : v = Mac(m)
    <3>1. sig_learned_parse_line(file[i]) = 12
      BY <2>1, <2>4, ValueIsRead
    <3>2. Cardinality(T) <= Cardinality(J) + Cardinality(T \cap E12)
      BY <1>1, <1>3, <2>1, <2>2, <3>1, NoRoom DEF E12, J
    <3> QED BY <1>2, <1>4, <3>2
  <2> QED BY <2>2, <2>3, <2>4 DEF Values
<1>6. CASE \A v \in lost : \A i \in DOMAIN file : ~(file[i].ended /\ file[i].text = v)
  <2>1. \A v \in lost : \E i \in J : << Ending(file[i]) >> = v
    <3> SUFFICES ASSUME NEW v \in lost PROVE \E i \in J : << Ending(file[i]) >> = v
      OBVIOUS
    <3>1. PICK i \in DOMAIN file : file[i].ended /\ << Ending(file[i]) >> = v
      BY <1>1, <1>7
    <3>2. Len(file[i].text) # 1
      BY <1>2, <1>6, <3>1
    <3>3. Len(file[i].text) > 1
      <4>1. \A n \in Nat \ {0} : n # 1 => n > 1
        OBVIOUS
      <4> QED BY <1>2, <3>2, <4>1
    <3> QED BY <3>1, <3>3 DEF J, Joined
  <2> DEFINE f == [v \in lost |-> CHOOSE i \in J : << Ending(file[i]) >> = v]
  <2>2. \A v \in lost : f[v] \in J /\ << Ending(file[f[v]]) >> = v
    BY <2>1
  <2>4. f \in [lost -> J]
    BY <2>2
  <2> HIDE DEF f
  <2>3. f \in Injection(lost, J)
    BY <2>2, <2>4 DEF Injection, IsInjective
  <2> QED BY <1>2, <2>3, FS_Injection
<1> QED BY <1>5, <1>6

(* An append writes one piece at the end: behind half a line, if there is  *)
(* one, and else on a line of its own.                                     *)
Appended(file, now, p, whole) ==
  LET n == Len(now)
  IN  /\ LinesOf(now) /\ n \in Nat \ {0} /\ DOMAIN now = 1..n
      /\ \A i \in 1..(n - 1) : i \in DOMAIN file /\ now[i] = file[i] /\ file[i].ended
      /\ \A i \in DOMAIN file : file[i].ended => i < n
      /\ now[n].ended = whole /\ Ending(now[n]) = p
      /\ IF Unfinished(file) THEN Len(now[n].text) > 1 ELSE Len(now[n].text) = 1

LEMMA WrittenIs ==
  ASSUME NEW file, LinesOf(file), NEW p \in LinePieces, NEW whole \in BOOLEAN
  PROVE  Appended(file, Written(file, << p >>, whole), p, whole)
<1> USE DEF Appended
<1> DEFINE now == Written(file, << p >>, whole)
           n == Len(file)
<1>1. /\ file \in Seq(LearnedLines)
      /\ DOMAIN file = 1..n /\ n \in Nat
      /\ \A i \in DOMAIN file : /\ file[i] \in LearnedLines /\ file[i].text \in Seq(LinePieces)
                                /\ Len(file[i].text) \in Nat \ {0}
                                /\ file[i].text # << >>
                                /\ ~file[i].ended => i = n
  BY JoinedAreFew DEF LinesOf
<1>2. ASSUME NEW text \in Seq(LinePieces), text # << >>
      PROVE  [text |-> text, ended |-> whole] \in LearnedLines
  BY DEF LearnedLines
<1>3. CASE Unfinished(file)
  <2> DEFINE old == file[n].text
             line == [text |-> old \o << p >>, ended |-> whole]
             front == SubSeq(file, 1, n - 1)
  <2>1. n \in DOMAIN file /\ n \in Nat \ {0}
    BY <1>1, <1>3 DEF Unfinished
  <2>2. old \in Seq(LinePieces) /\ Len(old) \in Nat \ {0}
    BY <1>1, <2>1
  <2>3. /\ line.text \in Seq(LinePieces) /\ line.text # << >> /\ Len(line.text) = Len(old) + 1
        /\ line.text[Len(line.text)] = p
    <3> HIDE DEF old
    <3> QED BY <2>2
  <2>4. line \in LearnedLines /\ line.ended = whole /\ Ending(line) = p /\ Len(line.text) > 1
    <3>1. \A k \in Nat \ {0} : k + 1 > 1
      OBVIOUS
    <3>2. line \in LearnedLines
      BY <1>2, <2>3
    <3>3. Ending(line) = p
      BY <2>3 DEF Ending
    <3> QED BY <2>2, <2>3, <3>1, <3>2, <3>3
  <2> HIDE DEF line
  <2>5. front \in Seq(LearnedLines) /\ Len(front) = n - 1
        /\ \A i \in 1..(n - 1) : front[i] = file[i]
    BY <1>1, <2>1
  <2>6. now = Append(front, line)
    BY <1>3 DEF Written, Unfinished, Last, Front, line
  <2> HIDE DEF front
  <2>7. /\ now \in Seq(LearnedLines) /\ Len(now) = n /\ now[n] = line
        /\ \A i \in 1..(n - 1) : now[i] = file[i]
    <3> HIDE DEF now
    <3> QED BY <2>1, <2>4, <2>5, <2>6
  <2>8. \A i \in 1..(n - 1) : i \in DOMAIN file /\ file[i].ended
    BY <1>1, <2>1
  <2>9. ~file[n].ended
    BY <1>3 DEF Unfinished
  <2>10. \A i \in DOMAIN file : file[i].ended => i < n
    BY <1>1, <2>9
  <2> HIDE DEF now
  <2>11. DOMAIN now = 1..n
    BY <2>7
  <2>12. LinesOf(now)
    <3>0. \A m \in Nat : \A i \in 1..m : i = m \/ i \in 1..(m - 1)
      OBVIOUS
    <3>1. \A i \in 1..n : i = n \/ i \in 1..(n - 1)
      BY <1>1, <3>0
    <3>2. \A i \in 1..n : now[i].text # << >>
      BY <1>1, <2>3, <2>7, <2>8, <3>1 DEF line
    <3>3. \A i \in 1..n : ~now[i].ended => i = n
      BY <2>7, <2>8, <3>1
    <3> QED BY <2>7, <2>11, <3>2, <3>3 DEF LinesOf
  <2> QED BY <1>3, <2>1, <2>4, <2>7, <2>8, <2>10, <2>11, <2>12 DEF now
<1>4. CASE ~Unfinished(file)
  <2> DEFINE line == [text |-> << p >>, ended |-> whole]
  <2>1. << p >> \in Seq(LinePieces) /\ << p >> # << >> /\ Len(<< p >>) = 1 /\ << p >>[1] = p
    OBVIOUS
  <2>2. line \in LearnedLines /\ line.ended = whole /\ Len(line.text) = 1 /\ line.text # << >>
        /\ Ending(line) = p
    <3>1. line \in LearnedLines
      BY <1>2, <2>1
    <3> QED BY <2>1, <3>1 DEF Ending
  <2> HIDE DEF line
  <2>3. now = Append(file, line)
    BY <1>4 DEF Written, Unfinished, Last, line
  <2>4. /\ now \in Seq(LearnedLines) /\ Len(now) = n + 1 /\ now[n + 1] = line
        /\ \A i \in 1..n : now[i] = file[i]
    <3> HIDE DEF now
    <3> QED BY <1>1, <2>2, <2>3
  <2>5. \A i \in 1..n : file[i].ended
    BY <1>1, <1>4 DEF Unfinished
  <2> HIDE DEF now
  <2>6. DOMAIN now = 1..(n + 1)
    BY <2>4
  <2>7. LinesOf(now)
    <3>1. \A i \in 1..(n + 1) : i = n + 1 \/ i \in 1..n
      BY <1>1
    <3>2. \A i \in 1..(n + 1) : now[i].text # << >>
      BY <1>1, <2>2, <2>4, <3>1
    <3>3. \A i \in 1..(n + 1) : ~now[i].ended => i = n + 1
      BY <2>4, <2>5, <3>1
    <3> QED BY <2>4, <2>6, <3>2, <3>3 DEF LinesOf
  <2>8. /\ n + 1 \in Nat \ {0} /\ (n + 1) - 1 = n
        /\ \A i \in 1..n : i < n + 1
    BY <1>1
  <2> QED BY <1>1, <1>4, <2>2, <2>4, <2>5, <2>6, <2>7, <2>8 DEF now
<1> QED BY <1>3, <1>4

(* So a whole append is owned to with what it taught, and spoils no line   *)
(* that was not spoiled.                                                   *)
LEMMA WholeAppend ==
  ASSUME NEW file, NEW T, Owned(file, T), NEW p \in LinePieces, << p >> \in Values
  PROVE  LET now == Written(file, << p >>, TRUE)
         IN  Owned(now, T \cup {<< p >>}) /\ Halves(now) <= Halves(file)
<1> DEFINE now == Written(file, << p >>, TRUE)
           n == Len(now)
<1>1. /\ LinesOf(now) /\ n \in Nat \ {0} /\ DOMAIN now = 1..n
      /\ \A i \in 1..(n - 1) : i \in DOMAIN file /\ now[i] = file[i] /\ file[i].ended
      /\ \A i \in DOMAIN file : file[i].ended => i < n
      /\ now[n].ended = TRUE /\ Ending(now[n]) = p
      /\ IF Unfinished(file) THEN Len(now[n].text) > 1 ELSE Len(now[n].text) = 1
  <2>1. Appended(file, now, p, TRUE)
    BY WrittenIs, Zenon DEF Owned
  <2> HIDE DEF now
  <2> QED BY <2>1 DEF Appended
<1>2. LinesOf(file) /\ DOMAIN file = 1..Len(file) /\ Len(file) \in Nat
      /\ IsFiniteSet(Joined(file)) /\ Cardinality(Joined(file)) \in Nat
  BY JoinedAreFew DEF Owned
<1> HIDE DEF now, n
<1>3. \A i \in 1..n : i = n \/ i \in 1..(n - 1)
  BY <1>1
<1>4. \A i \in DOMAIN file : file[i].ended => i \in 1..(n - 1)
  BY <1>1, <1>2
<1>5. Owned(now, T \cup {<< p >>})
  <2>1. T \cup {<< p >>} \in SUBSET Values /\ IsFiniteSet(T \cup {<< p >>})
    BY FS_AddElement DEF Owned
  <2>2. ASSUME NEW i \in DOMAIN now
        PROVE  << Ending(now[i]) >> \in T \cup {<< p >>}
    <3>1. CASE i = n
      BY <1>1, <3>1
    <3>2. CASE i \in 1..(n - 1)
      BY <1>1, <3>2 DEF Owned
    <3> QED BY <1>1, <1>3, <2>2, <3>1, <3>2
  <2>3. ASSUME NEW v \in T \cup {<< p >>}
        PROVE  \E i \in DOMAIN now : now[i].ended /\ << Ending(now[i]) >> = v
    <3>1. CASE v = << p >>
      BY <1>1, <3>1
    <3>2. CASE v \in T
      <4>1. PICK i \in DOMAIN file : file[i].ended /\ << Ending(file[i]) >> = v
        BY <3>2 DEF Owned
      <4>2. i \in 1..(n - 1) /\ i \in 1..n /\ now[i] = file[i]
        BY <1>1, <1>4, <4>1
      <4> QED BY <1>1, <4>1, <4>2
    <3> QED BY <2>3, <3>1, <3>2
  <2> QED BY <1>1, <2>1, <2>2, <2>3 DEF Owned
<1>6. ~Unfinished(now)
  BY <1>1 DEF Unfinished, n
<1>7. CASE Unfinished(file)
  <2>1. Joined(now) \subseteq Joined(file) \cup {n}
    BY <1>1, <1>3 DEF Joined
  <2>2. IsFiniteSet(Joined(file) \cup {n})
        /\ Cardinality(Joined(file) \cup {n}) <= Cardinality(Joined(file)) + 1
    <3>1. /\ IsFiniteSet(Joined(file) \cup {n})
          /\ Cardinality(Joined(file) \cup {n}) \in
               {Cardinality(Joined(file)), Cardinality(Joined(file)) + 1}
      BY <1>2, FS_AddElement
    <3>2. \A c \in Nat : \A d \in {c, c + 1} : d <= c + 1
      OBVIOUS
    <3> QED BY <1>2, <3>1, <3>2
  <2>3. IsFiniteSet(Joined(now)) /\ Cardinality(Joined(now)) <= Cardinality(Joined(file) \cup {n})
    BY <2>1, <2>2, FS_Subset
  <2>4. Cardinality(Joined(now)) \in Nat /\ Cardinality(Joined(file) \cup {n}) \in Nat
    BY <2>2, <2>3, FS_CardinalityType
  <2>5. Halves(now) = Cardinality(Joined(now)) /\ Halves(file) = Cardinality(Joined(file)) + 1
    BY <1>6, <1>7, <2>4 DEF Halves
  <2>6. \A a, b, c \in Nat : a <= b /\ b <= c + 1 => a <= c + 1
    OBVIOUS
  <2>7. Cardinality(Joined(now)) <= Cardinality(Joined(file)) + 1
    BY <1>2, <2>2, <2>3, <2>4, <2>6
  <2>8. Halves(now) <= Halves(file)
    BY <2>5, <2>7
  <2> QED BY <1>5, <2>8 DEF now
<1>8. CASE ~Unfinished(file)
  <2>1. Joined(now) \subseteq Joined(file)
    <3> SUFFICES ASSUME NEW i \in Joined(now) PROVE i \in Joined(file)
      OBVIOUS
    <3>1. i # n
      <4>1. Len(now[n].text) = 1 /\ ~(1 > 1)
        BY <1>1, <1>8
      <4> QED BY <4>1 DEF Joined
    <3>2. i \in 1..(n - 1)
      BY <1>1, <1>3, <3>1 DEF Joined
    <3> QED BY <1>1, <3>2 DEF Joined
  <2>2. IsFiniteSet(Joined(now)) /\ Cardinality(Joined(now)) <= Cardinality(Joined(file))
    BY <1>2, <2>1, FS_Subset
  <2>3. Cardinality(Joined(now)) \in Nat
    BY <2>2, FS_CardinalityType
  <2>4. Halves(now) = Cardinality(Joined(now)) /\ Halves(file) = Cardinality(Joined(file))
    BY <1>2, <1>6, <1>8, <2>3 DEF Halves
  <2> QED BY <1>5, <2>2, <2>4 DEF now
<1> QED BY <1>7, <1>8

(* One that is cut short leaves the finished lines and adds half of one.   *)
LEMMA HalfAppend ==
  ASSUME NEW file, NEW T, Owned(file, T), NEW p \in LinePieces
  PROVE  LET now == Written(file, << p >>, FALSE)
         IN  Owned(now, T) /\ Halves(now) <= Halves(file) + 1
<1> DEFINE now == Written(file, << p >>, FALSE)
           n == Len(now)
<1>1. /\ LinesOf(now) /\ n \in Nat \ {0} /\ DOMAIN now = 1..n
      /\ \A i \in 1..(n - 1) : i \in DOMAIN file /\ now[i] = file[i] /\ file[i].ended
      /\ \A i \in DOMAIN file : file[i].ended => i < n
      /\ now[n].ended = FALSE
  <2>1. LinesOf(file)
    BY DEF Owned
  <2>2. Appended(file, now, p, FALSE)
    BY <2>1, WrittenIs, Zenon
  <2> HIDE DEF now
  <2> QED BY <2>2 DEF Appended
<1>2. LinesOf(file) /\ DOMAIN file = 1..Len(file) /\ Len(file) \in Nat
      /\ IsFiniteSet(Joined(file)) /\ Cardinality(Joined(file)) \in Nat
  BY JoinedAreFew DEF Owned
<1> HIDE DEF now, n
<1>3. \A i \in 1..n : i = n \/ i \in 1..(n - 1)
  BY <1>1
<1>4. \A i \in DOMAIN file : file[i].ended => i \in 1..(n - 1)
  BY <1>1, <1>2
<1>5. Owned(now, T)
  <2>1. T \in SUBSET Values /\ IsFiniteSet(T)
    BY DEF Owned
  <2>2. ASSUME NEW i \in DOMAIN now, now[i].ended
        PROVE  << Ending(now[i]) >> \in T
    <3>1. i \in 1..(n - 1)
      BY <1>1, <1>3, <2>2
    <3> QED BY <1>1, <3>1 DEF Owned
  <2>3. ASSUME NEW v \in T
        PROVE  \E i \in DOMAIN now : now[i].ended /\ << Ending(now[i]) >> = v
    <3>1. PICK i \in DOMAIN file : file[i].ended /\ << Ending(file[i]) >> = v
      BY <2>3 DEF Owned
    <3>2. i \in 1..(n - 1) /\ i \in 1..n /\ now[i] = file[i]
      BY <1>1, <1>4, <3>1
    <3> QED BY <1>1, <3>1, <3>2
  <2> QED BY <1>1, <2>1, <2>2, <2>3 DEF Owned
<1>6. Joined(now) \subseteq Joined(file)
  BY <1>1, <1>3 DEF Joined
<1>7. IsFiniteSet(Joined(now)) /\ Cardinality(Joined(now)) <= Cardinality(Joined(file))
      /\ Cardinality(Joined(now)) \in Nat
  BY <1>2, <1>6, FS_Subset, FS_CardinalityType
<1>8. Halves(now) <= Halves(file) + 1
  BY <1>2, <1>7 DEF Halves
<1> QED BY <1>5, <1>8 DEF now

(* The matcher's part of the state, and the file behind it.                *)
FilesInv ==
  /\ json \in Jsons /\ tears \in 0..MaxTears /\ starts \in 0..MaxStarts
  /\ extras = <<>> \/ DOMAIN extras[1] = Tables
  /\ IsFiniteSet(owed)
  /\ Owned(learned, taught) /\ Halves(learned) <= tears
  /\ TearCostsOne

(* What signatures.json keeps of a table has an end.                       *)
LEMMA TablesEnd ==
  ASSUME NEW file \in Jsons, NEW t \in Tables
  PROVE  /\ IsFiniteSet(DOMAIN sig_parse_object(file.keys)[t])
         /\ Cardinality(DOMAIN sig_parse_object(file.keys)[t]) \in Nat
         /\ DOMAIN sig_parse_object(<< >>)[t] = {}
<1> DEFINE keys == file.keys
           takes(i) == sig_parse_array(keys[i][2])
           standing == {i \in DOMAIN keys : keys[i][1] = t /\ DOMAIN takes(i) # {}}
           outcome == sig_parse_object(keys)[t]
<1>1. outcome = IF standing = {} THEN << >> ELSE takes(Min(standing))
  BY DEF sig_parse_object
<1>2. DOMAIN sig_parse_object(<< >>)[t] = {}
  <2>1. DOMAIN << >> = {}
    OBVIOUS
  <2> QED BY <2>1 DEF sig_parse_object
<1>3. ASSUME NEW i \in DOMAIN keys PROVE IsFiniteSet(DOMAIN takes(i))
  <2>1. IsFiniteSet(DOMAIN keys[i][2])
    BY FilesAssumption
  <2>2. DOMAIN takes(i) \subseteq DOMAIN keys[i][2]
    BY DEF sig_parse_array, FirstOf
  <2> QED BY <2>1, <2>2, FS_Subset
<1>4. CASE standing = {}
  <2>1. DOMAIN outcome = {}
    <3>1. DOMAIN << >> = {}
      OBVIOUS
    <3> QED BY <1>1, <1>4, <3>1
  <2> HIDE DEF outcome
  <2>2. IsFiniteSet(DOMAIN outcome) /\ Cardinality(DOMAIN outcome) \in Nat
    BY <2>1, FS_EmptySet
  <2> QED BY <1>2, <2>2 DEF outcome
<1>5. CASE standing # {}
  <2>1. standing \in SUBSET Nat
    BY FilesAssumption
  <2>2. Min(standing) \in standing
    <3> HIDE DEF standing
    <3> QED BY <1>5, <2>1, LeastOf
  <2>3. IsFiniteSet(DOMAIN takes(Min(standing)))
    BY <1>3, <2>2
  <2>4. outcome = takes(Min(standing))
    BY <1>1, <1>5
  <2> HIDE DEF outcome
  <2>5. IsFiniteSet(DOMAIN outcome) /\ Cardinality(DOMAIN outcome) \in Nat
    BY <2>3, <2>4, FS_CardinalityType
  <2> QED BY <1>2, <2>5 DEF outcome
<1> QED BY <1>4, <1>5

(* A launch.                                                               *)
LEMMA LaunchKeeps == ASSUME FilesInv, recon_app_alloc PROVE FilesInv'
<1> DEFINE T == taught
           J == Cardinality(Joined(learned))
<1>1. /\ extras' = << sig_db_load >> /\ owed' = taught
      /\ starts' \in 0..MaxStarts
      /\ UNCHANGED <<json, learned, taught, tears>>
  BY FilesAssumption DEF FilesInv, recon_app_alloc
<1>2. Owned(learned, T) /\ IsFiniteSet(T) /\ tears \in Nat /\ Cardinality(T) \in Nat
  BY FilesAssumption, FS_CardinalityType DEF FilesInv, Owned
<1>3. J \in Nat /\ J <= tears
  BY <1>2, JoinedAreFew DEF FilesInv, Owned, Halves
<1>4. DOMAIN sig_db_load = Tables
  BY FilesAssumption DEF FilesInv, sig_db_load, sig_merge_learned, NoTable
<1>5. ASSUME NEW keys, json.root # "broken",
             sig_db_load = sig_merge_learned(sig_parse_object(keys)),
             \A t \in {"ie_fps", "macs"} :
               /\ IsFiniteSet(DOMAIN sig_parse_object(keys)[t])
               /\ Cardinality(DOMAIN sig_parse_object(keys)[t]) + Cardinality(T) <= Cap
      PROVE  Cardinality(T \ (sig_db_load.ie_fps \cup sig_db_load.macs)) <= J
  <2> DEFINE fps == sig_parse_object(keys)["ie_fps"]
             macs == sig_parse_object(keys)["macs"]
  <2>1. /\ sig_db_load.ie_fps = Folded(fps, sig_lines_read(learned, 8, Cap))
        /\ sig_db_load.macs = Folded(macs, sig_lines_read(learned, 12, Cap))
    BY <1>5 DEF sig_merge_learned, Tables
  <2> HIDE DEF fps, macs
  <2>2. /\ IsFiniteSet(DOMAIN fps) /\ Cardinality(DOMAIN fps) + Cardinality(T) <= Cap
        /\ IsFiniteSet(DOMAIN macs) /\ Cardinality(DOMAIN macs) + Cardinality(T) <= Cap
    BY <1>5 DEF fps, macs
  <2>3. Cardinality(T \ (Folded(fps, sig_lines_read(learned, 8, Cap))
                         \cup Folded(macs, sig_lines_read(learned, 12, Cap)))) <= J
    BY <1>2, <2>2, LoadCosts
  <2> QED BY <2>1, <2>3
<1>6. ASSUME json.root # "broken", Roomy'
      PROVE  Cardinality(T \ (sig_db_load.ie_fps \cup sig_db_load.macs)) <= J
  <2>1. \A t \in {"ie_fps", "macs"} :
          /\ IsFiniteSet(DOMAIN sig_parse_object(json.keys)[t])
          /\ Cardinality(DOMAIN sig_parse_object(json.keys)[t]) \in Nat
          /\ Cardinality(DOMAIN sig_parse_object(json.keys)[t]) + Cardinality(T) <= Cap
          /\ DOMAIN sig_parse_object(<< >>)[t] = {}
    <3>1. json' = json /\ json \in Jsons
      BY <1>1 DEF FilesInv
    <3>2. \A t \in {"ie_fps", "macs"} : t \in Tables
      BY DEF Tables
    <3>3. \A t \in {"ie_fps", "macs"} :
            Cardinality(DOMAIN sig_parse_object(json.keys)[t]) + Cardinality(T) <= Cap
      BY <1>1, <1>6 DEF Roomy
    <3> QED BY <3>1, <3>2, <3>3, TablesEnd
  <2>2. CASE json.root = "object"
    BY <1>5, <1>6, <2>1, <2>2 DEF sig_db_load
  <2>3. CASE json.root = "absent"
    <3>1. \A t \in {"ie_fps", "macs"} :
            /\ IsFiniteSet(DOMAIN sig_parse_object(<< >>)[t])
            /\ Cardinality(DOMAIN sig_parse_object(<< >>)[t]) + Cardinality(T) <= Cap
      <4>1. IsFiniteSet({}) /\ Cardinality({}) = 0
        BY FS_EmptySet
      <4>2. Cardinality(T) <= Cap
        <5> DEFINE n == Cardinality(DOMAIN sig_parse_object(json.keys)["macs"])
        <5>1. n \in Nat /\ n + Cardinality(T) <= Cap
          BY <2>1
        <5> HIDE DEF n
        <5> QED BY <1>2, <5>1, FilesAssumption
      <4> SUFFICES ASSUME NEW t \in {"ie_fps", "macs"}
                   PROVE  /\ IsFiniteSet(DOMAIN sig_parse_object(<< >>)[t])
                          /\ Cardinality(DOMAIN sig_parse_object(<< >>)[t]) + Cardinality(T) <= Cap
        OBVIOUS
      <4>3. DOMAIN sig_parse_object(<< >>)[t] = {}
        BY <2>1
      <4>4. 0 + Cardinality(T) <= Cap
        BY <1>2, <4>2
      <4> QED BY <4>1, <4>3, <4>4
    <3>2. sig_db_load = sig_merge_learned(sig_parse_object(<< >>))
      BY <2>3 DEF sig_db_load
    <3> QED BY <1>5, <1>6, <3>1, <3>2
  <2> QED BY <1>6, <2>2, <2>3, FilesAssumption DEF FilesInv
<1>7. TearCostsOne'
  <2> SUFFICES ASSUME extras' # << >>, json'.root # "broken", Roomy'
               PROVE  Cardinality(owed' \ (extras'[1].ie_fps \cup extras'[1].macs)) <= tears'
    BY DEF TearCostsOne
  <2>1. Cardinality(T \ (sig_db_load.ie_fps \cup sig_db_load.macs)) <= J
    BY <1>1, <1>6
  <2>2. Cardinality(T \ (sig_db_load.ie_fps \cup sig_db_load.macs)) \in Nat
    BY <1>2, FS_Difference, FS_CardinalityType
  <2> HIDE DEF J
  <2>3. Cardinality(T \ (sig_db_load.ie_fps \cup sig_db_load.macs)) <= tears
    BY <1>2, <1>3, <2>1, <2>2
  <2>4. extras'[1] = sig_db_load
    BY <1>1
  <2> QED BY <1>1, <2>3, <2>4
<1>8. Owned(learned, taught)' /\ Halves(learned)' <= tears'
  BY <1>1 DEF FilesInv
<1> QED BY <1>1, <1>2, <1>4, <1>7, <1>8 DEF FilesInv

(* Nothing but a launch changes what the matcher owes, and the bound only  *)
(* rises.                                                                  *)
LEMMA OwedStill ==
  ASSUME FilesInv, UNCHANGED <<json, extras, owed>>, tears' \in Nat, tears' >= tears
  PROVE  TearCostsOne'
<1>1. Cardinality(owed \ (extras[1].ie_fps \cup extras[1].macs)) \in Nat /\ tears \in Nat
  <2>1. IsFiniteSet(owed) /\ tears \in Nat
    BY FilesAssumption DEF FilesInv
  <2> QED BY <2>1, FS_Difference, FS_CardinalityType
<1>2. Roomy' => Roomy
  BY DEF Roomy
<1> QED BY <1>1, <1>2 DEF FilesInv, TearCostsOne

(* A value is taught, whole or in part.                                    *)
LEMMA TeachKeeps ==
  ASSUME FilesInv, NEW value \in Values, Teach(value)
  PROVE  FilesInv'
<1>1. /\ UNCHANGED <<json, extras, owed, starts>> /\ tears \in Nat
      /\ Owned(learned, taught) /\ Halves(learned) <= tears
  BY FilesAssumption DEF Teach, FilesInv
<1>2. Halves(learned) \in Nat
  BY <1>1, JoinedAreFew DEF Owned, Halves
<1>3. CASE sig_learned_append(value)
  <2>1. PICK p \in LinePieces : value = << p >>
    BY DEF Values, LinePieces, Fp, Mac
  <2>2. /\ learned' = Written(learned, << p >>, TRUE) /\ taught' = taught \cup {<< p >>}
        /\ tears' = tears
    BY <1>3, <2>1 DEF sig_learned_append
  <2>3. Owned(learned', taught') /\ Halves(learned') <= Halves(learned)
    BY <1>1, <2>1, <2>2, WholeAppend
  <2>4. Halves(learned') \in Nat
    BY <2>3, JoinedAreFew DEF Owned, Halves
  <2>5. TearCostsOne'
    BY <1>1, <2>2, OwedStill
  <2>6. \A a, b, c \in Nat : a <= b /\ b <= c => a <= c
    OBVIOUS
  <2>7. Halves(learned') <= tears
    BY <1>1, <1>2, <2>3, <2>4, <2>6
  <2> QED BY <1>1, <2>2, <2>3, <2>5, <2>7 DEF FilesInv
<1>4. CASE TornAppend(value)
  <2>1. tears' = tears + 1 /\ tears < MaxTears
    BY <1>4 DEF TornAppend
  <2>2. value[1][1] \in Fingerprints \cup Pins /\ <<"#", 0>> \in LinePieces
    BY DEF Values, Fp, Mac, LinePieces
  <2>3. Owned(learned', taught') /\ Halves(learned') <= Halves(learned) + 1
    <3>1. CASE learned' \in ShortOf(learned, value) /\ UNCHANGED taught
      <4>1. PICK p \in LinePieces : learned' = Written(learned, << p >>, FALSE)
        <5>1. \A n \in {4, 8, 12} : <<value[1][1], n>> \in LinePieces
          BY <2>2 DEF LinePieces
        <5> QED BY <2>2, <3>1, <5>1 DEF ShortOf
      <4> QED BY <1>1, <3>1, <4>1, HalfAppend
    <3>2. CASE learned' \in BehindHeader(learned, value) /\ taught' = taught \cup {value}
      <4> DEFINE half == Written(learned, << <<"#", 0>> >>, FALSE)
      <4>1. PICK p \in LinePieces : value = << p >>
        BY DEF Values, LinePieces, Fp, Mac
      <4>2. learned' = Written(half, << p >>, TRUE)
        BY <3>2, <4>1 DEF BehindHeader, CutHeader
      <4>3. Owned(half, taught) /\ Halves(half) <= Halves(learned) + 1
        BY <1>1, <2>2, HalfAppend
      <4> HIDE DEF half
      <4>4. Owned(learned', taught') /\ Halves(learned') <= Halves(half)
        BY <3>2, <4>1, <4>2, <4>3, WholeAppend
      <4>5. Halves(half) \in Nat /\ Halves(learned') \in Nat
        BY <4>3, <4>4, JoinedAreFew DEF Owned, Halves
      <4>6. \A a, b, c \in Nat : a <= b /\ b <= c + 1 => a <= c + 1
        OBVIOUS
      <4> QED BY <1>2, <4>3, <4>4, <4>5, <4>6
    <3> QED BY <1>4, <3>1, <3>2 DEF TornAppend
  <2>4. Halves(learned') \in Nat
    BY <2>3, JoinedAreFew DEF Owned, Halves
  <2>5. TearCostsOne'
    BY <1>1, <2>1, OwedStill
  <2>6. tears' \in 0..MaxTears /\ Halves(learned') <= tears'
    BY <1>1, <1>2, <2>1, <2>3, <2>4, FilesAssumption
  <2> QED BY <1>1, <2>3, <2>5, <2>6 DEF FilesInv
<1> QED BY <1>3, <1>4 DEF Teach

(* An empty file owes nothing.                                             *)
LEMMA EmptyFile == Owned(<< >>, {}) /\ Halves(<< >>) = 0
<1>1. LinesOf(<< >>)
  BY DEF LinesOf
<1>2. Joined(<< >>) = {} /\ ~Unfinished(<< >>)
  BY DEF Joined, Unfinished
<1> QED BY <1>1, <1>2, FS_EmptySet DEF Owned, Halves

(* Every step keeps the invariant.                                         *)
LEMMA StepFiles == FilesInv /\ [FilesNext]_files_vars => FilesInv'
<1> SUFFICES ASSUME FilesInv, [FilesNext]_files_vars PROVE FilesInv'
  OBVIOUS
<1>1. CASE sig_db_learn_fp
  BY <1>1, TeachKeeps DEF sig_db_learn_fp, Values
<1>2. CASE sig_db_learn_mac
  BY <1>2, TeachKeeps DEF sig_db_learn_mac, Values
<1>3. CASE sig_db_forget_learned
  <2>1. learned' = << >> /\ taught' = {} /\ UNCHANGED <<json, extras, owed, tears, starts>>
    BY <1>3 DEF sig_db_forget_learned
  <2>2. tears \in Nat
    BY FilesAssumption DEF FilesInv
  <2>3. TearCostsOne'
    BY <2>1, <2>2, OwedStill
  <2>4. Owned(learned', taught') /\ Halves(learned') <= tears'
    BY <2>1, <2>2, EmptyFile
  <2> QED BY <2>1, <2>3, <2>4 DEF FilesInv
<1>4. CASE recon_app_alloc
  BY <1>4, LaunchKeeps
<1>5. CASE sig_db_free
  <2>1. extras' = << >> /\ owed' = {} /\ UNCHANGED <<json, learned, taught, tears, starts>>
    BY <1>5 DEF sig_db_free
  <2> QED BY <2>1, FS_EmptySet DEF FilesInv, TearCostsOne
<1>6. CASE UNCHANGED files_vars
  <2>1. UNCHANGED <<json, learned, extras, taught, owed, tears, starts>>
    BY <1>6 DEF files_vars
  <2>2. tears \in Nat
    BY FilesAssumption DEF FilesInv
  <2>3. TearCostsOne'
    BY <2>1, <2>2, OwedStill
  <2> QED BY <2>1, <2>3 DEF FilesInv
<1> QED BY <1>1, <1>2, <1>3, <1>4, <1>5, <1>6 DEF FilesNext

(* And the initial state has it.                                           *)
LEMMA FilesStart == FilesInit => FilesInv
  BY EmptyFile, FilesAssumption, FS_EmptySet DEF FilesInit, FilesInv, TearCostsOne

(* Whatever is taught, forgotten, cut short and reloaded, and whatever     *)
(* signatures.json says: a launch that has the room misses at most one     *)
(* taught value for each append cut short.                                 *)
THEOREM TaughtIsKnown == FilesSpec => []TearCostsOne
<1>1. FilesInv /\ [FilesNext]_files_vars => FilesInv'
  BY StepFiles
<1>2. FilesInv => TearCostsOne
  BY DEF FilesInv
<1> QED BY <1>1, <1>2, FilesStart, PTL DEF FilesSpec

(* The file, the extras and the counts keep their shape.                   *)
LEMMA FilesFit == FilesInv => FilesTypeOK
<1> SUFFICES ASSUME FilesInv PROVE FilesTypeOK
  OBVIOUS
<1>1. LinesOf(learned)
  BY DEF FilesInv, Owned
<1>2. \A i \in DOMAIN learned : learned[i] \in LearnedLines
  BY <1>1, JoinedAreFew
<1>3. \A i \in DOMAIN learned : learned[i].ended \in BOOLEAN
  BY <1>2 DEF LearnedLines
<1> QED BY <1>1, <1>3 DEF FilesInv, FilesTypeOK, LinesOf

(* Whatever is taught, torn, forgotten and reloaded: learned.txt is lines  *)
(* with something in each, of which only the last may not have ended.      *)
THEOREM FilesKeepShape == FilesSpec => []FilesTypeOK
<1>1. FilesInv /\ [FilesNext]_files_vars => FilesInv'
  BY StepFiles
<1> QED BY <1>1, FilesFit, FilesStart, PTL DEF FilesSpec

-----------------------------------------------------------------------------
(* The parts together: a step of one leaves the others as they are, so     *)
(* what was proved of each holds in every behaviour of the whole.          *)
LEMMA PartsMove ==
  ASSUME [AppNext]_app_vars
  PROVE  /\ [Next]_vars /\ [GpsNext]_gps_vars /\ [RowNext]_row_vars
         /\ [FilesNext]_files_vars /\ [FlasherNext]_flasher_vars /\ [ReadyNext]_ready_vars
         /\ [SettingsNext]_settings_vars /\ [BleNext]_ble_vars /\ [CardNext]_card_vars
<1>1. CASE Power \/ Gps \/ Row
  BY <1>1 DEF Power, Gps, Row, OnPower, OnGps, OnRow
<1>2. CASE Files \/ Firmware \/ Ready
  BY <1>2 DEF Files, Firmware, Ready, OnFiles, OnFlasher, OnReady
<1>3. CASE Settled \/ Ble \/ Card
  BY <1>3 DEF Settled, Ble, Card, OnSettings, OnBle, OnCard
<1>4. CASE UNCHANGED app_vars
  BY <1>4 DEF app_vars
<1> QED BY <1>1, <1>2, <1>3, <1>4 DEF AppNext

(* Every behaviour of the whole is one of each part.  The readiness        *)
(* screen's is without its fairness, of which it keeps the safety.         *)
LEMMA PartsBehave ==
  AppSafe => /\ Spec /\ GpsSpec /\ RowSpec /\ FilesSpec /\ FlasherSpec
             /\ SettingsSpec /\ BleSpec /\ CardSpec /\ []Metered
<1>1. AppInit => /\ Init /\ GpsInit /\ RowInit /\ FilesInit /\ FlasherInit /\ ReadyInit
                 /\ SettingsInit /\ BleInit /\ CardInit
  BY DEF AppInit
<1>2. AppSafe => Spec /\ GpsSpec /\ RowSpec
  BY <1>1, PartsMove, PTL DEF AppSafe, Spec, GpsSpec, RowSpec
<1>3. AppSafe => FilesSpec /\ FlasherSpec
  BY <1>1, PartsMove, PTL DEF AppSafe, FilesSpec, FlasherSpec
<1>4. AppSafe => SettingsSpec /\ BleSpec /\ CardSpec
  BY <1>1, PartsMove, PTL DEF AppSafe, SettingsSpec, BleSpec, CardSpec
<1>5. AppSafe => []Metered
  BY <1>1, PartsMove, ReadyStart, StepMetered, PTL DEF AppSafe
<1> QED BY <1>2, <1>3, <1>4, <1>5

(* The whole keeps its shape, and with it the files a survey leaves.       *)
THEOREM AppKeepsShape == AppSafe => []AppTypes
<1>1. Metered => ReadyTypeOK
  BY DEF Metered
<1>2. AppSafe => [](SurveyIsKept /\ TypeOK /\ GpsTypeOK)
  BY PartsBehave, SurveyKept, TypeCorrect, GpsKeepsShape, PTL
<1>3. AppSafe => [](RowTypeOK /\ FilesTypeOK /\ FlasherTypeOK)
  BY PartsBehave, RowShape, FilesKeepShape, FlasherKeepsShape, PTL
<1>4. AppSafe => [](ReadyTypeOK /\ SettingsTypeOK /\ BleTypeOK)
  BY <1>1, PartsBehave, SettingsFit, TableKeepsShape, PTL
<1> QED BY <1>2, <1>3, <1>4, PTL DEF AppTypes

(* And it keeps every promise of its parts at once.                        *)
THEOREM AppKeepsPromises ==
  AppSafe => /\ [](NothingLeftOn /\ BleTableIsRecent /\ SettingsAreKept /\ TearCostsOne)
             /\ [](ClaimsAreEarned /\ RowsReadBack) /\ OwnNameStays /\ TagIsRecent
             /\ [](PluginOutlivesWorker /\ DoneIsTrue)
             /\ [](ReadyIsProved /\ CountIsHonest)
<1>1. Metered => ReadyIsProved /\ CountIsHonest
  BY EarnedIsProved DEF Metered, Honest, CountIsHonest
<1>2. AppSafe => [](ReadyIsProved /\ CountIsHonest)
  BY <1>1, PartsBehave, PTL
<1>3. AppSafe => [](NothingLeftOn /\ BleTableIsRecent /\ SettingsAreKept /\ TearCostsOne)
  BY PartsBehave, NothingForgotten, TableIsRecent, SettingsLast, TaughtIsKnown, PTL
<1>4. AppSafe => [](ClaimsAreEarned /\ RowsReadBack) /\ OwnNameStays /\ TagIsRecent
  BY PartsBehave, RowClaimsEarned, RowsSurvive, OwnNameKept, TagsAreRecent, PTL
<1>5. AppSafe => [](PluginOutlivesWorker /\ DoneIsTrue)
  BY PartsBehave, PluginStays, DoneNeverLies, PTL
<1> QED BY <1>2, <1>3, <1>4, <1>5
=============================================================================
