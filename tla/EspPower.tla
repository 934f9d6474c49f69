------------------------------ MODULE EspPower ------------------------------
(***************************************************************************)
(* The 5 V rail of the expansion header: the GUI tick that raises it under *)
(* a companion that never answers, and the release at exit.                *)
(*                                                                         *)
(* The tick takes the app's lock twice or three times and talks to the     *)
(* charger in between, so it is cut at each of those places (`pc`).        *)
(* Around it act the worker, which hears the board; the scenes, which open *)
(* and close the port; the charger, whose boost may refuse or fail; the    *)
(* USB cable; and the operator, who may switch the rail by other means.    *)
(***************************************************************************)
EXTENDS Naturals

CONSTANTS
  Grace,      \* ESP_LINK_GRACE_MS, in periods of the tick
  MaxFaults,  \* bound: boosts that fail on battery, or after they came up
  MaxHands    \* bound: how often the operator switches the rail

ASSUME GraceAssumption == Grace \in Nat \ {0}
ASSUME BoundsAssumption == MaxFaults \in Nat /\ MaxHands \in Nat

VARIABLES
  (* the app *)
  port,       \* app->esp: "closed" is NULL, "busy" a session whose UART was refused
  connected,  \* esp_connected
  auto,       \* settings.esp_auto_5v
  attempted, ours, failed, \* otg_attempted, otg_on_by_us, otg_failed
  wait,       \* esp_link_wait_tick: 0 is unset, n + 1 a stamp n periods old
  pc,         \* the GUI thread
  sawVbus, granted, taken, \* locals: vbus, ok; release's ours
  (* the world *)
  rail,       \* "off", or who raised it: "app", "user"
  vbus,       \* a USB cable feeds the Flipper
  own,        \* the board has a supply of its own
  faults, hands,
  (* history *)
  yielded,    \* a tick found the board alive, or the rail already up
  unanswered, \* periods since a tick last found no session, or an answer
  raced       \* the operator raised the rail behind a tick's back

flags == <<attempted, ours, failed, wait>>
local == <<sawVbus, granted, taken>>
world == <<rail, vbus, own, faults, hands, raced>>
history == <<yielded, unanswered>>
scene == <<port, connected, auto>>
vars == <<port, connected, auto, attempted, ours, failed, wait, pc, sawVbus, granted, taken,
          rail, vbus, own, faults, hands, yielded, unanswered, raced>>

Ports == {"closed", "open", "busy"}
Rails == {"off", "app", "user"}
Places == {"idle", "drop", "decide", "probe", "look", "ask", "settle", "off", "gone"}

\* Every other field of the app starts at zero; the rail and the cable are as found.
Init ==
  /\ port = "closed" /\ connected = FALSE /\ auto \in BOOLEAN
  /\ attempted = FALSE /\ ours = FALSE /\ failed = FALSE /\ wait = 0
  /\ pc = "idle"
  /\ sawVbus = FALSE /\ granted = FALSE /\ taken = FALSE
  /\ rail \in {"off", "user"} /\ vbus \in BOOLEAN /\ own \in BOOLEAN
  /\ faults = 0 /\ hands = 0
  /\ yielded = FALSE /\ unanswered = 0 /\ raced = FALSE

-----------------------------------------------------------------------------
(* recon_app_esp_power_tick().                                             *)

\* The watchdog looks whether a rail the app raised is still up.
Watch ==
  /\ pc = "idle"
  /\ pc' = IF ours /\ ~failed /\ rail = "off" THEN "drop" ELSE "decide"
  /\ UNCHANGED <<scene, flags, local, world, history>>

\* It is not: the power service saw a fault.
Drop ==
  /\ pc = "drop" /\ pc' = "decide"
  /\ ours' = FALSE /\ failed' = TRUE
  /\ UNCHANGED <<attempted, wait, scene, local, world, history>>

\* The stamp as the decision finds it: listening time, not wall time.
Waited == IF port = "closed" THEN 0 ELSE wait

\* What the history records of this tick: was there a session, and no answer?
Counted == unanswered' = IF port = "closed" \/ connected THEN 0 ELSE unanswered

\* The board is alive on somebody else's power: nothing to do, ever, this run.
Answered == yielded' = TRUE /\ attempted' = TRUE

\* Under the lock: whether to act now.
Decide ==
  /\ pc = "decide"
  /\ Counted
  /\ \/ /\ port = "closed" \/ ~auto \/ attempted
        /\ wait' = Waited /\ pc' = "idle"
        /\ UNCHANGED <<attempted, yielded>>
     \/ /\ port # "closed" /\ auto /\ ~attempted /\ connected
        /\ Answered
        /\ wait' = Waited /\ pc' = "idle"
     \/ /\ port # "closed" /\ auto /\ ~attempted /\ ~connected /\ Waited <= Grace
        /\ wait' = (IF Waited = 0 THEN 1 ELSE Waited) /\ pc' = "idle"
        /\ UNCHANGED <<attempted, yielded>>
     \/ /\ port # "closed" /\ auto /\ ~attempted /\ ~connected /\ Waited > Grace
        /\ attempted' = TRUE
        /\ wait' = Waited /\ pc' = "probe"
        /\ UNCHANGED yielded
  /\ UNCHANGED <<ours, failed, scene, local, world>>

\* Unlocked from here on.  Is the Flipper on a cable?
Probe ==
  /\ pc = "probe" /\ pc' = "look"
  /\ sawVbus' = vbus
  /\ UNCHANGED <<granted, taken, scene, flags, world, history>>

\* A rail that is up is somebody's, and left alone.
Look ==
  /\ pc = "look"
  /\ pc' = (IF rail # "off" THEN "idle" ELSE "ask")
  /\ yielded' = (yielded \/ rail # "off")
  /\ UNCHANGED <<unanswered, scene, flags, local, world>>

\* furi_hal_power_enable_otg(): a rail that is up stays as it is; the charger may refuse,
\* on a cable for its own reasons and on battery for a fault.
Ask ==
  /\ pc = "ask" /\ pc' = "settle"
  /\ \/ /\ granted' = TRUE
        /\ rail' = (IF rail = "off" THEN "app" ELSE rail)
        /\ UNCHANGED faults
     \/ /\ rail = "off"
        /\ granted' = FALSE
        /\ \/ vbus /\ UNCHANGED faults
           \/ ~vbus /\ faults < MaxFaults /\ faults' = faults + 1
        /\ UNCHANGED rail
  /\ UNCHANGED <<sawVbus, taken, scene, flags, vbus, own, hands, raced, history>>

\* Seeded defect: on a cable the answer is not looked at.
SettleUsbFirst ==
  /\ pc = "settle" /\ pc' = "idle"
  /\ \/ /\ sawVbus
        /\ attempted' = FALSE /\ wait' = 0
        /\ UNCHANGED <<ours, failed>>
     \/ /\ ~sawVbus
        /\ ours' = granted /\ failed' = ~granted
        /\ UNCHANGED <<attempted, wait>>
  /\ UNCHANGED <<scene, local, world, history>>

\* Seeded defect: a refusal on a cable spends the attempt.
SettleSpent ==
  /\ pc = "settle" /\ pc' = "idle"
  /\ ours' = granted
  /\ failed' = (failed \/ (~granted /\ ~sawVbus))
  /\ UNCHANGED <<attempted, wait, scene, local, world, history>>

\* Under the lock again: what the answer means.
Settle ==
  /\ pc = "settle" /\ pc' = "idle"
  /\ \/ /\ granted
        /\ ours' = TRUE
        /\ UNCHANGED <<attempted, failed, wait>>
     \/ /\ ~granted /\ sawVbus
        /\ attempted' = FALSE /\ wait' = 0
        /\ UNCHANGED <<ours, failed>>
     \/ /\ ~granted /\ ~sawVbus
        /\ failed' = TRUE
        /\ UNCHANGED <<attempted, ours, wait>>
  /\ UNCHANGED <<scene, local, world, history>>

-----------------------------------------------------------------------------
(* recon_app_esp_power_release(), behind the session's end at exit.        *)

Release ==
  /\ pc = "idle" /\ pc' = "off"
  /\ port' = "closed"
  /\ taken' = ours /\ ours' = FALSE
  /\ UNCHANGED <<connected, auto, attempted, failed, wait, sawVbus, granted, world, history>>

Lower ==
  /\ pc = "off" /\ pc' = "gone"
  /\ rail' = (IF taken THEN "off" ELSE rail)
  /\ taken' = FALSE
  /\ UNCHANGED <<sawVbus, granted, scene, flags, vbus, own, faults, hands, raced, history>>

-----------------------------------------------------------------------------
(* The scenes and the worker.                                              *)

\* scan_session_start(): the session exists also when the UART was refused.  All scenes
\* but the Locator's picker then clear the link.
Open ==
  /\ pc = "idle" /\ port = "closed"
  /\ port' \in {"open", "busy"}
  /\ connected' \in {connected, FALSE}
  /\ UNCHANGED <<auto, pc, flags, local, world, history>>

Close ==
  /\ pc = "idle" /\ port # "closed"
  /\ port' = "closed"
  /\ UNCHANGED <<connected, auto, pc, flags, local, world, history>>

\* The silence rule, or the Locator's entry.
Forget ==
  /\ pc = "idle" /\ connected
  /\ connected' = FALSE
  /\ UNCHANGED <<port, auto, pc, flags, local, world, history>>

\* Settings, reached from the menu many ticks after a port was closed.
Toggle ==
  /\ pc = "idle" /\ port = "closed" /\ wait = 0
  /\ auto' = ~auto
  /\ UNCHANGED <<port, connected, pc, flags, local, world, history>>

\* The worker takes in a line, at any point of a tick.
Hear ==
  /\ port = "open" /\ ~connected /\ (own \/ rail # "off")
  /\ connected' = TRUE
  /\ UNCHANGED <<port, auto, pc, flags, local, world, history>>

-----------------------------------------------------------------------------
(* The world.                                                              *)

\* A tick's period goes by between two handlers.
Period ==
  /\ pc = "idle" /\ (wait \in 1..Grace \/ unanswered < Grace)
  /\ wait' = (IF wait \in 1..Grace THEN wait + 1 ELSE wait)
  /\ unanswered' = (IF unanswered < Grace THEN unanswered + 1 ELSE unanswered)
  /\ UNCHANGED <<scene, attempted, ours, failed, pc, local, world, yielded>>

Cable ==
  /\ vbus' = ~vbus
  /\ UNCHANGED <<scene, flags, pc, local, rail, own, faults, hands, raced, history>>

Board ==
  /\ own' = ~own
  /\ UNCHANGED <<scene, flags, pc, local, rail, vbus, faults, hands, raced, history>>

\* The power service drops a boost that faulted.
Fault ==
  /\ rail # "off" /\ faults < MaxFaults
  /\ rail' = "off" /\ faults' = faults + 1
  /\ UNCHANGED <<scene, flags, pc, local, vbus, own, hands, raced, history>>

\* `power 5v 1` on the CLI.  Behind a tick's back: after the tick looked, or before one
\* saw that the app's own rail had gone down.
Raise ==
  /\ rail = "off" /\ hands < MaxHands
  /\ rail' = "user" /\ hands' = hands + 1
  /\ raced' = (raced \/ ours \/ taken \/ pc \in {"ask", "settle"})
  /\ UNCHANGED <<scene, flags, pc, local, vbus, own, faults, history>>

\* `power 5v 0`.
Cut ==
  /\ rail # "off" /\ hands < MaxHands
  /\ rail' = "off" /\ hands' = hands + 1
  /\ UNCHANGED <<scene, flags, pc, local, vbus, own, faults, raced, history>>

-----------------------------------------------------------------------------
Tick == Watch \/ Drop \/ Decide \/ Probe \/ Look \/ Ask \/ Settle
World == Period \/ Cable \/ Board \/ Fault \/ Raise \/ Cut
Next == Tick \/ Release \/ Lower \/ Open \/ Close \/ Forget \/ Toggle \/ Hear \/ World

Spec == Init /\ [][Next]_vars

\* A periodic timer starts the tick and nothing blocks it once begun; time passes between
\* ticks, though not during one.
FairSpec == Spec /\ WF_vars(Tick) /\ SF_vars(Period)

=============================================================================
