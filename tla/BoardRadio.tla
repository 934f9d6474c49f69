----------------------------- MODULE BoardRadio -----------------------------
(***************************************************************************)
(* The companion's Arduino task: one command per pass of loop(), and the   *)
(* one radio it shares between the Wi-Fi sweep, the BLE windows, the       *)
(* Locator and the one-shot scans.  Channels are positions of a sweep;     *)
(* time is a tick, one dwell of the hopper long.                           *)
(***************************************************************************)
EXTENDS Integers, Sequences

CONSTANTS
  Builds,      \* the images: [ble, five, rom], TRUE if it has BLE, 5 GHz, a way to its ROM
  Sweep24,     \* the 2.4 GHz channels the hopper visits, in order
  Sweep5,      \* the 5 GHz ones
  WifiTicks,   \* dwells in the Wi-Fi half of combo mode
  BleSlices,   \* one-second slices in its BLE half
  MaxResets    \* power cycles

ASSUME RadioAssumption ==
  /\ \A bd \in Builds : {bd.ble, bd.five, bd.rom} \subseteq BOOLEAN
  /\ {Sweep24, Sweep5} \subseteq Seq(Nat \ {0}) \ {<<>>}
  /\ {WifiTicks, MaxResets} \subseteq Nat /\ BleSlices \in Nat \ {0}

VARIABLES
  build, scanning, combo, locate, lock, chan, band, hop_i, promisc,
  at,          \* where the task is: top or rest of a pass, or inside a blocking call
  left,        \* slices a BLE scan has left
  order,       \* the command this pass handled, or ""
  phase, hop_due,
  ticked,      \* a dwell has gone by since the last pass
  gps_on,
  owed,        \* blocking seconds since Serial1 was last drained
  resets

tuning == <<lock, chan, band, hop_i>>
vars == <<build, scanning, combo, locate, tuning, promisc, at, left, order,
          phase, hop_due, ticked, gps_on, owed, resets>>

Elements(s) == {s[i] : i \in DOMAIN s}
Channels == Elements(Sweep24) \cup Elements(Sweep5)
Bands == {"2g", "5g", "all"}
(* A malformed locate changes nothing either.                              *)
Queries == {"ver", "sigtest", "survey", "surveyclear", "locate?"}
Blocked == {"ble", "drain", "wifi", "action", "hunt"}

(* The sweep of a band: 2.4 GHz first, and never empty.                    *)
SweepOf(b) ==
  IF b = "2g" THEN Sweep24 ELSE IF b = "5g" THEN Sweep5 ELSE Sweep24 \o Sweep5

hop_count(b) == Len(SweepOf(b))
hop_channel(b, i) == SweepOf(b)[i + 1]

Min2(a, b) == IF a < b THEN a ELSE b

(* setup(): promiscuous, hopping, scanning, all the bands there are.  A    *)
(* radio that refuses the dual-band mode falls back to 2.4 GHz.            *)
BootBands(bd) == IF bd.five THEN {"all", "2g"} ELSE {"2g"}

Init ==
  /\ build \in Builds
  /\ band \in BootBands(build)
  /\ scanning = TRUE /\ combo = FALSE /\ locate = ""
  /\ lock = 0 /\ chan = 1 /\ hop_i = 0 /\ promisc = TRUE
  /\ at = "top" /\ left = 0 /\ order = ""
  /\ phase = 0 /\ hop_due = FALSE /\ ticked = FALSE
  /\ gps_on = FALSE /\ owed = 0 /\ resets = 0

(* The supply goes and comes back: everything but the build is lost.       *)
Reset ==
  /\ resets < MaxResets
  /\ resets' = resets + 1
  /\ band' \in BootBands(build)
  /\ scanning' = TRUE /\ combo' = FALSE /\ locate' = ""
  /\ lock' = 0 /\ chan' = 1 /\ hop_i' = 0 /\ promisc' = TRUE
  /\ at' = "top" /\ left' = 0 /\ order' = ""
  /\ phase' = 0 /\ hop_due' = FALSE /\ ticked' = FALSE
  /\ gps_on' = FALSE /\ owed' = 0
  /\ UNCHANGED build

(* loop() turns far faster than the hopper: a pass between two dwells.     *)
Clock ==
  /\ at = "top" /\ ~ticked
  /\ ticked' = TRUE
  /\ hop_due' = TRUE
  /\ phase' = Min2(phase + 1, WifiTicks)
  /\ UNCHANGED <<build, scanning, combo, locate, tuning, promisc, at, left,
                 order, gps_on, owed, resets>>

(* A call that blocks lets any number of them go by.                       *)
TimePasses ==
  /\ hop_due' = TRUE
  /\ phase' \in phase..WifiTicks

-----------------------------------------------------------------------------
(* Commands.  Every one that is not a query first takes the radio back     *)
(* from the Locator: a Wi-Fi hunt's channel is unlocked, a BLE hunt's      *)
(* promiscuous mode restored.                                              *)

FreedLock == IF locate = "w" THEN 0 ELSE lock
\* Seeded defect: a command leaves the sniffer as the hunt left it.
FreedPromiscNot == promisc

FreedPromisc == promisc \/ locate = "b"

Take(c) ==
  /\ at = "top"
  /\ order' = c
  /\ UNCHANGED <<build, hop_due, ticked, resets>>

Retask(c) ==
  /\ Take(c)
  /\ locate' = ""
  /\ lock' = FreedLock
  /\ promisc' = FreedPromisc

(* The modes; "stop" leaves the dual band too, "flockwifi" only that.      *)
SetMode ==
  \/ \E c \in {"scan", "stop", "flockwifi"} :
       /\ Retask(c)
       /\ combo' = FALSE
       /\ scanning' = IF c = "flockwifi" THEN scanning ELSE c = "scan"
       /\ at' = "pass"
       /\ UNCHANGED <<chan, band, hop_i, left, phase, gps_on, owed>>
  \/ /\ Retask("flockcombo")
     /\ scanning' = TRUE /\ combo' = TRUE /\ phase' = 0
     /\ at' = "pass"
     /\ UNCHANGED <<chan, band, hop_i, left, gps_on, owed>>

Query ==
  /\ \E c \in Queries : Take(c)
  /\ at' = "pass"
  /\ UNCHANGED <<scanning, combo, locate, tuning, promisc, left, phase, gps_on, owed>>

(* The GPS relay: off, a usable pin, a refused pin or the bare question.   *)
Gps ==
  /\ Retask("gps")
  /\ gps_on' \in BOOLEAN
  /\ at' = "pass"
  /\ UNCHANGED <<scanning, combo, chan, band, hop_i, left, phase, owed>>

(* A channel that is in range is locked and tuned; any other resumes the   *)
(* sweep.                                                                  *)
Ch ==
  /\ Take("ch")
  /\ locate' = "" /\ promisc' = FreedPromisc
  /\ \/ \E n \in Elements(Sweep24) \cup (IF build.five THEN Elements(Sweep5) ELSE {}) :
          lock' = n /\ chan' = n
     \/ lock' = 0 /\ UNCHANGED chan
  /\ at' = "pass"
  /\ UNCHANGED <<scanning, combo, band, hop_i, left, phase, gps_on, owed>>

Band ==
  /\ Take("band")
  /\ locate' = "" /\ promisc' = FreedPromisc
  /\ band' \in IF build.five THEN Bands ELSE {"2g"}
  /\ hop_i' = 0
  /\ lock' = 0
  /\ chan' = hop_channel(band', 0)
  /\ at' = "pass"
  /\ UNCHANGED <<scanning, combo, left, phase, gps_on, owed>>

(* A hunt takes the radio: scanning ends, and a Wi-Fi hunt parks on its    *)
(* channel when the command names one of the 2.4 GHz band.                 *)
Locate ==
  /\ Take("locate")
  /\ scanning' = FALSE /\ combo' = FALSE
  /\ \/ /\ locate' = "b"
        /\ UNCHANGED <<lock, chan, promisc>>
     \/ /\ locate' = "w"
        /\ promisc' = TRUE
        /\ \/ \E n \in Elements(Sweep24) : lock' = n /\ chan' = n
           \/ lock' = 0 /\ UNCHANGED chan
  /\ at' = "pass"
  /\ UNCHANGED <<band, hop_i, left, phase, gps_on, owed>>

LocateOff ==
  /\ Take("off")
  /\ locate' = "" /\ lock' = 0 /\ promisc' = FreedPromisc
  /\ at' = "pass"
  /\ UNCHANGED <<scanning, combo, chan, band, hop_i, left, phase, gps_on, owed>>

(* The commands that block in their handler with the sniffer off: a        *)
(* security scan, a BLE scan in slices, a ping or ring of one tracker.  On *)
(* an image without BLE the last two answer at once.                       *)
WifiScan ==
  /\ Take("wifiscan")
  /\ locate' = "" /\ lock' = FreedLock /\ promisc' = FALSE
  /\ at' = "wifi"
  /\ UNCHANGED <<scanning, combo, chan, band, hop_i, left, phase, gps_on, owed>>

BleCommand ==
  /\ \E c \in {"blescan", "ble_action"} :
       /\ Take(c)
       /\ locate' = ""
       /\ lock' = FreedLock
       /\ IF build.ble
          THEN /\ promisc' = FALSE
               /\ at' = IF c = "blescan" THEN "ble" ELSE "action"
               /\ left' = IF c = "blescan" THEN 2 * BleSlices ELSE 0
          ELSE promisc' = FreedPromisc /\ at' = "pass" /\ UNCHANGED left
  /\ UNCHANGED <<scanning, combo, chan, band, hop_i, phase, gps_on, owed>>

(* Download mode, where the chip can be sent there, is left by a power     *)
(* cycle only.  A command nobody knows, or a ping or ring of no address,   *)
(* still ends a hunt.                                                      *)
Bootloader ==
  /\ \E c \in {"bootloader", "unknown"} :
       /\ Retask(c)
       /\ at' = IF c = "bootloader" /\ build.rom THEN "rom" ELSE "pass"
  /\ UNCHANGED <<scanning, combo, chan, band, hop_i, left, phase, gps_on, owed>>

Command ==
  \/ SetMode \/ Query \/ Gps \/ Ch \/ Band \/ Locate \/ LocateOff
  \/ WifiScan \/ BleCommand \/ Bootloader

-----------------------------------------------------------------------------
(* The rest of a pass: drain the GPS, then the Locator, a combo window, or *)
(* a hop.                                                                  *)

NoCommand ==
  /\ at = "top" /\ at' = "pass" /\ order' = ""
  /\ UNCHANGED <<build, scanning, combo, locate, tuning, promisc, left, phase,
                 hop_due, ticked, gps_on, owed, resets>>

Pass ==
  /\ at = "pass"
  /\ owed' = 0
  /\ order' = "" /\ ticked' = FALSE
  /\ UNCHANGED <<build, scanning, combo, locate, lock, band, gps_on, resets>>

PassHunting ==
  /\ Pass
  /\ locate # ""
  /\ at' = IF locate = "b" /\ build.ble THEN "hunt" ELSE "top"
  /\ promisc' = (promisc /\ ~(locate = "b" /\ build.ble))
  /\ UNCHANGED <<chan, hop_i, left, phase, hop_due>>

ComboDue == combo /\ phase = WifiTicks

PassCombo ==
  /\ Pass
  /\ locate = "" /\ ComboDue
  /\ IF build.ble
     THEN at' = "ble" /\ left' = BleSlices /\ promisc' = FALSE /\ UNCHANGED phase
     ELSE at' = "top" /\ phase' = 0 /\ UNCHANGED <<left, promisc>>
  /\ UNCHANGED <<chan, hop_i, hop_due>>

\* Seeded defect: the sweep starts over one channel early.
NextHopShort == IF hop_i + 2 < hop_count(band) THEN hop_i + 1 ELSE 0

(* One index further, whatever the channel numbers are.                    *)
NextHop == (hop_i + 1) % hop_count(band)

PassSweep ==
  /\ Pass
  /\ locate = "" /\ ~ComboDue
  /\ at' = "top"
  /\ IF scanning /\ lock = 0 /\ hop_due
     THEN /\ hop_i' = NextHop
          /\ chan' = hop_channel(band, NextHop)
          /\ hop_due' = FALSE
     ELSE UNCHANGED <<hop_i, chan, hop_due>>
  /\ UNCHANGED <<promisc, left, phase>>

(* A BLE scan is cut into one-second slices and the GPS drained after      *)
(* each; the last one puts the sniffer back on the channel it left.        *)
Slice ==
  /\ at = "ble" /\ left > 0
  /\ owed' = owed + 1
  /\ at' = "drain"
  /\ TimePasses
  /\ UNCHANGED <<build, scanning, combo, locate, tuning, promisc, left, order,
                 ticked, gps_on, resets>>

\* Seeded defect: the slices run on, and the GPS waits for the last one.
DrainedLast == owed' = IF left > 1 THEN owed ELSE 0

Drained == owed' = 0

\* Seeded defect: the Wi-Fi half does not start over.
DrainUntimed ==
  /\ at = "drain"
  /\ Drained
  /\ left' = left - 1
  /\ IF left > 1
     THEN at' = "ble" /\ UNCHANGED promisc
     ELSE /\ promisc' = TRUE
          /\ at' = IF order = "blescan" THEN "pass" ELSE "top"
  /\ UNCHANGED <<build, scanning, combo, locate, tuning, order, hop_due, ticked, gps_on, resets,
                 phase>>

(* Back where the scan was called: the pass that was due for it ends and   *)
(* the Wi-Fi half starts over; a command's pass goes on.                   *)
Drain ==
  /\ at = "drain"
  /\ Drained
  /\ left' = left - 1
  /\ IF left > 1
     THEN at' = "ble" /\ UNCHANGED <<promisc, phase>>
     ELSE /\ promisc' = TRUE
          /\ IF order = "blescan"
             THEN at' = "pass" /\ UNCHANGED phase
             ELSE at' = "top" /\ phase' = 0
  /\ UNCHANGED <<build, scanning, combo, locate, tuning, order, hop_due, ticked, gps_on, resets>>

WifiScanned ==
  /\ at = "wifi"
  /\ promisc' = TRUE
  /\ owed' = 2
  /\ at' = "pass"
  /\ TimePasses
  /\ UNCHANGED <<build, scanning, combo, locate, tuning, left, order, ticked,
                 gps_on, resets>>

Acted ==
  /\ at = "action"
  /\ promisc' = TRUE
  /\ owed' = 2
  /\ at' = "pass"
  /\ TimePasses
  /\ UNCHANGED <<build, scanning, combo, locate, tuning, left, order, ticked,
                 gps_on, resets>>

(* A hunt's window leaves the sniffer off: nothing else wants the radio.   *)
Hunted ==
  /\ at = "hunt"
  /\ owed' = 1
  /\ at' = "top"
  /\ TimePasses
  /\ UNCHANGED <<build, scanning, combo, locate, tuning, promisc, left, order,
                 ticked, gps_on, resets>>

-----------------------------------------------------------------------------
Step ==
  \/ NoCommand \/ PassHunting \/ PassCombo \/ PassSweep
  \/ Slice \/ Drain \/ WifiScanned \/ Acted \/ Hunted

Next == Command \/ Step \/ Clock \/ Reset

Spec == Init /\ [][Next]_vars

(* loop() is called for ever, its blocking calls return, and time passes.  *)
Fairness == WF_vars(Step) /\ SF_vars(Clock)

FairSpec == Spec /\ Fairness
=============================================================================
