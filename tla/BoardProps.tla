----------------------------- MODULE BoardProps -----------------------------
(***************************************************************************)
(* What the companion's parts promise, and the survey it shares with the   *)
(* app: the one radio and its passengers, the line a frame becomes, the    *)
(* tracker actions, the devices it was told to look for.  The parts share  *)
(* no state, so each has a behaviour to itself: the others stay as they    *)
(* started.                                                                *)
(***************************************************************************)
EXTENDS BoardRadio, BoardFrames, BoardBle, AirSurvey

(* The radio's state keeps its shape: channels of the sweep, a Locator of  *)
(* two kinds, at most one slice and one hunt's window owed to the GPS.     *)
TypeOK ==
  /\ build \in Builds
  /\ scanning \in BOOLEAN /\ combo \in BOOLEAN /\ promisc \in BOOLEAN
  /\ locate \in {"", "w", "b"}
  /\ chan \in Channels \cup {1} /\ lock \in Channels \cup {0}
  /\ band \in Bands /\ hop_i \in 0..(hop_count(band) - 1)
  /\ at \in {"top", "pass", "rom"} \cup Blocked
  /\ left \in 0..2*BleSlices
  /\ phase \in 0..WifiTicks /\ hop_due \in BOOLEAN /\ ticked \in BOOLEAN /\ gps_on \in BOOLEAN
  /\ owed \in Nat /\ resets \in 0..MaxResets

(* Whatever blocked, locked or hunted before: outside a blocking call the  *)
(* sniffer is on unless the Locator hunts a BLE device, and a locked       *)
(* channel is the one the radio is on.  (flock_companion.ino: every path   *)
(* that turns promiscuous mode off restores it on some later path.)        *)
RadioRestored ==
  /\ at \in {"top", "pass"} /\ locate # "b" => promisc
  /\ lock # 0 => chan = lock

(* No window of the rotation keeps the GPS waiting for more than a second; *)
(* only a one-shot command does. (flock_companion.ino:1990-2011)           *)
GpsKeptUp ==
  owed <= 1 \/ order \in {"wifiscan", "blescan", "ble_action"}

(* The board is in a long unlocked scan; nobody restarts its sweep or keeps *)
(* it blocked with one-shot scans.                                          *)
Sweeping ==
  /\ scanning /\ lock = 0 /\ locate = "" /\ at # "rom"
  /\ order \notin {"band", "wifiscan", "blescan", "ble_action"}

(* However combo windows, one-shot scans and GPS settings fall, a board    *)
(* that sweeps comes to every channel of its band.                         *)
EveryChannelSwept ==
  \A c \in Channels :
    (Sweeping /\ c \in Elements(SweepOf(band)))
      ~> (chan = c \/ ~Sweeping \/ c \notin Elements(SweepOf(band)))

(* In combo mode neither half starves: a board that stays in it is back in *)
(* its BLE half, and starts another Wi-Fi half, again and again.           *)
InCombo == combo /\ build.ble /\ locate = "" /\ at # "rom" /\ order # "flockcombo"

ComboAlternates ==
  /\ InCombo ~> (at = "ble" \/ ~InCombo)
  /\ InCombo ~> ((promisc /\ phase < WifiTicks) \/ ~InCombo)

-----------------------------------------------------------------------------
(* The capture state keeps its shape and every counter its bound.          *)
FramesTypeOK ==
  /\ street \in DOMAIN Streets /\ mode \in Modes /\ target \in Addrs \cup {"none"} /\ best \in 0..2
  /\ run.age \in 0..Lapsed /\ since \in 0..Interval
  /\ Len(tracks) <= Tracks
  /\ \A i \in DOMAIN tracks : tracks[i].count \in 1..MaxRate
  /\ ring \subseteq Addrs /\ Cardinality(ring) <= Ring
  /\ probe_reqs \in 0..ProbeFlood /\ da_due \in BOOLEAN

(* A rung of 3 is a unit's own name: the line that claims it is about the  *)
(* transmitter of a beacon or a response that carries the name, never      *)
(* about a device that was asked or answered.  (flock_companion.ino:1515)  *)
ConfirmedByOwnName ==
  line # NoLine /\ line.conf = 3 =>
    /\ line.mac = line.ta /\ line.name = "unit"
    /\ line.kind \in {"beacon", "response"}

(* A probe is rated sustained on its transmitter's own cadence: a rate is  *)
(* never more than what that address sent within a window, whatever was    *)
(* evicted between.  (flock_companion.ino:895)                             *)
RateNeverOverstates ==
  \A i \in DOMAIN tracks :
    tracks[i].first <= Window => tracks[i].count <= Len(sent[tracks[i].mac])

-----------------------------------------------------------------------------
(* An action is under way exactly while its answer is owed.                *)
BleTypeOK ==
  /\ \A a \in BleAddrs : air[a] \in Adverts[a]
  /\ stage \in {"rest", "seek", "connect", "airtag", "dult", "wait", "legacy"}
  /\ (stage = "rest") = (act # "") /\ (stage = "rest") = (asked = NoAction)

(* A sound command is written to nothing but a tag that was separated from *)
(* its owner when this very request looked for it, whatever an earlier     *)
(* scan listed.  (flock_companion.ino:2318)                                *)
RingOnlySeparated ==
  stage \in {"airtag", "dult", "wait", "legacy"} =>
    /\ sought # Absent /\ Separated(sought)
    /\ asked.op = "ring"

-----------------------------------------------------------------------------
Rows(S) == [mac : Probers, rssi : 0..2, ch : {"home", "fringe", "none"}, count : 0..S]

(* The board's table, the app's copy and the line between keep their       *)
(* shape, and a row's signal and channel are of one sighting unless a line *)
(* was printed between its two stores.                                     *)
SurveyTypeOK ==
  /\ g_survey \in [Slots -> Rows(MaxCount) \cup {NoSighting}]
  /\ writing \in 0..BoardRows /\ cursor \in 0..BoardRows
  /\ sv_line \in Rows(MaxCount) \cup {NoSighting}
  /\ survey \in Seq(Rows(MaxCount)) /\ Len(survey) <= AppRows
  /\ torn_lines = 0 =>
       \A i \in DOMAIN survey : [rssi |-> survey[i].rssi, ch |-> survey[i].ch] \in Sightings

(* A device on the watch list that has a row and has gone quiet is not     *)
(* announced again because the board's table, with its running totals, is  *)
(* polled again, nor because the board was power-cycled and starts its     *)
(* totals over.  (recon_app.c:781)                                         *)
QuietStaysSilent == [][said' # "none" /\ Holding(survey, said') # {} => news]_survey_vars

-----------------------------------------------------------------------------
(* The parts under one roof.                                               *)
VARIABLE focus

board_vars == <<focus, vars, frames_vars, ble_vars, survey_vars>>

BoardInit ==
  /\ focus \in {"radio", "frames", "ble", "survey"}
  /\ Init /\ FramesInit /\ BleInit /\ SurveyInit

OnRadio(A) == focus = "radio" /\ A /\ UNCHANGED <<focus, frames_vars, ble_vars, survey_vars>>

Radio == OnRadio(Next)
Capture ==
  focus = "frames" /\ FramesNext /\ UNCHANGED <<focus, vars, ble_vars, survey_vars>>
Ble == focus = "ble" /\ BleNext /\ UNCHANGED <<focus, vars, frames_vars, survey_vars>>
Survey == focus = "survey" /\ SurveyNext /\ UNCHANGED <<focus, vars, frames_vars, ble_vars>>

BoardNext == Radio \/ Capture \/ Ble \/ Survey

BoardSpec == BoardInit /\ [][BoardNext]_board_vars

(* The radio's fairness is about its own state: BoardNext sees to the rest. *)
BoardFair ==
  /\ WF_vars(focus = "radio" /\ Step) /\ SF_vars(focus = "radio" /\ Clock)

(* The parts keep their shape, and the survey's rows what was heard.       *)
BoardTypes == TypeOK /\ FramesTypeOK /\ BleTypeOK /\ SurveyTypeOK

(* The loop's turns: a board that sweeps comes to every channel of its     *)
(* band, and neither half of combo mode starves.                           *)
TurnsAreTaken == focus = "radio" => EveryChannelSwept /\ ComboAlternates
=============================================================================
