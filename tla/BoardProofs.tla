----------------------------- MODULE BoardProofs -----------------------------
(***************************************************************************)
(* Why the companion's promises hold, for every sweep, street, tag and     *)
(* table.                                                                  *)
(***************************************************************************)
EXTENDS BoardProps, SequenceTheorems, FiniteSetTheorems, WellFoundedInduction, TLAPS

(* Why the radio comes back: only a BLE hunt's window leaves the sniffer   *)
(* off, and it does so for the hunt alone.                                 *)
HuntsOwnWindow == at = "hunt" => locate = "b"

RadioInv == RadioRestored /\ HuntsOwnWindow

LEMMA InitRadio == Init => RadioInv
BY DEF Init, RadioInv, RadioRestored, HuntsOwnWindow

LEMMA StepRadio == RadioInv /\ [Next]_vars => RadioInv'
<1> SUFFICES ASSUME RadioInv, [Next]_vars PROVE RadioInv'
  OBVIOUS
<1> USE DEF RadioInv, RadioRestored, HuntsOwnWindow, tuning
<1>1. CASE Command
  <2> USE DEF Take, Retask, FreedLock, FreedPromisc
  <2>1. CASE SetMode
    BY <2>1 DEF SetMode
  <2>2. CASE Query
    BY <2>2 DEF Query
  <2>3. CASE Gps
    BY <2>3 DEF Gps
  <2>4. CASE Ch
    <3>1. CASE lock' = 0
      BY <2>4, <3>1, Zenon DEF Ch
    <3>2. ASSUME NEW n, lock' = n, chan' = n PROVE RadioInv'
      BY <2>4, <3>2, Zenon DEF Ch
    <3> QED BY <2>4, <3>1, <3>2, Zenon DEF Ch
  <2>5. CASE Band
    BY <2>5 DEF Band
  <2>6. CASE Locate
    BY <2>6 DEF Locate
  <2>7. CASE LocateOff
    BY <2>7 DEF LocateOff
  <2>8. CASE WifiScan
    BY <2>8 DEF WifiScan
  <2>9. CASE BleCommand
    BY <2>9 DEF BleCommand
  <2>10. CASE Bootloader
    BY <2>10 DEF Bootloader
  <2> QED BY <1>1, <2>1, <2>2, <2>3, <2>4, <2>5, <2>6, <2>7, <2>8, <2>9, <2>10
       DEF Command
<1>2. CASE NoCommand
  BY <1>2 DEF NoCommand
<1>3. CASE PassHunting
  BY <1>3 DEF PassHunting, Pass
<1>4. CASE PassCombo
  BY <1>4 DEF PassCombo, Pass
<1>5. CASE PassSweep
  BY <1>5 DEF PassSweep, Pass
<1>6. CASE Slice
  BY <1>6 DEF Slice
<1>7. CASE Drain
  BY <1>7 DEF Drain
<1>8. CASE WifiScanned
  BY <1>8 DEF WifiScanned
<1>9. CASE Acted
  BY <1>9 DEF Acted
<1>10. CASE Hunted
  BY <1>10 DEF Hunted
<1>11. CASE Clock
  BY <1>11 DEF Clock
<1>12. CASE Reset
  BY <1>12 DEF Reset
<1>13. CASE UNCHANGED vars
  BY <1>13 DEF vars
<1> QED BY <1>1, <1>2, <1>3, <1>4, <1>5, <1>6, <1>7, <1>8, <1>9, <1>10, <1>11,
     <1>12, <1>13 DEF Next, Step

(* Every path that takes the radio from the sniffer gives it back, for any *)
(* sweep, any image and any order of commands.                             *)
THEOREM SnifferComesBack == Spec => []RadioRestored
<1>1. RadioInv => RadioRestored
  BY DEF RadioInv
<1> QED BY <1>1, InitRadio, StepRadio, PTL DEF Spec

(* What the GPS is owed at each place of the task: nothing before a slice  *)
(* of the rotation, one slice before its drain, one window at the top.     *)
OneShot == order \in {"wifiscan", "blescan", "ble_action"}

OwedByPlace ==
  /\ owed \in Nat
  /\ at = "top" => owed <= 1
  /\ at = "ble" => owed = 0 \/ OneShot
  /\ at \in {"wifi", "action"} => OneShot

OwedInv == GpsKeptUp /\ OwedByPlace

LEMMA InitOwed == Init => OwedInv
<1>1. Init => owed = 0 /\ at = "top"
  BY DEF Init
<1> QED BY <1>1 DEF OwedInv, GpsKeptUp, OwedByPlace

LEMMA StepOwed == OwedInv /\ [Next]_vars => OwedInv'
<1> SUFFICES ASSUME OwedInv, [Next]_vars PROVE OwedInv'
  OBVIOUS
<1> USE DEF OwedInv, GpsKeptUp, OwedByPlace, OneShot
<1>1. CASE Command
  <2> USE DEF Take, Retask
  <2>1. CASE SetMode
    BY <2>1 DEF SetMode
  <2>2. CASE Query
    BY <2>2 DEF Query
  <2>3. CASE Gps
    BY <2>3 DEF Gps
  <2>4. CASE Ch
    BY <2>4 DEF Ch
  <2>5. CASE Band
    BY <2>5 DEF Band
  <2>6. CASE Locate
    BY <2>6 DEF Locate
  <2>7. CASE LocateOff
    BY <2>7 DEF LocateOff
  <2>8. CASE WifiScan
    BY <2>8 DEF WifiScan
  <2>9. CASE BleCommand
    <3>1. UNCHANGED owed /\ at = "top"
      BY <2>9, Zenon DEF BleCommand
    <3>2. order' \in {"blescan", "ble_action"}
      BY <2>9, Zenon DEF BleCommand
    <3> QED BY <3>1, <3>2
  <2>10. CASE Bootloader
    BY <2>10 DEF Bootloader
  <2> QED BY <1>1, <2>1, <2>2, <2>3, <2>4, <2>5, <2>6, <2>7, <2>8, <2>9, <2>10
       DEF Command
<1>2. CASE NoCommand
  BY <1>2 DEF NoCommand
<1>3. CASE PassHunting
  <2>1. owed' = 0 /\ at' # "ble" /\ at' \notin {"wifi", "action"}
    BY <1>3, Zenon DEF PassHunting, Pass
  <2> QED BY <2>1
<1>4. CASE PassCombo
  <2>1. owed' = 0 /\ at' \notin {"wifi", "action"}
    BY <1>4, Zenon DEF PassCombo, Pass
  <2> QED BY <2>1
<1>5. CASE PassSweep
  <2>1. owed' = 0 /\ at' \notin {"wifi", "action"}
    BY <1>5, Zenon DEF PassSweep, Pass
  <2> QED BY <2>1
<1>6. CASE Slice
  BY <1>6 DEF Slice
<1>7. CASE Drain
  BY <1>7 DEF Drain, Drained
<1>8. CASE WifiScanned
  BY <1>8 DEF WifiScanned
<1>9. CASE Acted
  BY <1>9 DEF Acted
<1>10. CASE Hunted
  BY <1>10 DEF Hunted
<1>11. CASE Clock
  BY <1>11 DEF Clock
<1>12. CASE Reset
  <2>1. owed' = 0 /\ at' = "top"
    BY <1>12 DEF Reset
  <2> QED BY <2>1
<1>13. CASE UNCHANGED vars
  BY <1>13 DEF vars
<1> QED BY <1>1, <1>2, <1>3, <1>4, <1>5, <1>6, <1>7, <1>8, <1>9, <1>10, <1>11,
     <1>12, <1>13 DEF Next, Step

(* The GPS is never owed more than one slice by the rotation, for any      *)
(* number of slices in a window.                                           *)
THEOREM GpsNeverWaits == Spec => []GpsKeptUp
<1>1. OwedInv => GpsKeptUp
  BY DEF OwedInv
<1> QED BY <1>1, InitOwed, StepOwed, PTL DEF Spec

-----------------------------------------------------------------------------
(* The tracker actions.  Past its own scan an action knows the tag it is   *)
(* about, and a ring has seen it away from its owner.                      *)
BleKnows ==
  /\ air \in [BleAddrs -> UNION {Adverts[a] : a \in BleAddrs}]
  /\ asked \in {NoAction} \cup [op : {"ping", "ring"}, addr : BleAddrs]
  /\ stage \notin {"rest", "seek"} /\ asked.op = "ring" =>
       sought # Absent /\ Separated(sought)
  /\ stage \in {"airtag", "dult", "wait", "legacy"} => asked.op = "ring"

BleInv == BleTypeOK /\ BleKnows

LEMMA InitBle == BleInit => BleInv
<1> SUFFICES ASSUME BleInit PROVE BleInv
  OBVIOUS
<1>1. BleTypeOK
  BY DEF BleInit, BleTypeOK
<1>2. BleKnows
  BY DEF BleInit, BleKnows
<1> QED BY <1>1, <1>2 DEF BleInv

\* A ring that is not refused is for a tag away from its owner.
LEMMA UnrefusedRing ==
  ASSUME NEW d, Refusal("ring", d) = "none"
  PROVE  Separated(d)
BY DEF Refusal

\* An answer ends the action, whatever it was.
LEMMA AnswerEnds ==
  ASSUME NEW status, status # "", Answer(status), UNCHANGED air, BleInv
  PROVE  BleInv'
BY DEF Answer, BleInv, BleTypeOK, BleKnows, NoAction

\* Nothing but the answer of an action moves its own step on.
LEMMA ProceedKeeps ==
  ASSUME NEW s \in {"airtag", "dult", "wait", "legacy"}, Proceed(s), UNCHANGED air, BleInv,
         stage \notin {"rest", "seek"}, asked.op = "ring"
  PROVE  BleInv'
BY DEF Proceed, BleInv, BleTypeOK, BleKnows

LEMMA StepBle == BleInv /\ [BleNext]_ble_vars => BleInv'
<1> SUFFICES ASSUME BleInv, [BleNext]_ble_vars PROVE BleInv'
  OBVIOUS
<1> USE DEF BleInv
<1>1. CASE ble_do_scan
  BY <1>1 DEF ble_do_scan, action, BleTypeOK, BleKnows
<1>2. CASE Change
  BY <1>2, ZenonT(30) DEF Change, action, BleTypeOK, BleKnows
<1>3. CASE Request
  <2>1. CASE UNCHANGED <<asked, stage>> /\ act' \in {"invalid", "noble"}
    BY <1>3, <2>1 DEF Request, BleTypeOK, BleKnows
  <2>2. ASSUME NEW op \in {"ping", "ring"}, NEW a \in BleAddrs,
               asked' = [op |-> op, addr |-> a], stage' = "seek", act' = ""
        PROVE  BleInv'
    <3>1. UNCHANGED <<air, fresh, sought>>
      BY <1>3 DEF Request
    <3>2. asked' # NoAction /\ asked'.op = op
      BY <2>2 DEF NoAction
    <3> QED BY <2>2, <3>1, <3>2 DEF BleTypeOK, BleKnows
  <2> QED BY <1>3, <2>1, <2>2 DEF Request
<1>4. CASE ble_action_find_target
  <2> DEFINE d == Seen(asked.addr)
  <2>1. CASE Answer("not_found")
    BY <1>4, <2>1, AnswerEnds DEF ble_action_find_target
  <2>2. CASE d # Absent /\ Refusal(asked.op, d) # "none" /\ Answer(Refusal(asked.op, d))
    <3>1. Refusal(asked.op, d) # ""
      BY DEF Refusal
    <3> QED BY <1>4, <2>2, <3>1, AnswerEnds DEF ble_action_find_target
  <2>3. CASE /\ d # Absent /\ Refusal(asked.op, d) = "none"
             /\ stage' = "connect" /\ sought' = air[asked.addr] /\ UNCHANGED <<asked, act>>
    <3>1. UNCHANGED air /\ stage = "seek"
      BY <1>4 DEF ble_action_find_target
    <3>2. asked.op = "ring" => sought' # Absent /\ Separated(sought')
      BY <2>3, UnrefusedRing DEF Seen
    <3> QED BY <2>3, <3>1, <3>2 DEF BleTypeOK, BleKnows, Separated
  <2> QED BY <1>4, <2>1, <2>2, <2>3 DEF ble_action_find_target
<1>5. CASE ble_action_connect
  BY <1>5, AnswerEnds, ProceedKeeps DEF ble_action_connect
<1>6. CASE ble_ring_write_airtag
  BY <1>6, AnswerEnds, ProceedKeeps DEF ble_ring_write_airtag, BleKnows
<1>7. CASE ble_ring_write_dult
  BY <1>7, AnswerEnds, ProceedKeeps DEF ble_ring_write_dult, BleKnows
<1>8. CASE ble_ring_notify
  BY <1>8, AnswerEnds DEF ble_ring_notify
<1>9. CASE ble_ring_write_legacy
  BY <1>9, AnswerEnds DEF ble_ring_write_legacy
<1>10. CASE UNCHANGED ble_vars
  BY <1>10 DEF ble_vars, action, BleTypeOK, BleKnows, Separated
<1> QED BY <1>1, <1>2, <1>3, <1>4, <1>5, <1>6, <1>7, <1>8, <1>9, <1>10 DEF BleNext, BleStep

(* Whatever is on the air and however it changes between request, scan and *)
(* connection: a sound is asked of nothing but a tag this very request     *)
(* found away from its owner.                                              *)
THEOREM OnlySeparatedRings == BleSpec => []RingOnlySeparated
<1>1. BleInv => RingOnlySeparated
  BY DEF BleInv, BleKnows, RingOnlySeparated
<1> QED BY <1>1, InitBle, StepBle, PTL DEF BleSpec

-----------------------------------------------------------------------------
(* The frames.  Apart from the rates and the line, the capture state keeps *)
(* its shape whatever is heard.                                            *)
Shape ==
  /\ street \in DOMAIN Streets /\ mode \in Modes
  /\ target \in Addrs \cup {"none"} /\ best \in 0..2
  /\ run = [fp |-> run.fp, last |-> run.last, age |-> run.age] /\ run.age \in 0..Lapsed
  /\ since \in 0..Interval
  /\ ring \subseteq Addrs /\ IsFiniteSet(ring) /\ Cardinality(ring) <= Ring
  /\ probe_reqs \in 0..ProbeFlood /\ da_due \in BOOLEAN

LEMMA LesserIsOne ==
  ASSUME NEW m \in Int, NEW n \in Int
  PROVE  Lesser(m, n) \in {m, n} /\ Lesser(m, n) <= m /\ Lesser(m, n) <= n
BY DEF Lesser

LEMMA InitShape == FramesInit => Shape
<1>1. IsFiniteSet({}) /\ Cardinality({}) = 0
  BY FS_EmptySet
<1> QED BY <1>1, FramesAssumption DEF FramesInit, Shape, Modes, Lapsed

LEMMA StepShape == Shape /\ [FramesNext]_frames_vars => Shape'
<1> SUFFICES ASSUME Shape, [FramesNext]_frames_vars PROVE Shape'
  OBVIOUS
<1> USE FramesAssumption DEF Shape
<1>0. IsFiniteSet({}) /\ Cardinality({}) = 0
  BY FS_EmptySet
<1>1. ASSUME NEW f \in Streets[street], Frame(f) PROVE Shape'
  <2> DEFINE rate == IF f.kind = "probe" THEN Rated(f.ta).count ELSE 0
  <2>1. f.ta \in Addrs /\ f.rssi \in 0..2
    OBVIOUS
  <2>2. UNCHANGED <<street, mode, target, since>>
    BY <1>1 DEF Frame
  <2>3. ring' \subseteq Addrs /\ IsFiniteSet(ring') /\ Cardinality(ring') <= Ring
    <3>1. CASE ring' = ring
      BY <3>1
    <3>2. CASE ring' = ring \cup {f.ta} /\ f.ta \notin ring /\ Cardinality(ring) < Ring
      <4>1. IsFiniteSet(ring') /\ Cardinality(ring') = Cardinality(ring) + 1
        BY <3>2, FS_AddElement
      <4>2. Cardinality(ring) \in Nat
        BY FS_CardinalityType
      <4> QED BY <2>1, <3>2, <4>1, <4>2
    <3> QED BY <1>1, <3>1, <3>2 DEF Frame, note_beacon_bssid
  <2>4. probe_reqs' \in 0..ProbeFlood
    <3>1. probe_reqs' \in {probe_reqs, Lesser(probe_reqs + 1, ProbeFlood)}
      BY <1>1 DEF Frame
    <3> QED BY <3>1, LesserIsOne DEF Lesser
  <2>5. best' \in 0..2
    <3>1. best' = Homed(f)
      BY <1>1 DEF Frame
    <3> QED BY <2>1, <3>1 DEF Homed, Greater
  <2>6. da_due' \in BOOLEAN
    <3>1. da_due' = (da_due /\ f.kind # "deauth")
      BY <1>1 DEF Frame
    <3> QED BY <3>1
  <2>7. run' = [fp |-> run'.fp, last |-> run'.last, age |-> run'.age] /\ run'.age \in 0..Lapsed
    <3>1. run' = run \/ run' = [fp |-> f.fp, last |-> f.seq, age |-> 0]
      BY <1>1 DEF Frame, seq_run_duplicate
    <3> QED BY <3>1 DEF Lapsed
  <2> QED BY <2>2, <2>3, <2>4, <2>5, <2>6, <2>7
<1>2. CASE Status
  BY <1>0, <1>2 DEF Status, hunted
<1>3. CASE Loc
  BY <1>3 DEF Loc, flood
<1>4. ASSUME NEW m \in Modes \ {mode}, Order(m) PROVE Shape'
  BY <1>4 DEF Order, hunted, flood
<1>5. CASE Tick
  <2>1. since' \in 0..Interval
    BY <1>5, LesserIsOne DEF Tick, Lesser
  <2>2. run' = [run EXCEPT !.age = Lesser(@ + 1, Lapsed)]
    BY <1>5 DEF Tick
  <2>3. run' = [fp |-> run'.fp, last |-> run'.last, age |-> run'.age]
    BY <2>2
  <2>4. run'.age \in 0..Lapsed
    BY <2>2, LesserIsOne DEF Lesser, Lapsed
  <2> QED BY <1>5, <2>1, <2>3, <2>4 DEF Tick, hunted, flood
<1>6. CASE UNCHANGED frames_vars
  BY <1>6 DEF frames_vars, hunted, flood
<1> QED BY <1>1, <1>2, <1>3, <1>4, <1>5, <1>6 DEF FramesNext, Hear, Commands

(* Where a line comes from: a frame and a rate, through the ladder.        *)
LineOfAFrame == line = NoLine \/ \E f, rate : line = Line(f, rate)

LEMMA StepLine == LineOfAFrame /\ [FramesNext]_frames_vars => LineOfAFrame'
BY Zenon DEF LineOfAFrame, FramesNext, Hear, Frame, Status, Loc, Commands, Order, Tick, frames_vars

\* A rung of 3 takes a score of 3, and only a name of one's own has it.
LEMMA RungOfThree ==
  ASSUME NEW f, NEW rate, Conf(f, rate) = 3
  PROVE  ~RxSide(f) /\ Found(f) /\ f.name = "unit" /\ f.kind \in {"beacon", "response"}
<1>1. Score(f) = 3
  BY DEF Conf
<1>2. ~RxSide(f) /\ ssid_score(f) = 3 /\ f.kind # "probe"
  BY <1>1 DEF Score, Lesser, ssid_score
<1> QED BY <1>2 DEF ssid_score, Found, Tagged

(* A line confirms nothing but the transmitter of a beacon or a response   *)
(* that carries a unit's name, whatever the streets, prefixes and rates.   *)
THEOREM OwnNameConfirms == FramesSpec => []ConfirmedByOwnName
<1>1. FramesInit => LineOfAFrame
  BY DEF FramesInit, LineOfAFrame
<1>2. LineOfAFrame => ConfirmedByOwnName
  <2> SUFFICES ASSUME NEW f, NEW rate, line = Line(f, rate), line.conf = 3
               PROVE  /\ line.mac = line.ta /\ line.name = "unit"
                      /\ line.kind \in {"beacon", "response"}
    BY DEF LineOfAFrame, ConfirmedByOwnName
  <2>1. Conf(f, rate) = 3
    BY DEF Line
  <2> QED BY <2>1, RungOfThree DEF Line, Reported
<1> QED BY <1>1, <1>2, StepLine, PTL DEF FramesSpec

(* The rates.  A track whose window is open counts probes of its own: the  *)
(* oldest it counts is no older than the window.                           *)
Track == [mac : Addrs, count : 1..MaxRate, first : 0..Lapsed]

Ascending(s) == \A i, j \in DOMAIN s : i <= j => s[i] <= s[j]

Backed(t) ==
  t.first <= Window => t.count <= Len(sent[t.mac]) /\ sent[t.mac][t.count] <= t.first

RatesInv ==
  /\ tracks \in Seq(Track) /\ Len(tracks) <= Tracks
  /\ \A i, j \in DOMAIN tracks : tracks[i].mac = tracks[j].mac => i = j
  /\ sent \in [Addrs -> Seq(0..Window)]
  /\ \A a \in Addrs : Len(sent[a]) <= MaxRate /\ Ascending(sent[a])
  /\ \A i \in DOMAIN tracks : Backed(tracks[i])

LEMMA InitRates == FramesInit => RatesInv
<1> SUFFICES ASSUME FramesInit PROVE RatesInv
  OBVIOUS
<1>1. tracks = <<>> /\ sent = [a \in Addrs |-> <<>>]
  BY DEF FramesInit
<1> QED BY <1>1, FramesAssumption DEF RatesInv, Ascending

\* What a tick leaves of an address's probes: all that are still inside the window, in
\* their order and one tick older.
LEMMA OlderKeeps ==
  ASSUME NEW s \in Seq(0..Window), Ascending(s)
  PROVE  /\ Older(s) \in Seq(0..Window) /\ Len(Older(s)) <= Len(s)
         /\ \A i \in DOMAIN Older(s) : Older(s)[i] = s[i] + 1
         /\ \A k \in DOMAIN s : s[k] < Window => k <= Len(Older(s))
<1> DEFINE aged == [i \in DOMAIN s |-> s[i] + 1]
           C == {i \in DOMAIN s : aged[i] <= Window}
           n == Cardinality(C)
<1>1. DOMAIN s = 1..Len(s) /\ Len(s) \in Nat /\ Window \in Nat
  BY FramesAssumption
<1>2. \A i \in 1..Len(s) : s[i] \in 0..Window /\ aged[i] = s[i] + 1
  BY <1>1, ElementOfSeq
<1>3. C \subseteq 1..Len(s) /\ \A k \in 1..Len(s) : k \in C <=> s[k] < Window
  BY <1>1, <1>2
<1>4. \A i, j \in 1..Len(s) : i <= j /\ j \in C => i \in C
  <2>1. \A i, j \in 1..Len(s) : i <= j => s[i] <= s[j]
    BY <1>1 DEF Ascending
  <2> HIDE DEF C, aged
  <2> QED BY <1>1, <1>2, <1>3, <2>1
<1>5. Older(s) = SubSeq(aged, 1, n)
  BY DEF Older
<1> HIDE DEF C, aged
<1>6. IsFiniteSet(C) /\ n \in Nat /\ n <= Len(s)
  <2>1. IsFiniteSet(1..Len(s)) /\ Cardinality(1..Len(s)) = Len(s)
    <3>1. 1 \in Int /\ Len(s) \in Int
      BY <1>1
    <3>2. /\ IsFiniteSet(1..Len(s))
          /\ Cardinality(1..Len(s)) = IF 1 > Len(s) THEN 0 ELSE Len(s) - 1 + 1
      BY <3>1, FS_Interval
    <3> QED BY <1>1, <3>2
  <2>2. IsFiniteSet(C) /\ n <= Cardinality(1..Len(s))
    BY <1>3, <2>1, FS_Subset
  <2>3. n \in Nat
    BY <2>2, FS_CardinalityType
  <2> QED BY <2>1, <2>2, <2>3
<1>7. ASSUME NEW k \in C PROVE k <= n
  <2>1. k \in Nat /\ k >= 1
    BY <1>1, <1>3
  <2>2. 1..k \subseteq C
    BY <1>1, <1>3, <1>4, <2>1
  <2>3. Cardinality(1..k) = k
    <3>1. 1 \in Int /\ k \in Int
      BY <2>1
    <3>2. Cardinality(1..k) = IF 1 > k THEN 0 ELSE k - 1 + 1
      BY <3>1, FS_Interval
    <3> QED BY <2>1, <3>2
  <2>4. Cardinality(1..k) <= n
    BY <1>6, <2>2, FS_Subset
  <2> QED BY <2>3, <2>4
<1>8. ASSUME NEW i \in 1..n PROVE i \in C
  <2> SUFFICES ASSUME i \notin C PROVE FALSE
    OBVIOUS
  <2>1. i \in Nat /\ i >= 1 /\ i <= n /\ i - 1 \in Nat
    BY <1>6
  <2>2. C \subseteq 1..(i - 1)
    <3> SUFFICES ASSUME NEW k \in C PROVE k \in 1..(i - 1)
      OBVIOUS
    <3>1. k \in 1..Len(s) /\ i \in 1..Len(s)
      BY <1>1, <1>3, <1>6, <2>1
    <3>2. ~(i <= k)
      BY <1>4, <3>1
    <3> QED BY <1>1, <2>1, <3>1, <3>2
  <2>3. IsFiniteSet(1..(i - 1)) /\ Cardinality(1..(i - 1)) = i - 1
    <3>1. 1 \in Int /\ i - 1 \in Int
      BY <2>1
    <3>2. /\ IsFiniteSet(1..(i - 1))
          /\ Cardinality(1..(i - 1)) = IF 1 > i - 1 THEN 0 ELSE (i - 1) - 1 + 1
      BY <3>1, FS_Interval
    <3> QED BY <2>1, <3>2
  <2>4. n <= i - 1
    BY <2>2, <2>3, FS_Subset, ZenonT(30)
  <2> QED BY <1>6, <2>1, <2>4
<1> HIDE DEF n
<1>9. \A i \in 1..n : i \in 1..Len(s) /\ aged[i] \in 0..Window
  BY <1>1, <1>2, <1>3, <1>8
<1>10. /\ Older(s) \in Seq(0..Window) /\ Len(Older(s)) = n
       /\ \A i \in 1..n : Older(s)[i] = aged[i]
  <2>1. 1 \in Int /\ n \in Int /\ n - 1 + 1 = n /\ \A i \in 1..n : aged[i] \in 0..Window
    BY <1>6, <1>9
  <2>2. /\ SubSeq(aged, 1, n) \in Seq(0..Window)
        /\ Len(SubSeq(aged, 1, n)) = IF 1 <= n THEN n - 1 + 1 ELSE 0
        /\ \A i \in 1..(n - 1 + 1) : SubSeq(aged, 1, n)[i] = aged[1 + i - 1]
    BY <2>1, SubSeqProperties
  <2>3. \A i \in 1..n : 1 + i - 1 = i
    BY <2>1
  <2> QED BY <1>5, <1>6, <2>2, <2>3
<1>11. DOMAIN Older(s) = 1..n
  BY <1>10
<1>12. \A i \in DOMAIN Older(s) : Older(s)[i] = s[i] + 1
  BY <1>2, <1>9, <1>10, <1>11
<1>13. \A k \in DOMAIN s : s[k] < Window => k <= Len(Older(s))
  BY <1>1, <1>3, <1>7, <1>10
<1> QED BY <1>6, <1>10, <1>12, <1>13

\* The ages stay in order.
LEMMA OlderAscends ==
  ASSUME NEW s \in Seq(0..Window), Ascending(s)
  PROVE  Ascending(Older(s))
<1> USE FramesAssumption
<1>1. \A i \in DOMAIN s : s[i] \in 0..Window
  BY ElementOfSeq
<1>2. DOMAIN Older(s) \subseteq DOMAIN s
  BY OlderKeeps
<1> QED BY <1>1, <1>2, OlderKeeps, SMTT(30) DEF Ascending

\* A probe more: it is the newest, and as many as a rate can count are kept.
LEMMA NewestKeeps ==
  ASSUME NEW s \in Seq(0..Window), Ascending(s), Len(s) <= MaxRate
  PROVE  LET t == Newest(<<0>> \o s)
         IN  /\ t \in Seq(0..Window) /\ Ascending(t)
             /\ Len(t) = Lesser(Len(s) + 1, MaxRate)
             /\ \A i \in DOMAIN t : t[i] = IF i = 1 THEN 0 ELSE s[i - 1]
<1> USE FramesAssumption
<1> DEFINE u == <<0>> \o s
           n == Lesser(Len(u), MaxRate)
           t == SubSeq(u, 1, n)
<1>1. u \in Seq(0..Window) /\ Len(u) = Len(s) + 1
  BY ConcatProperties
<1>2. \A i \in 1..Len(u) : u[i] = IF i = 1 THEN 0 ELSE s[i - 1]
  BY ConcatProperties
<1>3. /\ Len(s) \in Nat /\ DOMAIN s = 1..Len(s)
      /\ \A i \in 1..Len(s) : s[i] \in 0..Window
      /\ Window \in Nat /\ MaxRate \in Nat \ {0}
  BY ElementOfSeq
<1> HIDE FramesAssumption
<1>4. n \in Nat /\ n >= 1 /\ n <= Len(s) + 1 /\ n <= MaxRate
  BY <1>1, <1>3 DEF Lesser
<1>5. n = Lesser(Len(s) + 1, MaxRate)
  BY <1>1
<1> HIDE DEF u, n
<1>6. /\ t \in Seq(0..Window) /\ Len(t) = n /\ \A i \in 1..n : t[i] = u[i]
  <2>1. 1 \in Int /\ n \in Int /\ n - 1 + 1 = n
    BY <1>4
  <2>2. \A i \in 1..n : u[i] \in 0..Window
    BY <1>1, <1>3, <1>4
  <2>3. /\ t \in Seq(0..Window)
        /\ Len(t) = IF 1 <= n THEN n - 1 + 1 ELSE 0
        /\ \A i \in 1..(n - 1 + 1) : t[i] = u[1 + i - 1]
    BY <2>1, <2>2, SubSeqProperties
  <2>4. \A i \in 1..n : 1 + i - 1 = i
    BY <2>1
  <2> QED BY <1>4, <2>1, <2>3, <2>4
<1> HIDE DEF t
<1>7. \A i \in 1..n : t[i] = IF i = 1 THEN 0 ELSE s[i - 1]
  BY <1>1, <1>2, <1>3, <1>4, <1>6
<1>8. DOMAIN t = 1..n
  BY <1>6
<1>9. Ascending(t)
  <2> SUFFICES ASSUME NEW i \in 1..n, NEW j \in 1..n, i <= j PROVE t[i] <= t[j]
    BY <1>8 DEF Ascending
  <2>1. CASE i = 1
    <3>1. t[i] = 0
      BY <1>7, <2>1
    <3>2. t[j] \in 0..Window
      BY <1>6, ElementOfSeq
    <3>3. t[j] >= 0
      BY <1>3, <3>2
    <3> QED BY <3>1, <3>3
  <2>2. CASE i # 1
    <3>1. i - 1 \in 1..Len(s) /\ j - 1 \in 1..Len(s) /\ i - 1 <= j - 1 /\ j # 1
      BY <1>3, <1>4, <2>2
    <3>2. s[i - 1] <= s[j - 1]
      BY <1>3, <3>1 DEF Ascending
    <3> QED BY <1>7, <2>2, <3>1, <3>2
  <2> QED BY <2>1, <2>2
<1> QED BY <1>5, <1>6, <1>7, <1>8, <1>9 DEF Newest, u, n, t

\* The new track comes first; behind it are the others, each once and in their order.
LEMMA BumpMeaning ==
  ASSUME NEW a \in Addrs, RatesInv
  PROVE  LET s == SlotOf(a)
             p == probe_rate_bump(a)
         IN  /\ s \in 1..(Len(tracks) + 1) /\ Rated(a) \in Track
             /\ p \in Seq(Track) /\ Len(p) <= Tracks
             /\ p[1] = Rated(a)
             /\ \A k \in 2..Len(p) : p[k] = IF k <= s THEN tracks[k - 1] ELSE tracks[k]
             /\ Len(p) = IF s <= Len(tracks) THEN Len(tracks) ELSE Len(tracks) + 1
             /\ \A i \in DOMAIN tracks : i # s => tracks[i].mac # a
<1> USE FramesAssumption
<1> DEFINE s == SlotOf(a)
           p == probe_rate_bump(a)
           before == SubSeq(tracks, 1, s - 1)
           after == SubSeq(tracks, s + 1, Len(tracks))
<1>1. /\ tracks \in Seq(Track) /\ Len(tracks) \in Nat /\ Len(tracks) <= Tracks
      /\ DOMAIN tracks = 1..Len(tracks)
      /\ \A i \in 1..Len(tracks) : tracks[i] \in Track
  BY DEF RatesInv
<1>2. /\ s \in 1..(Len(tracks) + 1) /\ s <= Tracks
      /\ \A i \in DOMAIN tracks : i # s => tracks[i].mac # a
  <2>1. CASE TrackOf(a) # {}
    <3>1. s \in TrackOf(a)
      BY <2>1 DEF SlotOf
    <3> QED BY <1>1, <3>1 DEF TrackOf, RatesInv
  <2>2. CASE TrackOf(a) = {}
    BY <1>1, <2>2 DEF SlotOf, TrackOf
  <2> QED BY <2>1, <2>2
<1>3. Rated(a) \in Track
  <2>1. CASE TrackOf(a) = {}
    BY <2>1 DEF Rated, Track, Lapsed
  <2>2. CASE TrackOf(a) # {}
    <3> DEFINE t == tracks[CHOOSE i \in TrackOf(a) : TRUE]
    <3>1. t \in Track
      BY <1>1, <2>2 DEF TrackOf
    <3>2. Lesser(t.count + 1, MaxRate) \in 1..MaxRate
      BY <3>1 DEF Lesser, Track
    <3> HIDE DEF t
    <3>3. 1 \in 1..MaxRate /\ 0 \in 0..Lapsed
      BY DEF Lapsed
    <3>4. [t EXCEPT !.count = 1, !.first = 0] \in Track
      BY <3>1, <3>3 DEF Track
    <3>5. [t EXCEPT !.count = Lesser(@ + 1, MaxRate)] \in Track
      BY <3>1, <3>2 DEF Track
    <3> QED BY <2>2, <3>4, <3>5 DEF Rated, t
  <2> QED BY <2>1, <2>2
<1> HIDE FramesAssumption
<1> HIDE DEF s
<1>4. /\ before \in Seq(Track) /\ Len(before) = s - 1
      /\ \A k \in 1..(s - 1) : before[k] = tracks[k]
  <2>1. \A k \in 1..(s - 1) : tracks[k] \in Track
    BY <1>1, <1>2
  <2>2. /\ before \in Seq(Track)
        /\ Len(before) = IF 1 <= s - 1 THEN (s - 1) - 1 + 1 ELSE 0
        /\ \A k \in 1..((s - 1) - 1 + 1) : before[k] = tracks[1 + k - 1]
    BY <1>2, <2>1, SubSeqProperties
  <2> QED BY <1>2, <2>2
<1>5. /\ after \in Seq(Track) /\ Len(after) \in Nat
      /\ Len(after) = IF s <= Len(tracks) THEN Len(tracks) - s ELSE 0
      /\ \A k \in 1..(Len(tracks) - s) : after[k] = tracks[s + k]
  <2>1. \A k \in (s + 1)..Len(tracks) : tracks[k] \in Track
    BY <1>1, <1>2
  <2>2. /\ after \in Seq(Track)
        /\ Len(after) = IF s + 1 <= Len(tracks) THEN Len(tracks) - (s + 1) + 1 ELSE 0
        /\ \A k \in 1..(Len(tracks) - (s + 1) + 1) : after[k] = tracks[(s + 1) + k - 1]
    BY <1>1, <1>2, <2>1, SubSeqProperties
  <2>3. Len(after) \in Nat
    BY <2>2, LenProperties
  <2> QED BY <1>1, <1>2, <2>2, <2>3
<1> HIDE DEF before, after
<1> DEFINE head == <<Rated(a)>> \o before
<1>6. /\ head \in Seq(Track) /\ Len(head) = s
      /\ \A k \in 1..s : head[k] = IF k = 1 THEN Rated(a) ELSE tracks[k - 1]
  <2>1. /\ <<Rated(a)>> \in Seq(Track) /\ Len(<<Rated(a)>>) = 1
        /\ <<Rated(a)>>[1] = Rated(a)
    BY <1>3
  <2> HIDE DEF head
  <2>2. /\ head \in Seq(Track) /\ Len(head) = 1 + Len(before)
        /\ \A k \in 1..(1 + Len(before)) :
             head[k] = IF k <= 1 THEN <<Rated(a)>>[k] ELSE before[k - 1]
    BY <1>4, <2>1, ConcatProperties DEF head
  <2>3. s \in Nat /\ 1 + Len(before) = s
    BY <1>1, <1>2, <1>4
  <2>4. ASSUME NEW k \in 1..s PROVE head[k] = IF k = 1 THEN Rated(a) ELSE tracks[k - 1]
    <3>1. CASE k = 1
      BY <2>1, <2>2, <2>3, <3>1
    <3>2. CASE k # 1
      <4>1. k - 1 \in 1..(s - 1) /\ ~(k <= 1)
        BY <2>3, <3>2
      <4>2. head[k] = before[k - 1]
        BY <2>2, <2>3, <4>1
      <4> QED BY <1>4, <3>2, <4>1, <4>2
    <3> QED BY <3>1, <3>2
  <2> QED BY <2>2, <2>3, <2>4
<1> HIDE DEF head
<1>7. p = head \o after
  BY DEF p, head, before, after, s, probe_rate_bump
<1>8. /\ p \in Seq(Track) /\ Len(p) = s + Len(after)
      /\ \A k \in 1..(s + Len(after)) : p[k] = IF k <= s THEN head[k] ELSE after[k - s]
  <2> HIDE DEF p
  <2>1. /\ p \in Seq(Track) /\ Len(p) = Len(head) + Len(after)
        /\ \A k \in 1..(Len(head) + Len(after)) :
             p[k] = IF k <= Len(head) THEN head[k] ELSE after[k - Len(head)]
    BY <1>5, <1>6, <1>7, ConcatProperties, ZenonT(30)
  <2> QED BY <1>6, <2>1
<1> HIDE DEF p
<1>9. Len(p) = IF s <= Len(tracks) THEN Len(tracks) ELSE Len(tracks) + 1
  <2>1. s \in Nat /\ Len(tracks) \in Nat /\ s <= Len(tracks) + 1
    BY <1>1, <1>2
  <2>2. CASE s <= Len(tracks)
    <3>1. Len(after) = Len(tracks) - s /\ Len(p) = s + Len(after)
      BY <1>5, <1>8, <2>2
    <3> QED BY <2>1, <2>2, <3>1
  <2>3. CASE ~(s <= Len(tracks))
    <3>1. Len(after) = 0 /\ Len(p) = s + Len(after)
      BY <1>5, <1>8, <2>3
    <3> QED BY <2>1, <2>3, <3>1
  <2> QED BY <2>2, <2>3
<1>10. p[1] = Rated(a)
  <2>1. s \in Nat /\ 1 <= s
    BY <1>1, <1>2
  <2>0. Len(after) \in Nat
    BY <1>5
  <2>2. 1 \in 1..s /\ 1 \in 1..(s + Len(after))
    BY <2>0, <2>1
  <2>3. p[1] = head[1] /\ head[1] = Rated(a)
    BY <1>6, <1>8, <2>1, <2>2
  <2> QED BY <2>3
<1>11. ASSUME NEW k \in 2..Len(p) PROVE p[k] = IF k <= s THEN tracks[k - 1] ELSE tracks[k]
  <2>1. s \in Nat /\ Len(after) \in Nat /\ Len(tracks) \in Nat /\ Len(p) = s + Len(after)
    <3>1. s \in Nat
      BY <1>1, <1>2
    <3>2. Len(after) \in Nat /\ Len(tracks) \in Nat /\ Len(p) = s + Len(after)
      BY <1>1, <1>5, <1>8
    <3> QED BY <3>1, <3>2
  <2>2. k \in Nat /\ k # 1 /\ k \in 1..(s + Len(after))
    BY <2>1
  <2>3. CASE k <= s
    <3>1. p[k] = head[k] /\ k \in 1..s
      BY <1>8, <2>1, <2>2, <2>3
    <3> QED BY <1>6, <2>2, <2>3, <3>1
  <2>4. CASE ~(k <= s)
    <3>1. p[k] = after[k - s]
      BY <1>8, <2>2, <2>4
    <3>2. Len(after) # 0
      BY <2>1, <2>2, <2>4
    <3>3. Len(after) = Len(tracks) - s
      BY <1>5, <3>2
    <3>4. k - s \in 1..(Len(tracks) - s) /\ s + (k - s) = k
      BY <2>1, <2>2, <2>4, <3>3
    <3>5. after[k - s] = tracks[s + (k - s)]
      BY <1>5, <3>4
    <3> QED BY <2>4, <3>1, <3>4, <3>5
  <2> QED BY <2>3, <2>4
<1>12. Len(p) <= Tracks
  BY <1>1, <1>2, <1>9
<1> QED BY <1>2, <1>3, <1>8, <1>9, <1>10, <1>11, <1>12 DEF p, s

\* Backed, of a track and the probes of its address.
Backs(s, t) == t.first <= Window => t.count <= Len(s) /\ s[t.count] <= t.first

\* A probe more backs the rate it is given.
LEMMA RatedBacked ==
  ASSUME NEW a \in Addrs, RatesInv
  PROVE  Backs(Newest(<<0>> \o sent[a]), Rated(a))
<1> DEFINE s == sent[a]
           t == Newest(<<0>> \o s)
<1>1. /\ s \in Seq(0..Window) /\ Len(s) \in Nat /\ Len(s) <= MaxRate /\ Ascending(s)
      /\ DOMAIN s = 1..Len(s) /\ \A i \in 1..Len(s) : s[i] \in 0..Window
  <2>1. s \in Seq(0..Window) /\ Len(s) <= MaxRate /\ Ascending(s)
    BY DEF RatesInv
  <2> HIDE DEF s
  <2> QED BY <2>1, ElementOfSeq, LenProperties
<1>2. Window \in Nat /\ MaxRate \in Nat /\ MaxRate >= 1
  BY FramesAssumption
<1>3. /\ t \in Seq(0..Window) /\ Len(t) = Lesser(Len(s) + 1, MaxRate) /\ DOMAIN t = 1..Len(t)
      /\ \A i \in DOMAIN t : t[i] = IF i = 1 THEN 0 ELSE s[i - 1]
  BY <1>1, NewestKeeps
<1> HIDE DEF t
<1>4. Len(t) \in Nat /\ Len(t) >= 1
  BY <1>1, <1>2, <1>3 DEF Lesser
<1>5. t[1] = 0
  BY <1>3, <1>4
<1>6. ASSUME Rated(a).count = 1, Rated(a).first = 0 PROVE Backs(t, Rated(a))
  BY <1>4, <1>5, <1>6 DEF Backs
<1>7. ASSUME NEW i \in TrackOf(a), tracks[i].first <= Window,
             Rated(a).count = Lesser(tracks[i].count + 1, MaxRate),
             Rated(a).first = tracks[i].first
      PROVE  Backs(t, Rated(a))
  <2> DEFINE c == tracks[i].count
             d == Lesser(c + 1, MaxRate)
  <2>1. tracks[i] \in Track /\ tracks[i].mac = a /\ Backed(tracks[i])
    BY DEF TrackOf, RatesInv
  <2>2. c \in Nat /\ c >= 1 /\ c <= MaxRate /\ tracks[i].first \in Nat
    BY <2>1, <1>2 DEF Track, Lapsed
  <2>3. c <= Len(s) /\ s[c] <= tracks[i].first
    BY <1>7, <2>1 DEF Backed
  <2>4. Rated(a).count = d /\ Rated(a).first = tracks[i].first
    BY <1>7
  <2> HIDE DEF c
  <2>5. d \in Nat /\ d >= 1 /\ d <= Len(t) /\ d <= c + 1
    BY <1>1, <1>2, <1>3, <2>2, <2>3 DEF Lesser
  <2> HIDE DEF d
  <2>6. t[d] <= tracks[i].first
    <3>1. CASE d = 1
      BY <1>5, <2>2, <3>1
    <3>2. CASE d # 1
      <4>1. d \in 1..Len(t) /\ d - 1 \in 1..Len(s) /\ c \in 1..Len(s) /\ d - 1 <= c
        BY <1>1, <1>4, <2>2, <2>3, <2>5, <3>2
      <4>2. t[d] = s[d - 1] /\ s[d - 1] <= s[c]
        BY <1>1, <1>3, <3>2, <4>1 DEF Ascending
      <4>3. s[d - 1] \in Nat /\ s[c] \in Nat
        BY <1>1, <1>2, <4>1
      <4> QED BY <2>2, <2>3, <4>2, <4>3
    <3> QED BY <3>1, <3>2
  <2> QED BY <2>4, <2>5, <2>6 DEF Backs
<1>8. ASSUME TrackOf(a) = {} PROVE Backs(t, Rated(a))
  <2>1. Rated(a) = [mac |-> a, count |-> 1, first |-> 0]
    BY <1>8 DEF Rated
  <2> QED BY <1>6, <2>1
<1>9. ASSUME TrackOf(a) # {} PROVE Backs(t, Rated(a))
  <2> DEFINE i == CHOOSE i \in TrackOf(a) : TRUE
  <2>1. i \in TrackOf(a) /\ tracks[i] \in Track
    BY <1>9 DEF TrackOf, RatesInv
  <2>2. CASE tracks[i].first > Window
    <3>1. Rated(a) = [tracks[i] EXCEPT !.count = 1, !.first = 0]
      BY <1>9, <2>2 DEF Rated
    <3>2. Rated(a).count = 1 /\ Rated(a).first = 0
      BY <2>1, <3>1 DEF Track
    <3> QED BY <1>6, <3>2
  <2>3. CASE ~(tracks[i].first > Window)
    <3>1. Rated(a) = [tracks[i] EXCEPT !.count = Lesser(@ + 1, MaxRate)]
      BY <1>9, <2>3 DEF Rated
    <3>2. tracks[i].first <= Window
      BY <1>2, <2>1, <2>3 DEF Track, Lapsed
    <3> HIDE DEF i
    <3>3. /\ Rated(a).count = Lesser(tracks[i].count + 1, MaxRate)
          /\ Rated(a).first = tracks[i].first
      BY <2>1, <3>1 DEF Track
    <3> QED BY <1>7, <2>1, <3>2, <3>3
  <2> QED BY <2>2, <2>3
<1> QED BY <1>8, <1>9 DEF t

\* A frame: only a probe touches the rates, and only its sender's.
LEMMA ProbeRates ==
  ASSUME RatesInv, NEW a \in Addrs,
         tracks' = probe_rate_bump(a), sent' = [sent EXCEPT ![a] = Newest(<< 0 >> \o @)]
  PROVE  RatesInv'
<1> DEFINE s == SlotOf(a)
           p == probe_rate_bump(a)
<1>1. /\ s \in 1..(Len(tracks) + 1) /\ Rated(a) \in Track
      /\ p \in Seq(Track) /\ Len(p) <= Tracks /\ p[1] = Rated(a)
      /\ \A k \in 2..Len(p) : p[k] = IF k <= s THEN tracks[k - 1] ELSE tracks[k]
      /\ Len(p) = IF s <= Len(tracks) THEN Len(tracks) ELSE Len(tracks) + 1
      /\ \A i \in DOMAIN tracks : i # s => tracks[i].mac # a
  BY BumpMeaning
<1>2. Rated(a).mac = a
  <2>1. CASE TrackOf(a) = {}
    BY <2>1 DEF Rated
  <2>2. CASE TrackOf(a) # {}
    <3>1. /\ tracks[CHOOSE i \in TrackOf(a) : TRUE] \in Track
          /\ tracks[CHOOSE i \in TrackOf(a) : TRUE].mac = a
      BY <2>2 DEF TrackOf, RatesInv
    <3> QED BY <2>2, <3>1 DEF Rated, Track
  <2> QED BY <2>1, <2>2
<1> HIDE DEF s, p
<1>3. tracks \in Seq(Track) /\ Len(tracks) \in Nat /\ DOMAIN tracks = 1..Len(tracks)
  BY DEF RatesInv
<1>4. s \in Nat /\ Len(p) \in Nat /\ DOMAIN p = 1..Len(p) /\ Len(p) >= 1
  <2>1. s \in Nat
    BY <1>1, <1>3
  <2>2. Len(p) \in Nat /\ DOMAIN p = 1..Len(p)
    BY <1>1, LenProperties
  <2> QED BY <1>1, <1>3, <2>1, <2>2
\* Behind the first, position k of the new table is position Old(k) of the old one.
<1> DEFINE Old(k) == IF k <= s THEN k - 1 ELSE k
<1>5. ASSUME NEW k \in 2..Len(p)
      PROVE  Old(k) \in DOMAIN tracks /\ Old(k) # s /\ p[k] = tracks[Old(k)] /\ p[k].mac # a
  <2>1. k \in Nat /\ k >= 2 /\ k <= Len(p)
    BY <1>4
  <2>2. Old(k) \in DOMAIN tracks /\ Old(k) # s
    BY <1>1, <1>3, <1>4, <2>1
  <2>3. p[k] = tracks[Old(k)]
    BY <1>1
  <2> QED BY <1>1, <2>2, <2>3
<1>6. \A k, l \in 2..Len(p) : Old(k) = Old(l) => k = l
  <2> SUFFICES ASSUME NEW k \in 2..Len(p), NEW l \in 2..Len(p), Old(k) = Old(l) PROVE k = l
    OBVIOUS
  <2>1. k \in Nat /\ l \in Nat
    BY <1>4
  <2>2. Old(k) # s /\ Old(l) # s
    BY <1>5
  <2> QED BY <1>4, <2>1, <2>2
<1> HIDE DEF Old
<1>7. \A k \in 1..Len(p) : k = 1 \/ k \in 2..Len(p)
  BY <1>4
<1>8. tracks' = p
  BY DEF p
<1>9. \A i, j \in DOMAIN tracks' : tracks'[i].mac = tracks'[j].mac => i = j
  <2> SUFFICES ASSUME NEW i \in 1..Len(p), NEW j \in 1..Len(p), p[i].mac = p[j].mac
               PROVE  i = j
    BY <1>4, <1>8
  <2>1. CASE i = 1 /\ j = 1
    BY <2>1
  <2>2. CASE i = 1 /\ j \in 2..Len(p)
    BY <1>1, <1>2, <1>5, <2>2
  <2>3. CASE i \in 2..Len(p) /\ j = 1
    BY <1>1, <1>2, <1>5, <2>3
  <2>4. CASE i \in 2..Len(p) /\ j \in 2..Len(p)
    <3>1. tracks[Old(i)].mac = tracks[Old(j)].mac
      BY <1>5, <2>4
    <3>2. Old(i) = Old(j)
      BY <1>5, <2>4, <3>1 DEF RatesInv
    <3> QED BY <1>6, <2>4, <3>2
  <2> QED BY <1>7, <2>1, <2>2, <2>3, <2>4
<1>10. /\ sent' \in [Addrs -> Seq(0..Window)]
       /\ \A b \in Addrs : Len(sent'[b]) <= MaxRate /\ Ascending(sent'[b])
  <2> DEFINE t == Newest(<<0>> \o sent[a])
  <2>1. sent \in [Addrs -> Seq(0..Window)] /\ Len(sent[a]) <= MaxRate /\ Ascending(sent[a])
    BY DEF RatesInv
  <2>2. t \in Seq(0..Window) /\ Ascending(t) /\ Len(t) = Lesser(Len(sent[a]) + 1, MaxRate)
    BY <2>1, NewestKeeps
  <2>3. Len(t) <= MaxRate
    <3>1. Len(sent[a]) + 1 \in Int /\ MaxRate \in Int
      BY <2>1, FramesAssumption, LenProperties
    <3> QED BY <2>2, <3>1, LesserIsOne
  <2>4. sent' = [sent EXCEPT ![a] = t]
    OBVIOUS
  <2> HIDE DEF t
  <2> QED BY <2>1, <2>2, <2>3, <2>4 DEF RatesInv
<1>11. \A i \in DOMAIN tracks' : Backed(tracks[i])'
  <2> SUFFICES ASSUME NEW i \in 1..Len(p) PROVE Backs(sent'[p[i].mac], p[i])
    BY <1>4, <1>8 DEF Backed, Backs
  <2>1. CASE i = 1
    <3>1. sent'[a] = Newest(<<0>> \o sent[a])
      BY DEF RatesInv
    <3> QED BY <1>1, <1>2, <2>1, <3>1, RatedBacked
  <2>2. CASE i \in 2..Len(p)
    <3>1. p[i] = tracks[Old(i)] /\ Old(i) \in DOMAIN tracks /\ p[i].mac # a
      BY <1>5, <2>2
    <3>2. Backed(p[i]) /\ p[i] \in Track
      BY <1>3, <3>1 DEF RatesInv
    <3>3. sent'[p[i].mac] = sent[p[i].mac]
      BY <3>1, <3>2 DEF RatesInv, Track
    <3> QED BY <3>2, <3>3 DEF Backed, Backs
  <2> QED BY <1>7, <2>1, <2>2
<1>12. tracks' \in Seq(Track) /\ Len(tracks') <= Tracks
  BY <1>1, <1>8
<1> QED BY <1>9, <1>10, <1>11, <1>12 DEF RatesInv

\* A function on 1..n is a sequence of that length.
LEMMA FunIsSeq ==
  ASSUME NEW S, NEW n \in Nat, NEW f \in [1..n -> S]
  PROVE  f \in Seq(S) /\ Len(f) = n
<1>1. f \in Seq(S)
  BY SeqDef, Zenon
<1>2. Len(f) \in Nat /\ DOMAIN f = 1..Len(f) /\ DOMAIN f = 1..n
  BY <1>1, LenProperties
<1> QED BY <1>1, <1>2

\* Half a second: windows and probes age together.
LEMMA TickRates ==
  ASSUME RatesInv,
         tracks' = [i \in DOMAIN tracks |-> [tracks[i] EXCEPT !.first = Lesser(@ + 1, Lapsed)]],
         sent' = [a \in Addrs |-> Older(sent[a])]
  PROVE  RatesInv'
<1>1. Window \in Nat
  BY FramesAssumption
<1>2. /\ tracks \in Seq(Track) /\ Len(tracks) \in Nat /\ DOMAIN tracks = 1..Len(tracks)
      /\ \A i \in DOMAIN tracks : tracks[i] \in Track
  BY ElementOfSeq DEF RatesInv
<1>3. ASSUME NEW i \in DOMAIN tracks
      PROVE  /\ tracks'[i] \in Track
             /\ tracks'[i].mac = tracks[i].mac /\ tracks'[i].count = tracks[i].count
             /\ tracks'[i].first = Lesser(tracks[i].first + 1, Lapsed)
  <2>1. tracks[i] \in Track /\ tracks'[i] = [tracks[i] EXCEPT !.first = Lesser(@ + 1, Lapsed)]
    BY <1>2
  <2>2. Lesser(tracks[i].first + 1, Lapsed) \in 0..Lapsed
    BY <1>1, <2>1 DEF Track, Lesser, Lapsed
  <2> QED BY <2>1, <2>2 DEF Track
<1>4. DOMAIN tracks' = 1..Len(tracks)
  BY <1>2
<1>5. tracks' \in Seq(Track) /\ Len(tracks') = Len(tracks)
  <2> DEFINE q == tracks'
             n == Len(tracks)
  <2>1. q = [i \in 1..n |-> q[i]]
    BY <1>2
  <2>2. \A i \in 1..n : q[i] \in Track
    BY <1>2, <1>3
  <2> HIDE DEF q, n
  <2>3. q \in [1..n -> Track]
    BY <2>1, <2>2
  <2>4. n \in Nat
    BY <1>2 DEF n
  <2> QED BY <2>3, <2>4, FunIsSeq DEF q, n
<1>6. ASSUME NEW a \in Addrs
      PROVE  /\ sent'[a] \in Seq(0..Window) /\ Len(sent'[a]) <= MaxRate /\ Ascending(sent'[a])
             /\ \A k \in DOMAIN sent[a] :
                  sent[a][k] < Window => k <= Len(sent'[a]) /\ sent'[a][k] = sent[a][k] + 1
  <2> DEFINE s == sent[a]
             o == Older(s)
  <2>1. s \in Seq(0..Window) /\ Len(s) <= MaxRate /\ Ascending(s)
    BY DEF RatesInv
  <2>2. sent'[a] = o
    OBVIOUS
  <2> HIDE DEF s
  <2>3. /\ o \in Seq(0..Window) /\ Len(o) <= Len(s) /\ Ascending(o)
        /\ \A i \in DOMAIN o : o[i] = s[i] + 1
        /\ \A k \in DOMAIN s : s[k] < Window => k <= Len(o)
    BY <2>1, OlderKeeps, OlderAscends
  <2> HIDE DEF o
  <2>4. Len(s) \in Nat /\ Len(o) \in Nat /\ DOMAIN s = 1..Len(s) /\ DOMAIN o = 1..Len(o)
    BY <2>1, <2>3, LenProperties
  <2>5. MaxRate \in Nat
    BY FramesAssumption
  <2>6. Len(o) <= MaxRate
    BY <2>1, <2>3, <2>4, <2>5
  <2>7. ASSUME NEW k \in DOMAIN s, s[k] < Window PROVE k <= Len(o) /\ o[k] = s[k] + 1
    <3>1. k <= Len(o)
      BY <2>3, <2>7
    <3>2. k \in DOMAIN o
      BY <2>4, <3>1
    <3> QED BY <2>3, <3>1, <3>2
  <2> QED BY <2>2, <2>3, <2>6, <2>7 DEF s
<1>7. ASSUME NEW i \in DOMAIN tracks PROVE Backed(tracks[i])'
  <2> DEFINE r == tracks[i]
             s == sent[r.mac]
  <2>1. r \in Track /\ Backed(r)
    BY <1>2 DEF RatesInv
  <2>2. r.mac \in Addrs /\ r.first \in 0..Lapsed /\ r.count \in 1..MaxRate
    BY <2>1 DEF Track
  <2>3. MaxRate \in Nat /\ s \in Seq(0..Window)
    BY <2>2, FramesAssumption DEF RatesInv
  <2> HIDE DEF r
  <2>4. s[r.count] \in Nat \/ ~(r.count \in DOMAIN s)
    BY <1>1, <2>3, ElementOfSeq
  <2> SUFFICES ASSUME Lesser(r.first + 1, Lapsed) <= Window
               PROVE  /\ r.count <= Len(sent'[r.mac])
                      /\ sent'[r.mac][r.count] <= Lesser(r.first + 1, Lapsed)
    BY <1>3 DEF Backed, r
  <2>5. r.first < Window /\ Lesser(r.first + 1, Lapsed) = r.first + 1
    BY <1>1, <2>2 DEF Lesser, Lapsed
  <2>6. r.count <= Len(s) /\ s[r.count] <= r.first
    BY <1>1, <2>1, <2>2, <2>5 DEF Backed
  <2>7. r.count \in DOMAIN s
    BY <2>2, <2>3, <2>6
  <2>8. s[r.count] \in Nat
    BY <2>4, <2>7
  <2>9. s[r.count] < Window
    BY <1>1, <2>2, <2>5, <2>6, <2>8
  <2>10. r.count <= Len(sent'[r.mac]) /\ sent'[r.mac][r.count] = s[r.count] + 1
    BY <1>6, <2>2, <2>7, <2>9
  <2> QED BY <2>2, <2>5, <2>6, <2>8, <2>10
<1>8. \A i, j \in DOMAIN tracks' : tracks'[i].mac = tracks'[j].mac => i = j
  <2> TAKE i, j \in DOMAIN tracks'
  <2>1. i \in DOMAIN tracks /\ j \in DOMAIN tracks
    BY <1>2, <1>4
  <2>2. tracks'[i].mac = tracks[i].mac /\ tracks'[j].mac = tracks[j].mac
    BY <1>3, <2>1
  <2> QED BY <2>1, <2>2 DEF RatesInv
<1>9. Len(tracks') <= Tracks
  BY <1>5 DEF RatesInv
<1>10. sent' \in [Addrs -> Seq(0..Window)]
  BY <1>6
<1>11. \A i \in DOMAIN tracks' : Backed(tracks[i])'
  BY <1>2, <1>4, <1>7
<1>12. \A a \in Addrs : Len(sent'[a]) <= MaxRate /\ Ascending(sent'[a])
  BY <1>6
<1> QED BY <1>5, <1>8, <1>9, <1>10, <1>11, <1>12 DEF RatesInv

LEMMA StepRates == Shape /\ RatesInv /\ [FramesNext]_frames_vars => RatesInv'
<1> SUFFICES ASSUME Shape, RatesInv, [FramesNext]_frames_vars PROVE RatesInv'
  OBVIOUS
<1>1. ASSUME UNCHANGED <<tracks, sent>> PROVE RatesInv'
  BY <1>1 DEF RatesInv, Backed
<1>2. ASSUME NEW f \in Streets[street], Frame(f) PROVE RatesInv'
  <2>1. f.ta \in Addrs
    BY FramesAssumption DEF Shape
  <2>2. CASE f.kind = "probe"
    BY <1>2, <2>1, <2>2, ProbeRates DEF Frame
  <2>3. CASE f.kind # "probe"
    BY <1>1, <1>2, <2>3 DEF Frame
  <2> QED BY <2>2, <2>3
<1>3. CASE Status
  BY <1>1, <1>3 DEF Status
<1>4. CASE Loc
  BY <1>1, <1>4 DEF Loc
<1>5. CASE Commands
  BY <1>1, <1>5 DEF Commands, Order
<1>6. CASE Tick
  BY <1>6, TickRates DEF Tick
<1>7. CASE UNCHANGED frames_vars
  BY <1>1, <1>7 DEF frames_vars
<1> QED BY <1>2, <1>3, <1>4, <1>5, <1>6, <1>7 DEF FramesNext, Hear

(* A probe rate is never more than its own transmitter sent within the     *)
(* window, for any window, table and saturation, whatever was evicted.     *)
THEOREM RatesAreOwn == FramesSpec => []RateNeverOverstates
<1>1. Shape /\ RatesInv => RateNeverOverstates
  BY DEF RatesInv, Backed, RateNeverOverstates
<1> QED BY <1>1, InitShape, StepShape, InitRates, StepRates, PTL DEF FramesSpec

(* The capture state keeps its shape and every counter its bound.          *)
THEOREM FramesShape == FramesSpec => []FramesTypeOK
<1>1. Shape /\ RatesInv => FramesTypeOK
  <2> SUFFICES ASSUME Shape, RatesInv PROVE FramesTypeOK
    OBVIOUS
  <2>1. ASSUME NEW i \in DOMAIN tracks PROVE tracks[i].count \in 1..MaxRate
    <3>1. tracks \in Seq(Track) /\ i \in 1..Len(tracks)
      BY <2>1 DEF RatesInv
    <3>2. tracks[i] \in Track
      BY <3>1, ElementOfSeq
    <3> QED BY <3>2 DEF Track
  <2>2. Len(tracks) <= Tracks
    BY DEF RatesInv
  <2> QED BY <2>1, <2>2 DEF Shape, FramesTypeOK
<1> QED BY <1>1, InitShape, StepShape, InitRates, StepRates, PTL DEF FramesSpec

-----------------------------------------------------------------------------
(* Why a quiet device stays quiet: while a session runs, the app's total   *)
(* of a wanted device that was not heard again is not behind the board's,  *)
(* nor behind the line on its way, whoever forgot a row or started over.   *)
BoardRow == [mac : Probers, rssi : 1..2, ch : {"home", "fringe"}, count : 1..MaxCount]

Sighted(r) == [rssi |-> r.rssi, ch |-> r.ch] \in Sightings

OneRowEach(t) ==
  \A i, j \in DOMAIN t : t[i] # NoSighting /\ t[i].mac = t[j].mac => i = j

BoardTable ==
  /\ g_survey \in [Slots -> BoardRow \cup {NoSighting}] /\ OneRowEach(g_survey)
  /\ writing \in 0..BoardRows /\ cursor \in 0..BoardRows
  /\ writing # 0 => g_survey[writing] # NoSighting /\ g_survey[writing].rssi = 2
  /\ \A i \in Slots : g_survey[i] # NoSighting /\ i # writing => Sighted(g_survey[i])

LineOnItsWay ==
  /\ sv_line \in BoardRow \cup {NoSighting} /\ torn_lines \in Nat
  /\ torn_lines = 0 /\ sv_line # NoSighting => Sighted(sv_line)
  /\ unsaid \subseteq Wanted
  /\ news => sv_line.mac \in Wanted
  /\ ~live => cursor = 0 /\ sv_line = NoSighting

AppTable ==
  /\ survey \in Seq(BoardRow) /\ Len(survey) <= AppRows /\ OneRowEach(survey)
  /\ torn_lines = 0 => \A i \in DOMAIN survey : Sighted(survey[i])

BoardCounts(m, n) == \A i \in DOMAIN g_survey : g_survey[i].mac = m => g_survey[i].count <= n

NotBehind(m) ==
  /\ m = sv_line.mac /\ ~news =>
       \A i \in DOMAIN survey : survey[i].mac = m => sv_line.count <= survey[i].count
  /\ m # sv_line.mac /\ m \notin unsaid =>
       \A i \in DOMAIN survey : survey[i].mac = m => BoardCounts(m, survey[i].count)
  /\ m = sv_line.mac /\ m \notin unsaid => BoardCounts(m, sv_line.count)

SurveyInv ==
  /\ BoardTable /\ LineOnItsWay /\ AppTable
  /\ live => \A m \in Wanted : NotBehind(m)

\* A non-empty set of naturals has a least element, which Least picks.
LEMMA LeastMember ==
  ASSUME NEW T \in SUBSET Nat, T # {}
  PROVE  Least(T) \in T /\ \A n \in T : Least(T) <= n
<1>1. PICK m \in T : \A n \in T : ~(<<n, m>> \in OpToRel(<, Nat))
  BY NatLessThanWellFounded, WFMin
<1>2. \A n \in T : ~(n < m)
  BY <1>1 DEF OpToRel
<1>3. \A n \in T : m <= n
  BY <1>2
<1> QED BY <1>3 DEF Least

\* What a row is, and that no row is an empty slot.
LEMMA RowFacts ==
  ASSUME NEW r \in BoardRow
  PROVE  /\ r # NoSighting /\ r.mac \in Probers /\ r.mac # "none"
         /\ r.rssi \in 1..2 /\ r.ch \in {"home", "fringe"} /\ r.count \in 1..MaxCount
BY SurveyAssumption DEF BoardRow, NoSighting

LEMMA EmptySlot == NoSighting.mac = "none" /\ NoSighting \notin BoardRow
BY SurveyAssumption DEF BoardRow, NoSighting

\* The rows of a device are those with its address.
LEMMA HoldingMeans ==
  ASSUME NEW t, \A i \in DOMAIN t : t[i] \in BoardRow \cup {NoSighting}, NEW m \in Probers
  PROVE  Holding(t, m) = {i \in DOMAIN t : t[i].mac = m /\ t[i] \in BoardRow}
<1>1. m # "none"
  BY SurveyAssumption
<1>2. \A i \in DOMAIN t : t[i] # NoSighting <=> t[i] \in BoardRow
  BY EmptySlot
<1> QED BY <1>2 DEF Holding, Used

\* One of the rows is seen least often: an eviction ends at a row.
LEMMA WeakestUsed ==
  ASSUME NEW t, DOMAIN t \in SUBSET Nat,
         \A i \in DOMAIN t : t[i] \in BoardRow \cup {NoSighting}, Used(t) # {}
  PROVE  Weakest(t) \in Used(t)
<1> DEFINE U == Used(t)
           counts == {t[i].count : i \in U}
<1>1. U \in SUBSET Nat /\ U \subseteq DOMAIN t
  BY DEF Used
<1>2. \A i \in U : t[i].count \in Nat
  <2> SUFFICES ASSUME NEW i \in U PROVE t[i].count \in Nat
    OBVIOUS
  <2>1. t[i] \in BoardRow
    BY DEF Used
  <2> QED BY <2>1, RowFacts
<1>3. counts \in SUBSET Nat /\ counts # {}
  BY <1>2
<1>4. Least(counts) \in counts /\ \A n \in counts : Least(counts) <= n
  BY <1>3, LeastMember
<1> DEFINE W == {i \in U : \A j \in U : t[i].count <= t[j].count}
<1>5. W # {}
  <2>1. PICK i \in U : t[i].count = Least(counts)
    BY <1>4
  <2>2. \A j \in U : Least(counts) <= t[j].count
    BY <1>4
  <2> QED BY <2>1, <2>2
<1>6. Least(W) \in W
  BY <1>1, <1>5, LeastMember
<1> QED BY <1>6 DEF Weakest

\* A new transmitter goes to a slot of the table.
LEMMA PlaceInTable == BoardTable => Place \in Slots
<1> SUFFICES ASSUME BoardTable PROVE Place \in Slots
  OBVIOUS
<1> DEFINE free == Slots \ Used(g_survey)
<1>1. DOMAIN g_survey = Slots /\ Slots \in SUBSET Nat /\ 1 \in Slots
  BY SurveyAssumption DEF BoardTable, Slots
<1>2. \A i \in DOMAIN g_survey : g_survey[i] \in BoardRow \cup {NoSighting}
  BY DEF BoardTable
<1>3. CASE free # {}
  <2>1. Least(free) \in free
    BY <1>1, <1>3, LeastMember
  <2> QED BY <1>3, <2>1 DEF Place
<1>4. CASE free = {}
  <2>1. Used(g_survey) # {}
    BY <1>1, <1>4
  <2>2. Weakest(g_survey) \in Used(g_survey)
    BY <1>1, <1>2, <2>1, WeakestUsed
  <2> QED BY <1>1, <1>4, <2>2 DEF Place, Used
<1> QED BY <1>3, <1>4

LEMMA InitSurvey == SurveyInit => SurveyInv
<1> SUFFICES ASSUME SurveyInit PROVE SurveyInv
  OBVIOUS
<1> USE DEF SurveyInit
<1>1. BoardTable
  BY SurveyAssumption DEF BoardTable, OneRowEach, Slots
<1>2. LineOnItsWay
  BY DEF LineOnItsWay
<1>3. AppTable
  BY SurveyAssumption DEF AppTable, OneRowEach
<1>4. \A m \in Wanted : NotBehind(m)
  BY EmptySlot, SurveyAssumption DEF NotBehind
<1> QED BY <1>1, <1>2, <1>3, <1>4 DEF SurveyInv

\* One sighting: the slot it is written to, and what is written.
LEMMA NoteRow ==
  ASSUME BoardTable, survey_note
  PROVE  \E m \in Probers, i \in Slots, r \in BoardRow :
           /\ g_survey' = [g_survey EXCEPT ![i] = r] /\ r.mac = m
           /\ \A j \in Slots : g_survey[j].mac = m => j = i
           /\ writing' \in {0, i} /\ (writing' = 0 => Sighted(r)) /\ (writing' = i => r.rssi = 2)
           /\ unsaid' = unsaid \cup ({m} \cap Wanted)
           /\ writing = 0
<1>1. PICK m \in Probers, s \in Sightings :
        /\ LET known == Holding(g_survey, m)
               i == IF known # {} THEN Least(known) ELSE Place
           IN  IF known = {}
               THEN /\ g_survey' = [g_survey EXCEPT ![i] =
                          [mac |-> m, rssi |-> s.rssi, ch |-> s.ch, count |-> 1]]
                    /\ UNCHANGED writing
               ELSE IF s.rssi > g_survey[i].rssi
               THEN /\ g_survey' =
                         [g_survey EXCEPT ![i] = [Bumped(g_survey[i]) EXCEPT !.rssi = s.rssi]]
                    /\ writing' = i
               ELSE /\ g_survey' = [g_survey EXCEPT ![i] = Bumped(g_survey[i])]
                    /\ UNCHANGED writing
        /\ unsaid' = unsaid \cup ({m} \cap Wanted)
  BY DEF survey_note
<1>2. writing = 0
  BY DEF survey_note
<1>3. /\ DOMAIN g_survey = Slots /\ Slots \in SUBSET Nat
      /\ \A i \in Slots : g_survey[i] \in BoardRow \cup {NoSighting}
  BY SurveyAssumption DEF BoardTable, Slots
<1>4. Holding(g_survey, m) = {i \in Slots : g_survey[i].mac = m /\ g_survey[i] \in BoardRow}
  BY <1>3, HoldingMeans
<1>5. s.rssi \in 1..2 /\ s.ch \in {"home", "fringe"} /\ [rssi |-> s.rssi, ch |-> s.ch] = s
  BY DEF Sightings
<1>6. CASE Holding(g_survey, m) = {}
  <2> DEFINE r == [mac |-> m, rssi |-> s.rssi, ch |-> s.ch, count |-> 1]
  <2>1. r \in BoardRow
    BY <1>5, SurveyAssumption DEF BoardRow
  <2>2. Sighted(r)
    BY <1>5 DEF Sighted
  <2>3. \A j \in Slots : g_survey[j].mac # m
    BY <1>3, <1>4, <1>6, EmptySlot, SurveyAssumption
  <2>4. g_survey' = [g_survey EXCEPT ![Place] = r] /\ writing' = 0
    BY <1>1, <1>2, <1>6
  <2>5. Place \in Slots /\ Place # 0
    BY PlaceInTable DEF Slots
  <2>6. r.mac = m
    OBVIOUS
  <2> HIDE DEF r
  <2> QED BY <1>1, <1>2, <2>1, <2>2, <2>3, <2>4, <2>5, <2>6
<1>7. CASE Holding(g_survey, m) # {}
  <2> DEFINE i == Least(Holding(g_survey, m))
  <2>1. i \in Slots /\ g_survey[i].mac = m /\ g_survey[i] \in BoardRow
    <3>1. i \in Holding(g_survey, m)
      BY <1>3, <1>4, <1>7, LeastMember
    <3> QED BY <1>4, <3>1
  <2>2. \A j \in Slots : g_survey[j].mac = m => j = i
    BY <1>3, <2>1, EmptySlot, SurveyAssumption DEF BoardTable, OneRowEach
  <2> HIDE DEF i
  <2> DEFINE b == Bumped(g_survey[i])
  <2>3. /\ b \in BoardRow /\ b.mac = m
        /\ b.rssi = g_survey[i].rssi /\ b.ch = g_survey[i].ch
    BY <2>1, SurveyAssumption DEF Bumped, BoardRow
  <2>4. CASE s.rssi > g_survey[i].rssi
    <3> DEFINE r == [b EXCEPT !.rssi = s.rssi]
    <3>1. g_survey' = [g_survey EXCEPT ![i] = r] /\ writing' = i
      BY <1>1, <1>7, <2>4 DEF i
    <3> HIDE DEF b
    <3>2. r \in BoardRow /\ r.mac = m /\ r.rssi = s.rssi
      BY <1>5, <2>3 DEF BoardRow
    <3>3. s.rssi = 2 /\ i # 0
      BY <1>3, <1>5, <2>1, <2>4, RowFacts DEF Slots
    <3> QED BY <1>1, <1>2, <2>1, <2>2, <3>1, <3>2, <3>3, ZenonT(30)
  <2>5. CASE ~(s.rssi > g_survey[i].rssi)
    <3>1. g_survey' = [g_survey EXCEPT ![i] = b] /\ writing' = 0
      BY <1>1, <1>2, <1>7, <2>5 DEF i
    <3>2. Sighted(g_survey[i])
      BY <1>2, <2>1, EmptySlot, SurveyAssumption DEF BoardTable, Slots
    <3>3. Sighted(b)
      BY <2>3, <3>2 DEF Sighted
    <3>4. i # 0
      BY <2>1 DEF Slots
    <3> HIDE DEF b
    <3> QED BY <1>1, <1>2, <2>1, <2>2, <2>3, <3>1, <3>3, <3>4
  <2> QED BY <2>4, <2>5
<1> QED BY <1>6, <1>7

\* A sighting: the row of its own transmitter, which then counts as heard again.
LEMMA StepNote ==
  ASSUME SurveyInv, survey_note
  PROVE  SurveyInv'
<1>1. PICK m \in Probers, i \in Slots, r \in BoardRow :
        /\ g_survey' = [g_survey EXCEPT ![i] = r] /\ r.mac = m
        /\ \A j \in Slots : g_survey[j].mac = m => j = i
        /\ writing' \in {0, i} /\ (writing' = 0 => Sighted(r)) /\ (writing' = i => r.rssi = 2)
        /\ unsaid' = unsaid \cup ({m} \cap Wanted)
        /\ writing = 0
  BY NoteRow DEF SurveyInv
<1>2. UNCHANGED <<cursor, sv_line, survey, news, live, torn_lines>>
  BY DEF survey_note
<1>3. /\ g_survey \in [Slots -> BoardRow \cup {NoSighting}] /\ DOMAIN g_survey = Slots
      /\ OneRowEach(g_survey) /\ writing \in 0..BoardRows
      /\ \A j \in Slots : g_survey[j] # NoSighting /\ j # writing => Sighted(g_survey[j])
  BY DEF SurveyInv, BoardTable
<1>4. /\ g_survey' \in [Slots -> BoardRow \cup {NoSighting}] /\ DOMAIN g_survey' = Slots
      /\ g_survey'[i] = r /\ \A j \in Slots \ {i} : g_survey'[j] = g_survey[j]
  BY <1>1, <1>3
<1>5. r # NoSighting /\ r.mac # "none"
  BY RowFacts
<1>6. BoardTable'
  <2>1. OneRowEach(g_survey)'
    <3> SUFFICES ASSUME NEW j \in Slots, NEW k \in Slots,
                        g_survey'[j] # NoSighting, g_survey'[j].mac = g_survey'[k].mac
                 PROVE  j = k
      BY <1>4 DEF OneRowEach
    <3>1. CASE j = i \/ k = i
      BY <1>1, <1>4, <3>1
    <3>2. CASE j # i /\ k # i
      BY <1>3, <1>4, <3>2 DEF OneRowEach
    <3> QED BY <3>1, <3>2
  <2>2. writing' \in 0..BoardRows /\ cursor' \in 0..BoardRows
    BY <1>1, <1>2, SurveyAssumption DEF SurveyInv, BoardTable, Slots
  <2>3. writing' # 0 => g_survey'[writing'] # NoSighting /\ g_survey'[writing'].rssi = 2
    BY <1>1, <1>4, <1>5
  <2>4. ASSUME NEW j \in Slots, g_survey'[j] # NoSighting, j # writing'
        PROVE  Sighted(g_survey'[j])
    <3>1. j # 0
      BY DEF Slots
    <3>2. CASE j = i
      BY <1>1, <1>4, <2>4, <3>2
    <3>3. CASE j # i
      BY <1>1, <1>3, <1>4, <2>4, <3>1, <3>3
    <3> QED BY <3>2, <3>3
  <2>5. \A j \in Slots : g_survey'[j] # NoSighting /\ j # writing' => Sighted(g_survey[j])'
    BY <2>4 DEF Sighted
  <2> QED BY <1>4, <2>1, <2>2, <2>3, <2>5 DEF BoardTable
<1>7. LineOnItsWay'
  BY <1>1, <1>2 DEF SurveyInv, LineOnItsWay
<1>8. AppTable'
  BY <1>2 DEF SurveyInv, AppTable
<1>9. ASSUME live', NEW n \in Wanted PROVE NotBehind(n)'
  <2>1. NotBehind(n)
    BY <1>2, <1>9 DEF SurveyInv
  <2>2. CASE n = m
    BY <1>1, <1>2, <2>1, <2>2 DEF NotBehind
  <2>3. CASE n # m
    <3>1. \A c : BoardCounts(n, c) => BoardCounts(n, c)'
      BY <1>1, <1>3, <1>4, <2>3 DEF BoardCounts
    <3>2. n \in unsaid' <=> n \in unsaid
      BY <1>1, <2>3
    <3> QED BY <1>2, <2>1, <3>1, <3>2 DEF NotBehind
  <2> QED BY <2>2, <2>3
<1> QED BY <1>6, <1>7, <1>8, <1>9 DEF SurveyInv

\* The second store of a louder sighting: both are of one sighting again.
LEMMA StepChannel ==
  ASSUME SurveyInv, NoteChannel
  PROVE  SurveyInv'
<1>1. /\ writing # 0 /\ writing' = 0
      /\ g_survey' = [g_survey EXCEPT ![writing].ch = "home"]
      /\ UNCHANGED <<cursor, sv_line, survey, unsaid, news, live, torn_lines>>
  BY DEF NoteChannel
<1>2. /\ g_survey \in [Slots -> BoardRow \cup {NoSighting}] /\ DOMAIN g_survey = Slots
      /\ OneRowEach(g_survey) /\ writing \in Slots
      /\ \A j \in Slots : g_survey[j] # NoSighting /\ j # writing => Sighted(g_survey[j])
      /\ g_survey[writing] \in BoardRow /\ g_survey[writing].rssi = 2
  BY <1>1, SurveyAssumption DEF SurveyInv, BoardTable, Slots
<1> DEFINE r == [g_survey[writing] EXCEPT !.ch = "home"]
<1>3. /\ r \in BoardRow /\ r.mac = g_survey[writing].mac /\ r.count = g_survey[writing].count
      /\ r.rssi = 2 /\ r.ch = "home"
  BY <1>2 DEF BoardRow
<1>4. g_survey' = [g_survey EXCEPT ![writing] = r]
  BY <1>1
<1> HIDE DEF r
<1>5. /\ g_survey' \in [Slots -> BoardRow \cup {NoSighting}] /\ DOMAIN g_survey' = Slots
      /\ g_survey'[writing] = r /\ \A j \in Slots \ {writing} : g_survey'[j] = g_survey[j]
  BY <1>2, <1>3, <1>4
<1>6. r # NoSighting /\ r.mac # "none" /\ g_survey[writing] # NoSighting
  BY <1>2, <1>3, RowFacts
<1>7. \A j \in Slots : /\ g_survey'[j].mac = g_survey[j].mac
                       /\ g_survey'[j].count = g_survey[j].count
                       /\ (g_survey'[j] = NoSighting <=> g_survey[j] = NoSighting)
  BY <1>3, <1>5, <1>6
<1>8. BoardTable'
  <2>1. OneRowEach(g_survey)'
    BY <1>2, <1>5, <1>7 DEF OneRowEach
  <2>2. ASSUME NEW j \in Slots, g_survey'[j] # NoSighting PROVE Sighted(g_survey'[j])
    <3>1. CASE j = writing
      BY <1>3, <1>5, <3>1 DEF Sighted, Sightings
    <3>2. CASE j # writing
      BY <1>2, <1>5, <2>2, <3>2
    <3> QED BY <3>1, <3>2
  <2>3. \A j \in Slots : g_survey'[j] # NoSighting /\ j # writing' => Sighted(g_survey[j])'
    BY <2>2 DEF Sighted
  <2>4. writing' \in 0..BoardRows /\ cursor' \in 0..BoardRows /\ writing' = 0
    BY <1>1, SurveyAssumption DEF SurveyInv, BoardTable
  <2> QED BY <1>5, <2>1, <2>3, <2>4 DEF BoardTable
<1>9. LineOnItsWay' /\ AppTable'
  BY <1>1 DEF SurveyInv, LineOnItsWay, AppTable
<1>10. ASSUME live', NEW n \in Wanted PROVE NotBehind(n)'
  <2>1. NotBehind(n)
    BY <1>1, <1>10 DEF SurveyInv
  <2>2. \A c : BoardCounts(n, c) => BoardCounts(n, c)'
    BY <1>2, <1>5, <1>7 DEF BoardCounts
  <2> QED BY <1>1, <2>1, <2>2 DEF NotBehind
<1> QED BY <1>8, <1>9, <1>10 DEF SurveyInv

\* A row printed: the line has the board's total, and nothing newer is untold.
LEMMA StepPrint ==
  ASSUME SurveyInv, DumpRow
  PROVE  SurveyInv'
<1> DEFINE r == g_survey[cursor]
<1>1. /\ cursor # 0 /\ sv_line = NoSighting /\ sv_line' = r
      /\ news' = (r.mac \in unsaid) /\ unsaid' = unsaid \ {r.mac}
      /\ cursor' = (IF cursor = BoardRows THEN 0 ELSE cursor + 1)
      /\ IF cursor = writing THEN torn_lines' = torn_lines + 1 ELSE UNCHANGED torn_lines
      /\ UNCHANGED <<g_survey, writing, survey, live>>
  BY DEF DumpRow
<1>2. cursor \in Slots /\ r \in BoardRow \cup {NoSighting} /\ torn_lines \in Nat
  BY <1>1, SurveyAssumption DEF SurveyInv, BoardTable, LineOnItsWay, Slots
<1>3. cursor' \in 0..BoardRows
  BY <1>1, <1>2, SurveyAssumption DEF Slots
<1>4. BoardTable'
  BY <1>1, <1>3 DEF SurveyInv, BoardTable, OneRowEach, Sighted
<1>5. torn_lines' \in Nat /\ (torn_lines' = 0 => torn_lines = 0 /\ cursor # writing)
  BY <1>1, <1>2
<1>6. LineOnItsWay'
  <2>1. torn_lines' = 0 /\ r # NoSighting => Sighted(r)
    BY <1>2, <1>5 DEF SurveyInv, BoardTable
  <2>2. torn_lines' = 0 /\ sv_line' # NoSighting => Sighted(sv_line)'
    BY <1>1, <2>1 DEF Sighted
  <2>3. (news' => sv_line'.mac \in Wanted) /\ unsaid' \subseteq Wanted
    <3>1. unsaid \subseteq Wanted
      BY DEF SurveyInv, LineOnItsWay
    <3> QED BY <1>1, <3>1
  <2>4. live'
    BY <1>1 DEF SurveyInv, LineOnItsWay
  <2>5. sv_line' \in BoardRow \cup {NoSighting}
    BY <1>1, <1>2
  <2> QED BY <1>5, <2>2, <2>3, <2>4, <2>5 DEF LineOnItsWay
<1>7. AppTable'
  BY <1>1, <1>5 DEF SurveyInv, AppTable
<1>8. ASSUME live', NEW n \in Wanted PROVE NotBehind(n)'
  <2>1. NotBehind(n) /\ n # "none" /\ n \in Probers
    BY <1>1, <1>8, SurveyAssumption DEF SurveyInv
  <2>2. n # sv_line.mac
    BY <1>1, <2>1, EmptySlot
  <2>3. CASE n # r.mac
    BY <1>1, <2>1, <2>2, <2>3 DEF NotBehind, BoardCounts
  <2>4. CASE n = r.mac
    <3>1. BoardCounts(n, r.count)
      <4>1. r \in BoardRow /\ r.count \in Nat /\ r # NoSighting
        BY <1>2, <2>1, <2>4, EmptySlot, RowFacts
      <4>2. \A j \in Slots : g_survey[j].mac = n => j = cursor
        BY <1>2, <2>4, <4>1 DEF SurveyInv, BoardTable, OneRowEach
      <4> QED BY <1>2, <4>1, <4>2 DEF SurveyInv, BoardTable, BoardCounts
    <3>2. ~news' => n \notin unsaid
      BY <1>1, <2>4
    <3>3. ASSUME ~news', NEW k \in DOMAIN survey, survey[k].mac = n
          PROVE  r.count <= survey[k].count
      BY <1>2, <2>1, <2>2, <2>4, <3>2, <3>3 DEF NotBehind, BoardCounts, SurveyInv, BoardTable
    <3>4. \A j \in DOMAIN g_survey' : g_survey'[j].mac = n => g_survey'[j].count <= r.count
      BY <1>1, <3>1 DEF BoardCounts
    <3> HIDE DEF r
    <3> QED BY <1>1, <2>4, <3>3, <3>4 DEF NotBehind, BoardCounts
  <2> QED BY <2>3, <2>4
<1> QED BY <1>4, <1>6, <1>7, <1>8 DEF SurveyInv

\* The row a line goes to: the device's own, a new one, or one that is given up.
LEMMA RowForFacts ==
  ASSUME AppTable, NEW l \in BoardRow
  PROVE  /\ Holding(survey, l.mac) = {j \in DOMAIN survey : survey[j].mac = l.mac}
         /\ Holding(survey, l.mac) # {} =>
              RowFor(l) \in DOMAIN survey /\ survey[RowFor(l)].mac = l.mac
         /\ Holding(survey, l.mac) = {} =>
              \/ RowFor(l) = 0
              \/ RowFor(l) = Len(survey) + 1 /\ Len(survey) < AppRows
              \/ RowFor(l) \in DOMAIN survey
<1>1. /\ survey \in Seq(BoardRow) /\ Len(survey) \in Nat /\ DOMAIN survey = 1..Len(survey)
      /\ \A j \in DOMAIN survey : survey[j] \in BoardRow
  BY ElementOfSeq, LenProperties DEF AppTable
<1>2. l.mac \in Probers
  BY RowFacts
<1>3. Holding(survey, l.mac) = {j \in DOMAIN survey : survey[j].mac = l.mac}
  BY <1>1, <1>2, HoldingMeans
<1>4. CASE Holding(survey, l.mac) # {}
  <2>1. RowFor(l) = Least(Holding(survey, l.mac))
    BY <1>4 DEF RowFor
  <2>2. Holding(survey, l.mac) \in SUBSET Nat
    BY <1>1, <1>3
  <2>3. Least(Holding(survey, l.mac)) \in Holding(survey, l.mac)
    BY <1>4, <2>2, LeastMember
  <2> QED BY <1>3, <1>4, <2>1, <2>3
<1>5. CASE Holding(survey, l.mac) = {}
  <2>1. CASE Len(survey) < AppRows
    BY <1>3, <1>5, <2>1 DEF RowFor
  <2>2. CASE ~(Len(survey) < AppRows)
    <3>1. 1 \in Used(survey)
      BY <1>1, <2>2, RowFacts, SurveyAssumption DEF Used
    <3>2. Weakest(survey) \in Used(survey)
      BY <1>1, <3>1, WeakestUsed
    <3> QED BY <1>3, <1>5, <2>2, <3>2 DEF RowFor, Used
  <2> QED BY <2>1, <2>2
<1> QED BY <1>3, <1>4, <1>5

LEMMA RowUpdated ==
  ASSUME NEW M, NEW R, NEW C, NEW N, NEW e \in [mac : M, rssi : R, ch : C, count : N],
         NEW n \in N, NEW a \in R, NEW b \in C,
         NEW r, r = [e EXCEPT !.count = n, !.rssi = a, !.ch = b]
  PROVE  /\ r \in [mac : M, rssi : R, ch : C, count : N]
         /\ r.mac = e.mac /\ r.rssi = a /\ r.ch = b /\ r.count = n
OBVIOUS

\* What a row becomes: the line's total, and a signal and channel of one sighting.
LEMMA MergeRow ==
  ASSUME NEW l \in BoardRow, NEW e, e = Blank(l.mac) \/ (e \in BoardRow /\ e.mac = l.mac)
  PROVE  /\ SurveyMerge(e, l) \in BoardRow
         /\ SurveyMerge(e, l).mac = l.mac /\ SurveyMerge(e, l).count = l.count
         /\ Sighted(l) /\ (e \in BoardRow => Sighted(e)) => Sighted(SurveyMerge(e, l))
<1> DEFINE louder == l.rssi > e.rssi \/ e.rssi = 0
           a == IF louder THEN l.rssi ELSE e.rssi
           b == IF louder THEN l.ch ELSE e.ch
           r == SurveyMerge(e, l)
           Loose == [mac : Probers, rssi : 0..2, ch : {"home", "fringe", "none"},
                     count : 0..MaxCount]
<1>1. e \in Loose /\ e.mac = l.mac
  BY RowFacts, SurveyAssumption DEF Blank, BoardRow
<1>2. r = [e EXCEPT !.count = l.count, !.rssi = a, !.ch = b]
  BY DEF SurveyMerge
<1>3. l.rssi \in 1..2 /\ l.ch \in {"home", "fringe"} /\ l.count \in 1..MaxCount
  BY RowFacts
<1>4. a \in 1..2 /\ b \in {"home", "fringe"}
  <2>1. CASE e = Blank(l.mac)
    BY <1>3, <2>1 DEF Blank
  <2>2. CASE e \in BoardRow
    BY <1>3, <2>2, RowFacts
  <2> QED BY <2>1, <2>2
<1>5. Sighted(l) /\ (e \in BoardRow => Sighted(e)) => [rssi |-> a, ch |-> b] \in Sightings
  <2>1. CASE e = Blank(l.mac)
    BY <2>1 DEF Blank, Sighted
  <2>2. CASE e \in BoardRow
    BY <2>2 DEF Sighted
  <2> QED BY <2>1, <2>2
<1> HIDE DEF a, b, r
<1>6. /\ r \in Loose
      /\ r.mac = e.mac /\ r.rssi = a /\ r.ch = b /\ r.count = l.count
  <2>1. l.count \in 0..MaxCount /\ a \in 0..2 /\ b \in {"home", "fringe", "none"}
    BY <1>3, <1>4, SurveyAssumption
  <2> QED BY <1>1, <1>2, <2>1, RowUpdated
<1>7. r \in BoardRow
  BY <1>3, <1>4, <1>6 DEF BoardRow
<1>8. Sighted(l) /\ (e \in BoardRow => Sighted(e)) => Sighted(r)
  BY <1>5, <1>6 DEF Sighted
<1> QED BY <1>1, <1>6, <1>7, <1>8 DEF r

\* One element more, and one element changed.
LEMMA OneMore ==
  ASSUME NEW S, NEW s \in Seq(S), NEW x \in S, NEW q, q = Append(s, x)
  PROVE  /\ q \in Seq(S) /\ Len(q) = Len(s) + 1 /\ DOMAIN q = 1..(Len(s) + 1)
         /\ q[Len(s) + 1] = x /\ \A j \in 1..Len(s) : q[j] = s[j]
<1>1. Len(s) \in Nat
  BY LenProperties
<1>2. q \in Seq(S) /\ Len(q) = Len(s) + 1
  BY AppendProperties
<1> QED BY <1>1, <1>2, AppendProperties

LEMMA OneChanged ==
  ASSUME NEW S, NEW s \in Seq(S), NEW x \in S, NEW i \in 1..Len(s),
         NEW q, q = [s EXCEPT ![i] = x]
  PROVE  /\ q \in Seq(S) /\ Len(q) = Len(s) /\ DOMAIN q = 1..Len(s)
         /\ q[i] = x /\ \A j \in 1..Len(s) : j # i => q[j] = s[j]
<1>1. /\ q \in Seq(S) /\ Len(q) = Len(s)
      /\ \A j \in 1..Len(s) : q[j] = IF j = i THEN x ELSE s[j]
  BY ExceptSeq
<1>2. DOMAIN q = 1..Len(q)
  BY <1>1, LenProperties
<1> QED BY <1>1, <1>2

\* A row is put at the end of a table with room, or in the place of another, or nowhere.
LEMMA RowPut ==
  ASSUME NEW S, NEW s \in Seq(S), NEW x \in S, NEW max \in Nat, Len(s) <= max, NEW i,
         i # 0 => (i = Len(s) + 1 /\ Len(s) < max) \/ i \in 1..Len(s),
         NEW q, q = IF i = 0 THEN s ELSE IF i > Len(s) THEN Append(s, x) ELSE [s EXCEPT ![i] = x]
  PROVE  /\ q \in Seq(S) /\ Len(q) <= max
         /\ \A j \in DOMAIN q :
              \/ j \in DOMAIN s /\ j # i /\ q[j] = s[j]
              \/ j = i /\ i # 0 /\ q[j] = x
<1>1. Len(s) \in Nat
  BY LenProperties
<1>2. CASE i = 0
  BY <1>1, <1>2
<1>3. CASE i = Len(s) + 1 /\ Len(s) < max
  <2>1. q = Append(s, x)
    BY <1>1, <1>3
  <2>2. /\ q \in Seq(S) /\ Len(q) = Len(s) + 1 /\ DOMAIN q = 1..(Len(s) + 1)
        /\ q[Len(s) + 1] = x /\ \A j \in 1..Len(s) : q[j] = s[j]
    BY <2>1, OneMore
  <2> QED BY <1>1, <1>3, <2>2
<1>4. CASE i \in 1..Len(s)
  <2>1. q = [s EXCEPT ![i] = x]
    <3>1. i # 0 /\ ~(i > Len(s))
      BY <1>1, <1>4
    <3> QED BY <3>1
  <2>2. /\ q \in Seq(S) /\ Len(q) = Len(s) /\ DOMAIN q = 1..Len(s)
        /\ q[i] = x /\ \A j \in 1..Len(s) : j # i => q[j] = s[j]
    BY <1>4, <2>1, OneChanged
  <2> QED BY <1>1, <1>4, <2>2
<1> QED BY <1>2, <1>3, <1>4

\* A line that arrives.  What it is merged into, with the rest of the app's table.
LEMMA MergedTable ==
  ASSUME SurveyInv, recon_app_survey_add
  PROVE  /\ sv_line \in BoardRow /\ sv_line # NoSighting
         /\ survey' \in Seq(BoardRow) /\ Len(survey') <= AppRows
         /\ \A j \in DOMAIN survey' :
              \/ j \in DOMAIN survey /\ survey'[j] = survey[j] /\ survey[j].mac # sv_line.mac
              \/ /\ j = RowFor(sv_line) /\ survey'[j] \in BoardRow
                 /\ survey'[j].mac = sv_line.mac /\ survey'[j].count = sv_line.count
                 /\ (torn_lines = 0 => Sighted(survey'[j]))
<1> DEFINE l == sv_line
           i == RowFor(l)
           e == IF Holding(survey, l.mac) # {} THEN survey[i] ELSE Blank(l.mac)
           r == SurveyMerge(e, l)
<1>1. /\ l # NoSighting
      /\ survey' = IF i = 0 THEN survey
                   ELSE IF i > Len(survey) THEN Append(survey, r)
                   ELSE [survey EXCEPT ![i] = r]
  BY DEF recon_app_survey_add
<1>2. l \in BoardRow /\ l.mac \in Probers
  BY <1>1, RowFacts DEF SurveyInv, LineOnItsWay
<1>3. /\ survey \in Seq(BoardRow) /\ Len(survey) \in Nat /\ DOMAIN survey = 1..Len(survey)
      /\ \A j \in DOMAIN survey : survey[j] \in BoardRow
      /\ Len(survey) <= AppRows
  BY ElementOfSeq, LenProperties DEF SurveyInv, AppTable
<1> DEFINE H == Holding(survey, l.mac)
<1>4. /\ H = {j \in DOMAIN survey : survey[j].mac = l.mac}
      /\ H # {} => i \in DOMAIN survey /\ survey[i].mac = l.mac
      /\ H = {} => \/ i = 0
                   \/ i = Len(survey) + 1 /\ Len(survey) < AppRows
                   \/ i \in DOMAIN survey
  <2>1. AppTable
    BY DEF SurveyInv
  <2> QED BY <1>2, <2>1, RowForFacts
<1>5. e = Blank(l.mac) \/ (e \in BoardRow /\ e.mac = l.mac)
  <2>1. CASE H = {}
    BY <2>1
  <2>2. CASE H # {}
    BY <1>3, <1>4, <2>2
  <2> QED BY <2>1, <2>2
<1>6. torn_lines = 0 => Sighted(l)
  BY <1>1 DEF SurveyInv, LineOnItsWay
<1>7. torn_lines = 0 /\ e \in BoardRow => Sighted(e)
  <2>1. Blank(l.mac) \notin BoardRow
    BY DEF Blank, BoardRow
  <2> QED BY <1>4, <2>1 DEF SurveyInv, AppTable
<1> HIDE DEF e
<1>8. /\ r \in BoardRow /\ r.mac = l.mac /\ r.count = l.count
      /\ torn_lines = 0 => Sighted(r)
  BY <1>2, <1>5, <1>6, <1>7, MergeRow
<1>9. \A j, k \in DOMAIN survey : survey[j].mac = survey[k].mac => j = k
  BY <1>3, RowFacts DEF SurveyInv, AppTable, OneRowEach
<1>10. ASSUME NEW j \in DOMAIN survey, j # i PROVE survey[j].mac # l.mac
  <2>1. CASE H = {}
    BY <1>4, <2>1
  <2>2. CASE H # {}
    BY <1>4, <1>9, <1>10, <2>2
  <2> QED BY <2>1, <2>2
<1>11. i # 0 => (i = Len(survey) + 1 /\ Len(survey) < AppRows) \/ i \in 1..Len(survey)
  BY <1>3, <1>4
<1> HIDE DEF r, i, H
<1>12. /\ survey' \in Seq(BoardRow) /\ Len(survey') <= AppRows
       /\ \A j \in DOMAIN survey' :
            \/ j \in DOMAIN survey /\ j # i /\ survey'[j] = survey[j]
            \/ j = i /\ i # 0 /\ survey'[j] = r
  BY <1>1, <1>3, <1>8, <1>11, SurveyAssumption, RowPut
<1> QED BY <1>1, <1>2, <1>8, <1>10, <1>12 DEF i

\* A line that arrives: its device is not behind, and no other row is touched but the one
\* that is given up.
LEMMA StepAdd ==
  ASSUME SurveyInv, recon_app_survey_add
  PROVE  SurveyInv'
<1>1. /\ sv_line' = NoSighting /\ news' = FALSE
      /\ UNCHANGED <<g_survey, writing, cursor, unsaid, live, torn_lines>> /\ live
  BY DEF recon_app_survey_add, surveyed
<1>2. PICK l \in BoardRow : l = sv_line
  BY MergedTable
<1>3. /\ survey' \in Seq(BoardRow) /\ Len(survey') <= AppRows
      /\ \A j \in DOMAIN survey' :
           \/ j \in DOMAIN survey /\ survey'[j] = survey[j] /\ survey[j].mac # l.mac
           \/ /\ j = RowFor(sv_line) /\ survey'[j] \in BoardRow
              /\ survey'[j].mac = l.mac /\ survey'[j].count = l.count
              /\ (torn_lines = 0 => Sighted(survey'[j]))
  BY <1>2, MergedTable
<1>4. BoardTable'
  BY <1>1 DEF SurveyInv, BoardTable, OneRowEach, Sighted
<1>5. LineOnItsWay'
  BY <1>1 DEF SurveyInv, LineOnItsWay
<1>6. AppTable'
  <2>1. OneRowEach(survey)'
    <3> SUFFICES ASSUME NEW j \in DOMAIN survey', NEW k \in DOMAIN survey',
                        survey'[j] # NoSighting, survey'[j].mac = survey'[k].mac
                 PROVE  j = k
      BY DEF OneRowEach
    <3>1. CASE survey'[j].mac = l.mac
      BY <1>3, <3>1
    <3>2. CASE survey'[j].mac # l.mac
      BY <1>3, <3>2 DEF SurveyInv, AppTable, OneRowEach
    <3> QED BY <3>1, <3>2
  <2>2. torn_lines' = 0 => \A j \in DOMAIN survey' : Sighted(survey'[j])
    BY <1>1, <1>3 DEF SurveyInv, AppTable
  <2>3. torn_lines' = 0 => \A j \in DOMAIN survey' : Sighted(survey[j])'
    BY <2>2 DEF Sighted
  <2> QED BY <1>3, <2>1, <2>3 DEF AppTable
<1>7. ASSUME NEW n \in Wanted PROVE NotBehind(n)'
  <2>1. NotBehind(n) /\ n # sv_line'.mac
    BY <1>1, EmptySlot, SurveyAssumption DEF SurveyInv
  <2>2. ASSUME n \notin unsaid, NEW j \in DOMAIN survey', survey'[j].mac = n
        PROVE  BoardCounts(n, survey'[j].count)
    <3>1. CASE n = l.mac
      BY <1>2, <1>3, <2>1, <2>2, <3>1 DEF NotBehind
    <3>2. CASE n # l.mac
      BY <1>2, <1>3, <2>1, <2>2, <3>2 DEF NotBehind
    <3> QED BY <3>1, <3>2
  <2>3. ASSUME n \notin unsaid', NEW j \in DOMAIN survey', survey'[j].mac = n
        PROVE  \A k \in DOMAIN g_survey' :
                 g_survey'[k].mac = n => g_survey'[k].count <= survey'[j].count
    BY <1>1, <2>2, <2>3 DEF BoardCounts
  <2> QED BY <2>1, <2>3 DEF NotBehind, BoardCounts
<1> QED BY <1>1, <1>4, <1>5, <1>6, <1>7 DEF SurveyInv

\* A line lost counts as never printed.
LEMMA StepLost ==
  ASSUME SurveyInv, SurveyLineLost
  PROVE  SurveyInv'
<1>1. /\ sv_line' = NoSighting /\ news' = FALSE /\ sv_line # NoSighting
      /\ unsaid' = IF news THEN unsaid \cup {sv_line.mac} ELSE unsaid
      /\ UNCHANGED <<g_survey, writing, cursor, survey, live, torn_lines>>
  BY DEF SurveyLineLost, surveyed
<1>2. BoardTable' /\ AppTable'
  BY <1>1 DEF SurveyInv, BoardTable, AppTable, OneRowEach, Sighted
<1>3. LineOnItsWay'
  BY <1>1 DEF SurveyInv, LineOnItsWay
<1>4. ASSUME live', NEW n \in Wanted PROVE NotBehind(n)'
  <2>1. NotBehind(n) /\ n # sv_line'.mac
    BY <1>1, <1>4, EmptySlot, SurveyAssumption DEF SurveyInv
  <2>2. ASSUME n \notin unsaid', NEW j \in DOMAIN survey, survey[j].mac = n
        PROVE  BoardCounts(n, survey[j].count)
    <3>1. n \notin unsaid
      BY <1>1, <2>2
    <3>2. CASE n # sv_line.mac
      BY <2>1, <2>2, <3>1, <3>2 DEF NotBehind
    <3>3. CASE n = sv_line.mac
      <4>1. sv_line.count <= survey[j].count
        BY <1>1, <2>1, <2>2, <3>3 DEF NotBehind
      <4>2. BoardCounts(n, sv_line.count)
        BY <2>1, <3>1, <3>3 DEF NotBehind
      <4>3. sv_line.count \in Nat /\ survey[j].count \in Nat
        <5>1. sv_line \in BoardRow
          BY <1>1 DEF SurveyInv, LineOnItsWay
        <5>2. survey[j] \in BoardRow
          BY <2>2, ElementOfSeq DEF SurveyInv, AppTable
        <5> QED BY <5>1, <5>2, RowFacts, SurveyAssumption
      <4>4. ASSUME NEW k \in DOMAIN g_survey, g_survey[k].mac = n
            PROVE  g_survey[k].count \in Nat
        <5>1. g_survey[k] \in BoardRow
          BY <4>4, EmptySlot, SurveyAssumption DEF SurveyInv, BoardTable
        <5> QED BY <5>1, RowFacts, SurveyAssumption
      <4> QED BY <4>1, <4>2, <4>3, <4>4 DEF BoardCounts
    <3> QED BY <3>2, <3>3
  <2> QED BY <1>1, <2>1, <2>2 DEF NotBehind, BoardCounts
<1> QED BY <1>2, <1>3, <1>4 DEF SurveyInv

\* An empty board table, and a session that is over, are behind nobody.
LEMMA EmptyTable ==
  ASSUME g_survey' = [i \in Slots |-> NoSighting], writing' = 0, cursor' = 0
  PROVE  BoardTable' /\ \A n \in Wanted : \A c : BoardCounts(n, c)'
<1>1. DOMAIN g_survey' = Slots /\ \A i \in Slots : g_survey'[i] = NoSighting
  OBVIOUS
<1>2. g_survey' \in [Slots -> BoardRow \cup {NoSighting}]
  OBVIOUS
<1>3. BoardTable'
  BY <1>1, <1>2, SurveyAssumption DEF BoardTable, OneRowEach
<1> QED BY <1>1, <1>3, EmptySlot, SurveyAssumption DEF BoardCounts

LEMMA StepSurvey == SurveyInv /\ [SurveyNext]_survey_vars => SurveyInv'
<1> SUFFICES ASSUME SurveyInv, [SurveyNext]_survey_vars PROVE SurveyInv'
  OBVIOUS
<1>1. CASE survey_note
  BY <1>1, StepNote
<1>2. CASE NoteChannel
  BY <1>2, StepChannel
<1>3. CASE survey_dump
  <2>1. /\ live /\ cursor' = 1
        /\ UNCHANGED <<g_survey, writing, sv_line, survey, unsaid, news, live, torn_lines>>
    BY <1>3 DEF survey_dump
  <2>2. BoardTable' /\ LineOnItsWay' /\ AppTable'
    BY <2>1, SurveyAssumption
    DEF SurveyInv, BoardTable, LineOnItsWay, AppTable, OneRowEach, Sighted
  <2> QED BY <2>1, <2>2 DEF SurveyInv, NotBehind, BoardCounts
<1>4. CASE DumpRow
  BY <1>4, StepPrint
<1>5. CASE BoardReset
  <2>1. /\ g_survey' = [i \in Slots |-> NoSighting] /\ writing' = 0 /\ cursor' = 0
        /\ UNCHANGED <<sv_line, survey, unsaid, news, live, torn_lines>>
    BY <1>5 DEF BoardReset
  <2>2. BoardTable' /\ \A n \in Wanted : \A c : BoardCounts(n, c)'
    BY <2>1, EmptyTable
  <2>3. LineOnItsWay' /\ AppTable'
    BY <2>1 DEF SurveyInv, LineOnItsWay, AppTable, OneRowEach, Sighted
  <2> QED BY <2>1, <2>2, <2>3 DEF SurveyInv, NotBehind
<1>6. CASE recon_app_survey_add
  BY <1>6, StepAdd
<1>7. CASE SurveyLineLost
  BY <1>7, StepLost
<1>8. CASE survey_stop
  <2>1. /\ cursor = 0 /\ live' = FALSE /\ sv_line' = NoSighting /\ news' = FALSE
        /\ UNCHANGED <<g_survey, writing, cursor, survey, unsaid, torn_lines>>
    BY <1>8 DEF survey_stop, surveyed
  <2> QED BY <2>1 DEF SurveyInv, BoardTable, LineOnItsWay, AppTable, OneRowEach, Sighted
<1>9. CASE survey_start
  <2>1. /\ ~live /\ live' /\ survey' = <<>> /\ unsaid' = {}
        /\ g_survey' = [i \in Slots |-> NoSighting] /\ writing' = 0 /\ cursor' = 0
        /\ UNCHANGED <<sv_line, news, torn_lines>>
    BY <1>9 DEF survey_start
  <2>2. BoardTable' /\ \A n \in Wanted : \A c : BoardCounts(n, c)'
    BY <2>1, EmptyTable
  <2>3. LineOnItsWay'
    BY <2>1 DEF SurveyInv, LineOnItsWay
  <2>4. AppTable'
    BY <2>1, SurveyAssumption DEF AppTable, OneRowEach
  <2>5. \A n \in Wanted : NotBehind(n)'
    BY <2>1, <2>2 DEF NotBehind
  <2> QED BY <2>2, <2>3, <2>4, <2>5 DEF SurveyInv
<1>10. CASE SurveyCrash
  <2>1. /\ live' = FALSE /\ sv_line' = NoSighting /\ news' = FALSE /\ cursor' = 0
        /\ survey' = <<>> /\ UNCHANGED <<g_survey, writing, unsaid, torn_lines>>
    BY <1>10 DEF SurveyCrash
  <2>2. BoardTable' /\ LineOnItsWay'
    BY <2>1, SurveyAssumption DEF SurveyInv, BoardTable, LineOnItsWay, OneRowEach, Sighted
  <2>3. AppTable'
    BY <2>1, SurveyAssumption DEF AppTable, OneRowEach
  <2> QED BY <2>1, <2>2, <2>3 DEF SurveyInv
<1>11. CASE UNCHANGED survey_vars
  BY <1>11 DEF survey_vars, surveyed, SurveyInv, BoardTable, LineOnItsWay, AppTable,
               OneRowEach, Sighted, NotBehind, BoardCounts
<1> QED BY <1>1, <1>2, <1>3, <1>4, <1>5, <1>6, <1>7, <1>8, <1>9, <1>10, <1>11 DEF SurveyNext

(* The survey's tables and the line between them keep their shape, and a   *)
(* row's signal and channel are of one sighting unless a line was printed  *)
(* between its two stores.                                                 *)
THEOREM SurveyShape == SurveySpec => []SurveyTypeOK
<1>1. BoardRow \subseteq Rows(MaxCount)
  BY SurveyAssumption DEF BoardRow, Rows
<1>2. SurveyInv => SurveyTypeOK
  <2> SUFFICES ASSUME SurveyInv PROVE SurveyTypeOK
    OBVIOUS
  <2>1. survey \in Seq(Rows(MaxCount))
    BY <1>1, SeqMonotonic DEF SurveyInv, AppTable
  <2> QED BY <1>1, <2>1
          DEF SurveyInv, BoardTable, LineOnItsWay, AppTable, Sighted, SurveyTypeOK
<1> QED BY <1>2, InitSurvey, StepSurvey, PTL DEF SurveySpec

(* A wanted device that has a row in the app is reported again only when   *)
(* the board has heard it since it last printed its row, for any tables,   *)
(* losses, torn lines and power cycles.                                    *)
THEOREM QuietDevices == SurveySpec => QuietStaysSilent
<1>1. SurveyInv /\ [SurveyNext]_survey_vars
        => [said' # "none" /\ Holding(survey, said') # {} => news]_survey_vars
  <2> SUFFICES ASSUME SurveyInv, SurveyNext, said' # "none", Holding(survey, said') # {}, ~news
               PROVE  FALSE
    OBVIOUS
  <2>1. recon_app_survey_add
    BY DEF SurveyNext, survey_note, NoteChannel, survey_dump, DumpRow, BoardReset,
           SurveyLineLost, survey_stop, survey_start, SurveyCrash
  <2>2. /\ live /\ said' = sv_line.mac /\ sv_line.mac \in Wanted
        /\ \A i \in Holding(survey, sv_line.mac) : sv_line.count > survey[i].count
        /\ sv_line # NoSighting
    BY <2>1 DEF recon_app_survey_add, HeardAgain
  <2>3. PICK i \in Holding(survey, sv_line.mac) : TRUE
    BY <2>2
  <2>4. i \in DOMAIN survey /\ survey[i].mac = sv_line.mac
    BY <2>3 DEF Holding, Used
  <2>5. sv_line.count <= survey[i].count
    BY <2>2, <2>4 DEF SurveyInv, NotBehind
  <2>6. sv_line.count \in Nat /\ survey[i].count \in Nat
    <3>1. sv_line \in BoardRow /\ survey[i] \in BoardRow
      BY <2>2, <2>4, ElementOfSeq DEF SurveyInv, LineOnItsWay, AppTable
    <3> QED BY <3>1, RowFacts, SurveyAssumption
  <2> QED BY <2>2, <2>3, <2>5, <2>6
<1> QED BY <1>1, InitSurvey, StepSurvey, PTL DEF SurveySpec, QuietStaysSilent

-----------------------------------------------------------------------------
(* The radio's shape.  A BLE scan that runs has a slice left.              *)
Slicing == at \in {"ble", "drain"} => left >= 1

RadioShape == TypeOK /\ Slicing

LEMMA RadioNumbers ==
  WifiTicks \in Nat /\ MaxResets \in Nat /\ BleSlices \in Nat /\ BleSlices >= 1
BY RadioAssumption

\* The sweep of a band has a channel at every position.
LEMMA SweepFacts ==
  ASSUME NEW b \in Bands
  PROVE  /\ hop_count(b) \in Nat /\ hop_count(b) >= 1
         /\ \A i \in 0..(hop_count(b) - 1) : hop_channel(b, i) \in Channels
<1> DEFINE S == Nat \ {0}
<1>1. /\ Sweep24 \in Seq(S) /\ Sweep5 \in Seq(S)
      /\ Len(Sweep24) \in Nat \ {0} /\ Len(Sweep5) \in Nat \ {0}
  <2>1. Sweep24 \in Seq(S) /\ Sweep24 # <<>> /\ Sweep5 \in Seq(S) /\ Sweep5 # <<>>
    BY RadioAssumption
  <2> QED BY <2>1, EmptySeq, LenProperties
<1>2. \A i \in 1..Len(Sweep24) : Sweep24[i] \in Channels
  BY <1>1, LenProperties DEF Channels, Elements
<1>3. \A i \in 1..Len(Sweep5) : Sweep5[i] \in Channels
  BY <1>1, LenProperties DEF Channels, Elements
<1>4. CASE b = "2g"
  BY <1>1, <1>2, <1>4 DEF hop_count, hop_channel, SweepOf
<1>5. CASE b = "5g"
  BY <1>1, <1>3, <1>5 DEF hop_count, hop_channel, SweepOf
<1>6. CASE b = "all"
  <2> DEFINE a == Sweep24 \o Sweep5
  <2>1. hop_count(b) = Len(a) /\ \A i : hop_channel(b, i) = a[i + 1]
    BY <1>6 DEF hop_count, hop_channel, SweepOf
  <2>2. /\ Len(a) = Len(Sweep24) + Len(Sweep5)
        /\ \A i \in 1..Len(a) :
             a[i] = IF i <= Len(Sweep24) THEN Sweep24[i] ELSE Sweep5[i - Len(Sweep24)]
    BY <1>1, ConcatProperties
  <2> HIDE DEF a
  <2>3. ASSUME NEW i \in 1..Len(a) PROVE a[i] \in Channels
    <3> DEFINE k == Len(Sweep24)
    <3>1. k \in Nat /\ Len(Sweep5) \in Nat /\ i \in Nat /\ 1 <= i /\ i <= k + Len(Sweep5)
      BY <1>1, <2>2
    <3>2. a[i] = IF i <= k THEN Sweep24[i] ELSE Sweep5[i - k]
      BY <2>2
    <3> HIDE DEF k
    <3>3. CASE i <= k
      <4>1. i \in 1..k
        BY <3>1, <3>3
      <4> QED BY <1>2, <3>2, <3>3, <4>1 DEF k
    <3>4. CASE ~(i <= k)
      <4>1. i - k \in 1..Len(Sweep5)
        BY <3>1, <3>4
      <4> QED BY <1>3, <3>2, <3>4, <4>1
    <3> QED BY <3>3, <3>4
  <2>4. Len(a) \in Nat /\ Len(a) >= 1
    BY <1>1, <2>2
  <2>5. ASSUME NEW i \in 0..(Len(a) - 1) PROVE hop_channel(b, i) \in Channels
    <3>1. i + 1 \in 1..Len(a)
      BY <2>4, <2>5
    <3> QED BY <2>1, <2>3, <3>1
  <2> QED BY <2>1, <2>4, <2>5
<1> QED BY <1>4, <1>5, <1>6 DEF Bands

\* The sweep has a first place, and after each place a next one.
LEMMA FirstPlace ==
  ASSUME NEW b \in Bands
  PROVE  0 \in 0..(hop_count(b) - 1)
<1>1. hop_count(b) \in Nat /\ hop_count(b) >= 1
  BY SweepFacts
<1> QED BY <1>1

LEMMA NextPlace ==
  ASSUME NEW b \in Bands, NEW i \in 0..(hop_count(b) - 1)
  PROVE  (i + 1) % hop_count(b) \in 0..(hop_count(b) - 1)
<1>1. hop_count(b) \in Nat /\ hop_count(b) >= 1
  BY SweepFacts
<1> QED BY <1>1

LEMMA InitShapeRadio == Init => RadioShape
<1> SUFFICES ASSUME Init PROVE RadioShape
  OBVIOUS
<1>1. band \in Bands
  BY DEF Init, BootBands, Bands
<1>2. hop_i = 0
  BY DEF Init
<1>3. hop_i \in 0..(hop_count(band) - 1)
  BY <1>1, <1>2, FirstPlace
<1>4. left \in 0..2*BleSlices /\ phase \in 0..WifiTicks /\ resets \in 0..MaxResets
  <2>1. left = 0 /\ phase = 0 /\ resets = 0
    BY DEF Init
  <2> QED BY <2>1, RadioNumbers
<1> QED BY <1>1, <1>3, <1>4 DEF Init, RadioShape, TypeOK, Slicing

\* The switches stay switches.
LEMMA Switches ==
  ASSUME RadioShape, Next
  PROVE  /\ scanning' \in BOOLEAN /\ combo' \in BOOLEAN /\ promisc' \in BOOLEAN
         /\ hop_due' \in BOOLEAN /\ ticked' \in BOOLEAN /\ gps_on' \in BOOLEAN
<1>1. /\ scanning \in BOOLEAN /\ combo \in BOOLEAN /\ promisc \in BOOLEAN
      /\ hop_due \in BOOLEAN /\ ticked \in BOOLEAN /\ gps_on \in BOOLEAN
  BY DEF RadioShape, TypeOK
<1>2. FreedPromisc \in BOOLEAN
  BY <1>1, Zenon DEF FreedPromisc
<1>3. (promisc /\ ~(locate = "b" /\ build.ble)) \in BOOLEAN
  BY Zenon
<1> USE <1>1, <1>2, <1>3 DEF tuning
<1>4. CASE Command
  <2> USE DEF Take, Retask
  <2>1. CASE SetMode
    <3>1. PICK c \in {"scan", "stop", "flockwifi", "flockcombo"} :
            /\ scanning' = (IF c = "flockwifi" THEN scanning ELSE c # "stop")
            /\ combo' = (c = "flockcombo")
            /\ promisc' = FreedPromisc /\ UNCHANGED <<hop_due, ticked, gps_on>>
      BY <2>1 DEF SetMode
    <3>2. (c # "stop") \in BOOLEAN /\ (c = "flockcombo") \in BOOLEAN
      BY Zenon
    <3> QED BY <3>1, <3>2
  <2>2. CASE Query
    BY <2>2 DEF Query
  <2>3. CASE Gps
    BY <2>3 DEF Gps
  <2>4. CASE Ch
    BY <2>4 DEF Ch
  <2>5. CASE Band
    BY <2>5 DEF Band
  <2>6. CASE Locate
    BY <2>6 DEF Locate
  <2>7. CASE LocateOff
    BY <2>7 DEF LocateOff
  <2>8. CASE WifiScan
    BY <2>8 DEF WifiScan
  <2>9. CASE BleCommand
    BY <2>9 DEF BleCommand
  <2>10. CASE Bootloader
    BY <2>10 DEF Bootloader
  <2> QED BY <1>4, <2>1, <2>2, <2>3, <2>4, <2>5, <2>6, <2>7, <2>8, <2>9, <2>10 DEF Command
<1>5. CASE Step
  <2> USE DEF Pass, TimePasses
  <2>1. CASE NoCommand
    BY <2>1 DEF NoCommand
  <2>2. CASE PassHunting
    BY <2>2 DEF PassHunting
  <2>3. CASE PassCombo
    BY <2>3 DEF PassCombo
  <2>4. CASE PassSweep
    BY <2>4 DEF PassSweep
  <2>5. CASE Slice
    BY <2>5 DEF Slice
  <2>6. CASE Drain
    BY <2>6 DEF Drain
  <2>7. CASE WifiScanned
    BY <2>7 DEF WifiScanned
  <2>8. CASE Acted
    BY <2>8 DEF Acted
  <2>9. CASE Hunted
    BY <2>9 DEF Hunted
  <2> QED BY <1>5, <2>1, <2>2, <2>3, <2>4, <2>5, <2>6, <2>7, <2>8, <2>9 DEF Step
<1>6. CASE Clock
  BY <1>6 DEF Clock
<1>7. CASE Reset
  BY <1>7 DEF Reset
<1> QED BY <1>4, <1>5, <1>6, <1>7 DEF Next

\* The channels stay those of the sweep.
LEMMA Tuned ==
  ASSUME RadioShape, Next
  PROVE  /\ build' \in Builds /\ locate' \in {"", "w", "b"}
         /\ chan' \in Channels \cup {1} /\ lock' \in Channels \cup {0}
         /\ band' \in Bands /\ hop_i' \in 0..(hop_count(band') - 1)
<1> DEFINE Placed(b, i) == i \in 0..(hop_count(b) - 1)
<1>1. /\ build \in Builds /\ locate \in {"", "w", "b"}
      /\ chan \in Channels \cup {1} /\ lock \in Channels \cup {0}
      /\ band \in Bands /\ Placed(band, hop_i)
      /\ FreedLock \in Channels \cup {0}
      /\ Elements(Sweep24) \subseteq Channels /\ Elements(Sweep5) \subseteq Channels
  BY DEF RadioShape, TypeOK, FreedLock, Channels
<1> SUFFICES /\ build' \in Builds /\ locate' \in {"", "w", "b"}
             /\ chan' \in Channels \cup {1} /\ lock' \in Channels \cup {0}
             /\ band' \in Bands /\ Placed(band', hop_i')
  OBVIOUS
<1> HIDE DEF Placed
<1>2. CASE Command
  <2> USE <1>1, <1>2 DEF Take, Retask, tuning
  <2>1. CASE SetMode
    BY <2>1 DEF SetMode
  <2>2. CASE Query
    BY <2>2 DEF Query
  <2>3. CASE Gps
    BY <2>3 DEF Gps
  <2>4. CASE Ch
    BY <2>4 DEF Ch
  <2>5. CASE Band
    <3>1. band' \in Bands /\ hop_i' = 0 /\ chan' = hop_channel(band', 0)
      BY <2>5 DEF Band, Bands
    <3>3. Placed(band', 0)
      BY <3>1, FirstPlace DEF Placed
    <3>4. hop_channel(band', 0) \in Channels
      BY <3>1, <3>3, SweepFacts DEF Placed
    <3> QED BY <2>5, <3>1, <3>3, <3>4 DEF Band
  <2>6. CASE Locate
    BY <2>6 DEF Locate
  <2>7. CASE LocateOff
    BY <2>7 DEF LocateOff
  <2>8. CASE WifiScan
    BY <2>8 DEF WifiScan
  <2>9. CASE BleCommand
    BY <2>9 DEF BleCommand
  <2>10. CASE Bootloader
    BY <2>10 DEF Bootloader
  <2> QED BY <2>1, <2>2, <2>3, <2>4, <2>5, <2>6, <2>7, <2>8, <2>9, <2>10 DEF Command
<1>3. CASE Step
  <2> USE <1>1, <1>3 DEF Pass, TimePasses, tuning
  <2>1. CASE NoCommand
    BY <2>1 DEF NoCommand
  <2>2. CASE PassHunting
    BY <2>2 DEF PassHunting
  <2>3. CASE PassCombo
    BY <2>3 DEF PassCombo
  <2>4. CASE PassSweep
    <3>1. band \in Bands /\ hop_i \in 0..(hop_count(band) - 1)
      BY DEF Placed
    <3>3. NextHop \in 0..(hop_count(band) - 1)
      BY <3>1, NextPlace DEF NextHop
    <3>4. Placed(band, NextHop)
      BY <3>3 DEF Placed
    <3>5. hop_channel(band, NextHop) \in Channels
      BY <3>3, SweepFacts
    <3> QED BY <2>4, <3>4, <3>5 DEF PassSweep
  <2>5. CASE Slice
    BY <2>5 DEF Slice
  <2>6. CASE Drain
    BY <2>6 DEF Drain
  <2>7. CASE WifiScanned
    BY <2>7 DEF WifiScanned
  <2>8. CASE Acted
    BY <2>8 DEF Acted
  <2>9. CASE Hunted
    BY <2>9 DEF Hunted
  <2> QED BY <2>1, <2>2, <2>3, <2>4, <2>5, <2>6, <2>7, <2>8, <2>9 DEF Step
<1>4. CASE Clock
  BY <1>1, <1>4 DEF Clock, tuning
<1>5. CASE Reset
  <2>1. band' \in Bands /\ hop_i' = 0
    BY <1>5 DEF Reset, BootBands, Bands
  <2>3. Placed(band', hop_i')
    BY <2>1, FirstPlace DEF Placed
  <2> QED BY <1>1, <1>5, <2>1, <2>3 DEF Reset
<1> QED BY <1>2, <1>3, <1>4, <1>5 DEF Next

\* The task is where it can be, and a BLE scan that runs has a slice left.
LEMMA Places ==
  ASSUME RadioShape, Next
  PROVE  /\ at' \in {"top", "pass", "rom"} \cup Blocked
         /\ left' \in 0..2*BleSlices /\ Slicing'
<1> DEFINE Here == {"top", "pass", "rom", "ble", "drain", "wifi", "action", "hunt"}
<1>1. /\ at \in Here /\ left \in 0..2*BleSlices /\ Slicing
      /\ BleSlices \in Nat /\ BleSlices >= 1
  BY RadioNumbers DEF RadioShape, TypeOK, Blocked
<1> SUFFICES at' \in Here /\ left' \in 0..2*BleSlices /\ Slicing'
  BY DEF Blocked
<1>2. CASE Command
  <2> USE <1>1, <1>2 DEF Take, Retask, tuning, Slicing
  <2>1. CASE SetMode
    BY <2>1 DEF SetMode
  <2>2. CASE Query
    BY <2>2 DEF Query
  <2>3. CASE Gps
    BY <2>3 DEF Gps
  <2>4. CASE Ch
    BY <2>4 DEF Ch
  <2>5. CASE Band
    BY <2>5 DEF Band
  <2>6. CASE Locate
    BY <2>6 DEF Locate
  <2>7. CASE LocateOff
    BY <2>7 DEF LocateOff
  <2>8. CASE WifiScan
    BY <2>8 DEF WifiScan
  <2>9. CASE BleCommand
    <3>1. PICK c \in {"blescan", "ble_action"} :
            \/ at' = "ble" /\ left' = 2 * BleSlices
            \/ at' = "action" /\ left' = 0
            \/ at' = "pass" /\ left' = left
      BY <2>9 DEF BleCommand
    <3> QED BY <3>1
  <2>10. CASE Bootloader
    BY <2>10 DEF Bootloader
  <2> QED BY <2>1, <2>2, <2>3, <2>4, <2>5, <2>6, <2>7, <2>8, <2>9, <2>10 DEF Command
<1>3. CASE Step
  <2> USE <1>1, <1>3 DEF Pass, TimePasses, tuning, Slicing
  <2>1. CASE NoCommand
    BY <2>1 DEF NoCommand
  <2>2. CASE PassHunting
    BY <2>2 DEF PassHunting
  <2>3. CASE PassCombo
    <3>1. (at' = "ble" /\ left' = BleSlices) \/ (at' = "top" /\ left' = left)
      BY <2>3 DEF PassCombo
    <3> QED BY <3>1
  <2>4. CASE PassSweep
    BY <2>4 DEF PassSweep
  <2>5. CASE Slice
    BY <2>5 DEF Slice
  <2>6. CASE Drain
    BY <2>6 DEF Drain, Drained
  <2>7. CASE WifiScanned
    BY <2>7 DEF WifiScanned
  <2>8. CASE Acted
    BY <2>8 DEF Acted
  <2>9. CASE Hunted
    BY <2>9 DEF Hunted
  <2> QED BY <2>1, <2>2, <2>3, <2>4, <2>5, <2>6, <2>7, <2>8, <2>9 DEF Step
<1>4. CASE Clock
  <2>1. at = "top" /\ at' = at /\ left' = left
    BY <1>4 DEF Clock
  <2> QED BY <1>1, <2>1 DEF Slicing
<1>5. CASE Reset
  <2>1. at' = "top" /\ left' = 0
    BY <1>5 DEF Reset
  <2> QED BY <1>1, <2>1 DEF Slicing
<1> QED BY <1>2, <1>3, <1>4, <1>5 DEF Next

\* The counters stay in their bounds.
LEMMA Counters ==
  ASSUME RadioShape, Next
  PROVE  phase' \in 0..WifiTicks /\ owed' \in Nat /\ resets' \in 0..MaxResets
<1>1. /\ phase \in 0..WifiTicks /\ owed \in Nat /\ resets \in 0..MaxResets
      /\ WifiTicks \in Nat /\ MaxResets \in Nat
  BY RadioNumbers DEF RadioShape, TypeOK
<1>2. CASE Command
  <2> USE <1>1, <1>2 DEF Take, Retask, tuning
  <2>1. CASE SetMode
    <3>1. phase' \in {phase, 0} /\ owed' = owed /\ resets' = resets
      BY <2>1 DEF SetMode
    <3> QED BY <3>1
  <2>2. CASE Query
    BY <2>2 DEF Query
  <2>3. CASE Gps
    BY <2>3 DEF Gps
  <2>4. CASE Ch
    BY <2>4 DEF Ch
  <2>5. CASE Band
    BY <2>5 DEF Band
  <2>6. CASE Locate
    BY <2>6 DEF Locate
  <2>7. CASE LocateOff
    BY <2>7 DEF LocateOff
  <2>8. CASE WifiScan
    BY <2>8 DEF WifiScan
  <2>9. CASE BleCommand
    BY <2>9 DEF BleCommand
  <2>10. CASE Bootloader
    BY <2>10 DEF Bootloader
  <2> QED BY <2>1, <2>2, <2>3, <2>4, <2>5, <2>6, <2>7, <2>8, <2>9, <2>10 DEF Command
<1>3. CASE Step
  <2> USE <1>1, <1>3 DEF Pass, TimePasses, tuning
  <2>1. CASE NoCommand
    BY <2>1 DEF NoCommand
  <2>2. CASE PassHunting
    BY <2>2 DEF PassHunting
  <2>3. CASE PassCombo
    <3>1. phase' \in {phase, 0} /\ owed' = 0 /\ resets' = resets
      BY <2>3 DEF PassCombo
    <3> QED BY <3>1
  <2>4. CASE PassSweep
    BY <2>4 DEF PassSweep
  <2>5. CASE Slice
    BY <2>5 DEF Slice
  <2>6. CASE Drain
    BY <2>6 DEF Drain, Drained
  <2>7. CASE WifiScanned
    BY <2>7 DEF WifiScanned
  <2>8. CASE Acted
    BY <2>8 DEF Acted
  <2>9. CASE Hunted
    BY <2>9 DEF Hunted
  <2> QED BY <2>1, <2>2, <2>3, <2>4, <2>5, <2>6, <2>7, <2>8, <2>9 DEF Step
<1>4. CASE Clock
  <2>1. phase' = Min2(phase + 1, WifiTicks) /\ owed' = owed /\ resets' = resets
    BY <1>4 DEF Clock
  <2> QED BY <1>1, <2>1 DEF Min2
<1>5. CASE Reset
  <2>1. phase' = 0 /\ owed' = 0 /\ resets' = resets + 1 /\ resets < MaxResets
    BY <1>5 DEF Reset
  <2> QED BY <1>1, <2>1
<1> QED BY <1>2, <1>3, <1>4, <1>5 DEF Next

LEMMA StepShapeRadio == RadioShape /\ [Next]_vars => RadioShape'
<1>1. ASSUME RadioShape, Next PROVE RadioShape'
  <2>1. RadioShape /\ Next
    BY <1>1
  <2>2. /\ scanning' \in BOOLEAN /\ combo' \in BOOLEAN /\ promisc' \in BOOLEAN
        /\ hop_due' \in BOOLEAN /\ ticked' \in BOOLEAN /\ gps_on' \in BOOLEAN
    BY <2>1, Switches
  <2> QED BY <2>1, <2>2, Tuned, Places, Counters DEF RadioShape, TypeOK
<1>2. ASSUME RadioShape, UNCHANGED vars PROVE RadioShape'
  <2>1. /\ build' = build /\ scanning' = scanning /\ combo' = combo /\ locate' = locate
        /\ lock' = lock /\ chan' = chan /\ band' = band /\ hop_i' = hop_i /\ promisc' = promisc
        /\ at' = at /\ left' = left /\ phase' = phase /\ hop_due' = hop_due /\ ticked' = ticked
        /\ gps_on' = gps_on /\ owed' = owed /\ resets' = resets
    BY <1>2 DEF vars, tuning
  <2>2. /\ scanning \in BOOLEAN /\ combo \in BOOLEAN /\ promisc \in BOOLEAN
        /\ hop_due \in BOOLEAN /\ ticked \in BOOLEAN /\ gps_on \in BOOLEAN
    BY <1>2 DEF RadioShape, TypeOK
  <2>3. /\ scanning' \in BOOLEAN /\ combo' \in BOOLEAN /\ promisc' \in BOOLEAN
        /\ hop_due' \in BOOLEAN /\ ticked' \in BOOLEAN /\ gps_on' \in BOOLEAN
    BY <2>1, <2>2, Zenon
  <2>4. /\ band' \in Bands /\ hop_i' \in 0..(hop_count(band') - 1)
    <3>1. band \in Bands /\ hop_i \in 0..(hop_count(band) - 1)
      BY <1>2 DEF RadioShape, TypeOK
    <3> QED BY <2>1, <3>1
  <2> QED BY <1>2, <2>1, <2>3, <2>4 DEF RadioShape, TypeOK, Slicing
<1> QED BY <1>1, <1>2

(* The radio keeps its shape: its channel is one of the sweep and its      *)
(* place in the rotation one of the band's, whatever the sweep.            *)
THEOREM RadioKeepsShape == Spec => []TypeOK
<1>1. RadioShape => TypeOK
  BY DEF RadioShape
<1> QED BY <1>1, InitShapeRadio, StepShapeRadio, PTL DEF Spec

-----------------------------------------------------------------------------
(* The parts together.  A step of one part leaves the others alone, so     *)
(* what was proved of each part's behaviour holds under the one roof.      *)
LEMMA PartsStep ==
  ASSUME [BoardNext]_board_vars
  PROVE  [Next]_vars /\ [FramesNext]_frames_vars /\ [BleNext]_ble_vars /\ [SurveyNext]_survey_vars
BY DEF BoardNext, Radio, OnRadio, Capture, Ble, Survey, board_vars

(* A whole board keeps its shape, and the survey's rows what was heard.    *)
THEOREM BoardKeepsShape == BoardSpec => []BoardTypes
<1>1. BoardSpec => Spec /\ FramesSpec /\ BleSpec /\ SurveySpec
  BY PartsStep, PTL DEF BoardSpec, BoardInit, Spec, FramesSpec, BleSpec, SurveySpec
<1>2. BleInv => BleTypeOK
  BY DEF BleInv
<1>3. BleSpec => []BleTypeOK
  BY <1>2, InitBle, StepBle, PTL DEF BleSpec
<1> QED BY <1>1, <1>3, RadioKeepsShape, FramesShape, SurveyShape, PTL DEF BoardTypes

(* A whole board keeps every promise of its parts at once.                 *)
THEOREM BoardKeepsPromises ==
  BoardSpec => /\ [](RadioRestored /\ GpsKeptUp)
               /\ [](ConfirmedByOwnName /\ RateNeverOverstates)
               /\ []RingOnlySeparated /\ QuietStaysSilent
<1>1. BoardSpec => Spec /\ FramesSpec /\ BleSpec /\ SurveySpec
  BY PartsStep, PTL DEF BoardSpec, BoardInit, Spec, FramesSpec, BleSpec, SurveySpec
<1> QED BY <1>1, SnifferComesBack, GpsNeverWaits, OwnNameConfirms, RatesAreOwn,
           OnlySeparatedRings, QuietDevices, PTL
=============================================================================
