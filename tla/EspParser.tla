------------------------------ MODULE EspParser ------------------------------
(***************************************************************************)
(* What the app makes of a line: the companion's protocol (esp_parser.c),  *)
(* whose word is taken for the lower rungs only, and the text other        *)
(* firmware prints (marauder_scan.c).  A line may have lost its tail.      *)
(***************************************************************************)
EXTENDS FlockDb

(* A detection: [mac, rssi, ch, type, conf, ssid, fp, sg, cls, hid, pr] of *)
(* which the first `fields` came through; the trailers come after seven.   *)
Ssid(l) == IF l.fields >= 7 THEN l.ssid ELSE ""
Trailed(l) == l.fields > 7

conf_from_int(c) == IF c \in 0..2 THEN c ELSE IF c = 3 THEN Confirmed ELSE None

(* A name says for itself whether it confirms, and a probe request names   *)
(* the network sought and not its sender.                                  *)
ByName(conf, ssid) ==
  IF conf = Confirmed /\ ssid # "" THEN At_most(conf, flock_ssid_confidence(ssid)) ELSE conf

(* Seeded defect: a probe request's name confirms the prober.              *)
OfAnyFrame(conf, type) == conf

OfProbe(conf, type) == IF conf = Confirmed /\ type = "P" THEN Likely ELSE conf

Claim(l) == OfProbe(ByName(conf_from_int(l.conf), Ssid(l)), l.type)

Signed(l) == Trailed(l) /\ l.sg
FpOf(l) == IF Trailed(l) THEN l.fp ELSE NoFp

(* The fingerprint and the signature lift, each to its own cap.            *)
Rung(l) ==
  At_least(At_least(Claim(l), flock_ie_fp_confidence(FpOf(l), l.mac)),
           IF Signed(l) THEN ProbeFp ELSE None)

Source(l) ==
  IF flock_ie_fp_match(FpOf(l)) # "none" THEN "F"
  ELSE IF Signed(l) THEN "S"
  ELSE l.type

(* A class letter this build knows, else the address's own.                *)
Letters == [a |-> "acoustic", x |-> "bodycam", g |-> "gear", c |-> "alpr"]

ClassOf(l) ==
  IF Trailed(l) /\ l.cls \in DOMAIN Letters THEN Letters[l.cls] ELSE flock_class_from_mac(l.mac)

parse_flock(l) ==
  IF l.fields < 6 THEN {}
  ELSE {[mac |-> l.mac, ssid |-> Ssid(l), rssi |-> l.rssi, ch |-> l.ch, ftype |-> Source(l),
         conf |-> Rung(l), fp |-> FpOf(l), cls |-> ClassOf(l),
         hidden |-> Trailed(l) /\ l.hid, rate |-> IF Trailed(l) THEN l.pr ELSE 0]}

-----------------------------------------------------------------------------
(* An advertisement: [mac, rssi, cat, company, name, rv]; five fields will *)
(* do, and the service flag comes last.                                    *)
parse_ble(l) ==
  IF l.fields < 5 THEN {}
  ELSE {[mac |-> l.mac, rssi |-> l.rssi, cat |-> l.cat, company |-> l.company,
         name |-> IF l.fields >= 6 THEN l.name ELSE "", raven |-> l.fields > 6 /\ l.rv]}

(* The row it is, if it is a camera's or a body camera's at all.           *)
DetectionOf(b) ==
  IF b.cat \notin {"flock", "axon"} THEN {}
  ELSE {[mac |-> b.mac, ssid |-> b.name, rssi |-> b.rssi, ch |-> 0, ftype |-> "L",
         conf |-> flock_ble_confidence(b.company, b.name, b.raven), fp |-> NoFp,
         cls |-> IF b.cat = "axon" THEN "bodycam" ELSE IF b.raven THEN "acoustic" ELSE "alpr",
         hidden |-> FALSE, rate |-> 0]}

TellOf(b) == flock_ble_tell(b.company, b.name, b.raven, b.mac)

-----------------------------------------------------------------------------
(* A line of other firmware: the addresses in it, and the name it labels,  *)
(* or all of it as one.  A name is given to the only address on its line,  *)
(* or to one of a surveillance prefix; a prefix alone is nothing.          *)
Owed(l, mac) ==
  LET byName == flock_ssid_confidence(l.ssid)
      oui == flock_oui_match(mac) \/ soundthinking_oui_match(mac)
  IN  IF byName # None /\ (oui \/ Cardinality(l.macs) = 1) THEN At_least(byName, Possible)
      ELSE None

marauder_scan_line(l) ==
  {[mac |-> m, ssid |-> IF l.labelled THEN l.ssid ELSE "", rssi |-> 0, ch |-> 0, ftype |-> "O",
    conf |-> Owed(l, m), fp |-> NoFp, cls |-> flock_class_from_mac(m), hidden |-> FALSE,
    rate |-> 0] : m \in {m \in l.macs : Owed(l, m) # None}}
=============================================================================
