--------------------------- MODULE DeviceRowProofs ---------------------------
(***************************************************************************)
(* What a row claims, proved for all inputs: any addresses, detections,    *)
(* advertisements, scraped lines, survey rows and broadcasts.              *)
(***************************************************************************)
EXTENDS DeviceRowProps, SequenceTheorems, TLAPS

Fields == DOMAIN Born(0)
Signal == INT8_MIN..127
Strong == {MfgId, RavenGatt, Naming}

(* A row that is there, as every source leaves it.                         *)
Shaped(r) ==
  /\ DOMAIN r = Fields /\ r.there = TRUE
  /\ r.conf \in Rungs \ {None} /\ r.ftype \in FLOCK_FTYPE_SET /\ r.cls \in Classes
  /\ r.hidden \in BOOLEAN /\ r.broadcast \in BOOLEAN
  /\ r.rssi \in Signal /\ r.ch \in Channel /\ r.chan_rssi \in Signal
  /\ r.tell \in NoTell..OuiOnly
  /\ r.at \in {Unknown, "observer", "aircraft"} /\ (r.broadcast => r.at = "aircraft")

(* A report as every parser makes it.                                      *)
IsReport(s) ==
  /\ s.conf \in Rungs \ {None} /\ s.ftype \in FLOCK_FTYPE_SET /\ s.cls \in Classes
  /\ s.hidden \in BOOLEAN /\ s.rssi \in Signal /\ s.ch \in Channel
  /\ s.ch # 0 => s.rssi \in Received

(* What its evidence has made of the rung.                                 *)
Worth(s) ==
  /\ flock_ie_fp_match(s.fp) # "none" => s.conf >= ProbeFp
  /\ flock_ssid_confidence(s.ssid) # None => s.conf >= Likely \/ Excused(s.ssid)

(* Nothing is on record of a device without a row.                         *)
Blank == row = NoRow /\ proof = {} /\ named # "own" /\ ~kept /\ nearest = Nowhere

(* The signal kept beside the channel is the best one, on a row that has   *)
(* lived on reports of its own.                                            *)
Tuned ==
  /\ row.chan_rssi = nearest.best
  /\ nearest.on # {} => nearest.on = {row.ch}

(* What the words of the row rest on: a fingerprint or a name that is      *)
(* evidence has lifted the rung, and only an aircraft tells of a pilot.    *)
Worded ==
  /\ flock_ie_fp_match(row.fp) # "none" => row.conf >= ProbeFp
  /\ flock_ssid_confidence(row.ssid) # None => row.conf >= Likely \/ Excused(row.ssid)
  /\ row.pilot # Unknown => "remote id" \in proof

RowInv ==
  /\ dev \in Macs /\ launches \in 0..MaxLaunches /\ kept \in BOOLEAN
  /\ ~row.there => Blank
  /\ row.there =>
       /\ Shaped(row)
       /\ ConfirmedIsEarned /\ Explained
       /\ named = "own" => row.ssid # ""
       /\ kept => Tuned
       /\ Worded

(* The assumption, a part at a time.                                       *)
LEMMA Sizes == MaxLaunches \in Nat /\ INT8_MIN = -128 /\ flock_ssid_confidence("space") = None
BY RowAssumption

(* What is assumed of a companion's line.                                  *)
LEMMA DetectionsAre ==
  ASSUME NEW d \in Detections
  PROVE  /\ d.own \in BOOLEAN /\ d.guarded \in BOOLEAN
         /\ d.line.fields \in Nat /\ d.line.type \in {"P", "B", "R", "O"}
         /\ d.line.rssi \in Received /\ d.line.ch \in Channel
         /\ d.guarded /\ d.line.conf = 3 /\ d.line.type # "P" =>
              d.own /\ flock_ssid_confidence(d.line.ssid) = Confirmed
         /\ d.guarded /\ Ssid(d.line) \in {"unit", "test", "guest"} => d.line.conf \in {2, 3}
BY RowAssumption

(* What is assumed of the other sources' signals.                          *)
LEMMA SignalsAre ==
  /\ \A d \in Adverts : d.line.rssi \in Received
  /\ \A v \in Surveyed : v.rssi \in Received /\ v.ch \in Channel
  /\ \A b \in Broadcasts : b.rssi \in Received
BY RowAssumption

(* The numbers and ranges the merges compare.                              *)
LEMMA Numbers ==
  /\ INT8_MIN = -128 /\ Received \subseteq Signal /\ MaxLaunches \in Nat
  /\ Received \subseteq Int /\ Signal \subseteq Int /\ 0 \in Signal
  /\ None = 0 /\ Possible = 1 /\ Likely = 2 /\ ProbeFp = 3 /\ Confirmed = 4 /\ Rungs = 0..4
BY Sizes
   DEF Received, Signal, None, Possible, Likely, ProbeFp, Confirmed, Rungs

(* The rungs, in order.                                                    *)
LEMMA RungsAre ==
  /\ None = 0 /\ Possible = 1 /\ Likely = 2 /\ ProbeFp = 3 /\ Confirmed = 4
  /\ Rungs = 0..4
BY DEF None, Possible, Likely, ProbeFp, Confirmed, Rungs

(* A rung at least another's is at least what that one is.                 *)
LEMMA NoLess ==
  ASSUME NEW a \in Rungs, NEW b \in Rungs, NEW c \in Rungs, a >= b, b >= c
  PROVE  a >= c
BY RungsAre

(* The rungs a row can be on differ.                                       *)
LEMMA TopRungs ==
  ProbeFp \in Rungs \ {None} /\ Confirmed \in Rungs \ {None} /\ Likely \in Rungs \ {None} /\
  Possible \in Rungs \ {None} /\ None # Confirmed /\ ProbeFp # Confirmed /\
  Likely # Confirmed /\ ProbeFp >= ProbeFp
BY RungsAre

(* No channel is one of the byte's values.                                 *)
LEMMA NoChannel == 0 \in Channel
BY DEF Channel

(* A row is born of its kind.                                              *)
LEMMA BornFields ==
  ASSUME NEW seed
  PROVE  /\ DOMAIN Born(seed) = Fields
         /\ Fields = {"there", "archived", "conf", "ftype", "fp", "cls", "hidden", "ssid", "rssi",
                      "ch", "chan_rssi", "rate", "tell", "at", "geotag_rssi", "broadcast",
                      "pilot", "kind"}
BY DEF Born, Fields

-----------------------------------------------------------------------------
(* What the parsers make.                                                  *)

(* An address has the class of its table.                                  *)
LEMMA ClassOfMac ==
  ASSUME NEW m
  PROVE  flock_class_from_mac(m) \in Classes
BY DEF flock_class_from_mac, Vendors, flock_vendor_tables, Classes

(* A fingerprint that matches is worth its own rung; none confirms, the    *)
(* built-in table being empty.                                             *)
LEMMA FpRung ==
  ASSUME NEW fp, NEW m
  PROVE  /\ flock_ie_fp_confidence(fp, m) \in {None, ProbeFp}
         /\ flock_ie_fp_match(fp) # "none" => flock_ie_fp_confidence(fp, m) = ProbeFp
         /\ flock_ie_fp_match(fp) \in {"none", "candidate", "user"}
<1>1. flock_ie_fp_match(fp) \in {"none", "candidate", "user"}
  BY DEF flock_ie_fp_match, flock_ie_fps
<1> QED BY <1>1 DEF flock_ie_fp_confidence

(* A name confirms, suggests or says nothing.                              *)
LEMMA SsidRung ==
  ASSUME NEW ssid
  PROVE  flock_ssid_confidence(ssid) \in {None, Likely, Confirmed}
BY DEF flock_ssid_confidence

(* Whatever letter the line has, the claim is a rung.                      *)
LEMMA ByClaim ==
  ASSUME NEW l
  PROVE  Claim(l) \in Rungs
<1>1. conf_from_int(l.conf) \in Rungs
  BY Numbers DEF conf_from_int
<1>2. flock_ssid_confidence(Ssid(l)) \in Rungs
  BY Numbers, SsidRung
<1>3. ByName(conf_from_int(l.conf), Ssid(l)) \in Rungs
  BY <1>1, <1>2 DEF ByName, At_most
<1> QED BY <1>3, Numbers DEF Claim, OfProbe

(* No name and no fingerprint are evidence of nothing.                     *)
LEMMA NoName == flock_ssid_confidence("") = None /\ flock_ie_fp_match(NoFp) = "none"
BY DEF flock_ssid_confidence, flock_ie_fp_match

(* The app believes of the companion's word what the name bears out; where *)
(* it does not, the companion is one from before the guards.               *)
LEMMA ClaimIsBorneOut ==
  ASSUME NEW d \in Detections
  PROVE  /\ Claim(d.line) = Confirmed => VouchedBy(d) # {}
         /\ /\ Ssid(d.line) \in {"unit", "test", "guest"}
            /\ d.guarded \/ d.line.conf \in {2, 3}
            => Claim(d.line) \in {Likely, Confirmed}
<1> DEFINE l == d.line
           said == conf_from_int(l.conf)
           name == flock_ssid_confidence(Ssid(l))
           by == ByName(said, Ssid(l))
<1>1. said = Confirmed => l.conf = 3
  BY Numbers DEF conf_from_int
<1>2. l.conf \in {2, 3} => said \in {Likely, Confirmed}
  BY Numbers DEF conf_from_int
<1>3. said \in Rungs
  BY Numbers DEF conf_from_int
<1>4. name \in {None, Likely, Confirmed}
  BY SsidRung
<1> HIDE DEF said, name
<1>5. by = IF said = Confirmed /\ Ssid(l) # "" THEN At_most(said, name) ELSE said
  BY DEF ByName, name
<1> HIDE DEF by
<1>6. by = Confirmed => said = Confirmed /\ (Ssid(l) = "" \/ name = Confirmed)
  <2>1. ASSUME NEW a \in Rungs, NEW b \in {None, Likely, Confirmed}, At_most(a, b) = Confirmed
        PROVE  a = Confirmed /\ b = Confirmed
    BY <2>1, RungsAre DEF At_most
  <2>2. CASE said = Confirmed /\ Ssid(l) # ""
    BY <1>3, <1>4, <1>5, <2>1, <2>2
  <2>3. CASE ~(said = Confirmed /\ Ssid(l) # "")
    BY <1>5, <2>3
  <2> QED BY <2>2, <2>3
<1>7. said \in {Likely, Confirmed} /\ name # None => by \in {Likely, Confirmed}
  BY <1>4, <1>5, RungsAre DEF At_most
<1>8. Claim(l) = IF by = Confirmed /\ l.type = "P" THEN Likely ELSE by
  BY DEF Claim, OfProbe, said, by
<1>9. Claim(l) = Confirmed => by = Confirmed /\ l.type # "P"
  BY <1>8, TopRungs
<1>10. by \in {Likely, Confirmed} => Claim(l) \in {Likely, Confirmed}
  BY <1>8
<1>11. Claim(l) = Confirmed => VouchedBy(d) # {}
  <2> SUFFICES ASSUME Claim(l) = Confirmed PROVE \E w \in VouchedBy(d) : TRUE
    OBVIOUS
  <2>1. /\ l.conf = 3 /\ l.type # "P"
        /\ Ssid(l) = "" \/ flock_ssid_confidence(Ssid(l)) = Confirmed
    BY <1>1, <1>6, <1>9 DEF name
  <2>2. CASE d.own /\ flock_ssid_confidence(l.ssid) = Confirmed
    <3>1. "own name" \in VouchedBy(d)
      BY <2>2 DEF VouchedBy
    <3> QED BY <3>1
  <2>3. CASE ~(d.own /\ flock_ssid_confidence(l.ssid) = Confirmed)
    <3>1. ~d.guarded
      BY <2>1, <2>3, DetectionsAre
    <3>2. Ssid(l) # "" => Ssid(l) = l.ssid
      BY DEF Ssid
    <3>3. Ssid(l) = "" \/ (~d.own /\ flock_ssid_confidence(Ssid(l)) = Confirmed)
      BY <2>1, <2>3, <3>2
    <3>4. "trusted" \in VouchedBy(d)
      BY <2>1, <3>1, <3>3 DEF VouchedBy
    <3> QED BY <3>4
  <2> QED BY <2>2, <2>3
<1>12. /\ Ssid(l) \in {"unit", "test", "guest"}
       /\ d.guarded \/ l.conf \in {2, 3}
       => Claim(l) \in {Likely, Confirmed}
  <2> SUFFICES ASSUME Ssid(l) \in {"unit", "test", "guest"}, d.guarded \/ l.conf \in {2, 3}
               PROVE  Claim(l) \in {Likely, Confirmed}
    OBVIOUS
  <2>1. l.conf \in {2, 3}
    BY DetectionsAre
  <2>2. name # None
    BY TopRungs DEF name, flock_ssid_confidence
  <2> QED BY <1>2, <1>7, <1>10, <2>1, <2>2
<1> QED BY <1>11, <1>12

(* A detection, of any companion's build and however much of it came.      *)
LEMMA DetectionIsReport ==
  ASSUME NEW d \in Detections, NEW s \in parse_flock(d.line), s.conf # None, s.mac = dev
  PROVE  /\ IsReport(s) /\ Worth(s) /\ s.ftype # "L"
         /\ s.conf = Confirmed => VouchedBy(d) # {}
<1> DEFINE l == d.line
<1>2. s = [mac |-> l.mac, ssid |-> Ssid(l), rssi |-> l.rssi, ch |-> l.ch, ftype |-> Source(l),
           conf |-> Rung(l), fp |-> FpOf(l), cls |-> ClassOf(l),
           hidden |-> Trailed(l) /\ l.hid, rate |-> IF Trailed(l) THEN l.pr ELSE 0]
  BY DEF parse_flock
<1>3. s.ftype \in FLOCK_FTYPE_SET /\ s.ftype # "L"
  BY <1>2, DetectionsAre DEF Source, FLOCK_FTYPE_SET
<1>4. s.cls \in Classes
  BY <1>2, ClassOfMac DEF ClassOf, Letters, Classes
<1>5. s.conf \in Rungs /\ (s.conf = Confirmed => Claim(l) = Confirmed)
  BY <1>2, ByClaim, FpRung, Numbers DEF Rung, At_least
<1>6. s.hidden \in BOOLEAN
  BY <1>2
<1>7. s.rssi \in Received /\ s.ch \in Channel
  BY <1>2, DetectionsAre
<1>8. IsReport(s)
  <2>1. s.conf \in Rungs \ {None}
    BY <1>5
  <2>2. s.rssi \in Signal
    BY <1>7, Numbers
  <2> QED BY <1>3, <1>4, <1>6, <1>7, <2>1, <2>2 DEF IsReport
<1>9. Worth(s)
  <2>1. /\ Claim(l) \in Rungs /\ flock_ie_fp_confidence(FpOf(l), l.mac) \in {None, ProbeFp}
        /\ s.conf = Rung(l) /\ s.fp = FpOf(l) /\ s.ssid = Ssid(l)
    BY <1>2, ByClaim, FpRung
  <2>2. s.conf >= Claim(l) /\ s.conf >= flock_ie_fp_confidence(FpOf(l), l.mac)
    BY <2>1, Numbers DEF Rung, At_least
  <2>3. flock_ie_fp_match(s.fp) # "none" => s.conf >= ProbeFp
    BY <2>1, <2>2, FpRung
  <2>4. ASSUME flock_ssid_confidence(s.ssid) # None, ~Excused(s.ssid)
        PROVE  s.conf >= Likely
    <3>1. Ssid(l) \in {"unit", "test", "guest"}
      BY <2>1, <2>4 DEF Excused, flock_ssid_confidence
    <3>2. d.guarded \/ l.conf \in {2, 3}
      <4>1. dev = l.mac /\ s.ssid = Ssid(l)
        BY <1>2
      <4> QED BY <2>4, <4>1, DetectionsAre DEF Excused
    <3>3. Claim(l) \in {Likely, Confirmed}
      BY <3>1, <3>2, ClaimIsBorneOut
    <3> QED BY <2>2, <3>3, <1>5, Numbers
  <2> QED BY <2>3, <2>4 DEF Worth
<1> QED BY <1>3, <1>5, <1>8, <1>9, ClaimIsBorneOut

(* An advertisement: Confirmed exactly if it vouches, and then with a      *)
(* strong tell.                                                            *)
LEMMA AdvertIsReport ==
  ASSUME NEW d \in Adverts, NEW b \in parse_ble(d.line), NEW s \in DetectionOf(b), s.mac = dev
  PROVE  /\ IsReport(s) /\ Worth(s) /\ s.ch = 0
         /\ s.conf = Confirmed <=> Vouched(b.company, b.name, b.raven)
         /\ TellOf(b) \in NoTell..OuiOnly
         /\ TellOf(b) \in Strong <=> Vouched(b.company, b.name, b.raven)
<1> DEFINE l == d.line
<1>0. b = [mac |-> l.mac, rssi |-> l.rssi, cat |-> l.cat, company |-> l.company,
           name |-> IF l.fields >= 6 THEN l.name ELSE "", raven |-> l.fields > 6 /\ l.rv]
  BY DEF parse_ble
<1>1. b.rssi = l.rssi
  BY <1>0
<1>2. s = [mac |-> b.mac, ssid |-> b.name, rssi |-> b.rssi, ch |-> 0, ftype |-> "L",
           conf |-> flock_ble_confidence(b.company, b.name, b.raven), fp |-> NoFp,
           cls |-> IF b.cat = "axon" THEN "bodycam" ELSE IF b.raven THEN "acoustic" ELSE "alpr",
           hidden |-> FALSE, rate |-> 0]
  BY DEF DetectionOf
<1>3. /\ s.conf \in {Possible, Confirmed}
      /\ s.conf = Confirmed <=> Vouched(b.company, b.name, b.raven)
  BY <1>2, Numbers DEF flock_ble_confidence
<1>4. s.cls \in Classes /\ s.ftype \in FLOCK_FTYPE_SET /\ s.hidden \in BOOLEAN
  BY <1>2 DEF Classes, FLOCK_FTYPE_SET
<1>5. s.rssi \in Received /\ s.ch = 0
  BY <1>1, <1>2, SignalsAre
<1>6. /\ Vouched(b.company, b.name, b.raven) => TellOf(b) \in Strong
      /\ ~Vouched(b.company, b.name, b.raven) => TellOf(b) \in {OuiOnly, NoTell}
  BY DEF TellOf, flock_ble_tell, Strong, Vouched
<1>7. /\ Strong \cup {OuiOnly, NoTell} \subseteq NoTell..OuiOnly
      /\ Strong \cap {OuiOnly, NoTell} = {}
  BY DEF Strong, MfgId, RavenGatt, Naming, OuiOnly, NoTell
<1>8. TellOf(b) \in NoTell..OuiOnly /\ (TellOf(b) \in Strong <=> Vouched(b.company, b.name, b.raven))
  BY <1>6, <1>7
<1>9. IsReport(s)
  <2>1. s.conf \in Rungs \ {None}
    BY <1>3, Numbers
  <2>2. s.ch \in Channel /\ s.rssi \in Signal
    BY <1>5, NoChannel, Numbers
  <2>3. s.ch # 0 => s.rssi \in Received
    BY <1>5
  <2> QED BY <1>4, <2>1, <2>2, <2>3 DEF IsReport
<1>10. Worth(s)
  <2>1. s.fp = NoFp /\ s.mac = b.mac /\ s.ssid = b.name
    BY <1>2
  <2>2. b.mac = l.mac /\ b.name \in {"", l.name}
    BY <1>0
  <2>3. s.ssid = "" \/ Excused(s.ssid)
    BY <2>1, <2>2 DEF Excused
  <2> QED BY <2>1, <2>3, NoName DEF Worth
<1> QED BY <1>3, <1>5, <1>8, <1>9, <1>10

(* A line of other firmware.                                               *)
LEMMA ScrapIsReport ==
  ASSUME NEW l \in Scraps, NEW s \in marauder_scan_line(l)
  PROVE  IsReport(s) /\ Worth(s) /\ s.ch = 0 /\ s.ftype # "L"
<1>1. PICK m \in {m \in l.macs : Owed(l, m) # None} :
        s = [mac |-> m, ssid |-> IF l.labelled THEN l.ssid ELSE "", rssi |-> 0, ch |-> 0,
             ftype |-> "O", conf |-> Owed(l, m), fp |-> NoFp, cls |-> flock_class_from_mac(m),
             hidden |-> FALSE, rate |-> 0]
  BY DEF marauder_scan_line
<1>2. Owed(l, m) \in Rungs \ {None}
  <2>1. Owed(l, m) # None
    BY <1>1
  <2>2. flock_ssid_confidence(l.ssid) \in Rungs
    BY SsidRung, Numbers
  <2>3. At_least(flock_ssid_confidence(l.ssid), Possible) \in Rungs
    BY <2>2, Numbers DEF At_least
  <2>4. Owed(l, m) \in Rungs
    BY <2>3, Numbers DEF Owed
  <2> QED BY <2>1, <2>4
<1>3. s.conf \in Rungs \ {None}
  BY <1>1, <1>2
<1>4. s.cls \in Classes
  BY <1>1, ClassOfMac
<1>5. s.ftype \in FLOCK_FTYPE_SET /\ s.ftype # "L"
  BY <1>1 DEF FLOCK_FTYPE_SET
<1>6. s.rssi \in Signal /\ s.ch = 0 /\ s.ch \in Channel
  BY <1>1, NoChannel, Numbers
<1>7. s.hidden \in BOOLEAN
  BY <1>1
<1>8. Worth(s)
  <2>1. s.fp = NoFp /\ s.ssid \in {"", l.ssid} /\ s.conf = Owed(l, m)
    BY <1>1
  <2>2. Owed(l, m) = At_least(flock_ssid_confidence(l.ssid), Possible)
    BY <1>2 DEF Owed
  <2>3. flock_ssid_confidence(l.ssid) \in {None, Likely, Confirmed}
    BY SsidRung
  <2>4. ASSUME NEW rung \in {None, Likely, Confirmed}, rung # None
        PROVE  At_least(rung, Possible) >= Likely
    BY <2>4, RungsAre DEF At_least
  <2>5. flock_ssid_confidence(l.ssid) # None => s.conf >= Likely
    BY <2>1, <2>2, <2>3, <2>4
  <2> QED BY <2>1, <2>5, NoName DEF Worth
<1> QED BY <1>3, <1>4, <1>5, <1>6, <1>7, <1>8 DEF IsReport

(* A survey row never confirms.                                            *)
LEMMA SurveyIsReport ==
  ASSUME NEW v \in Surveyed, NEW s,
         s = [mac |-> v.mac, ssid |-> "", rssi |-> v.rssi, ch |-> v.ch, ftype |-> "F",
              conf |-> SurveyRung(v), fp |-> v.fp, cls |-> "alpr", hidden |-> FALSE, rate |-> 0],
         s.conf # None
  PROVE  IsReport(s) /\ Worth(s) /\ s.ftype # "L" /\ s.conf # Confirmed
<1>1. SurveyRung(v) \in {None, ProbeFp}
  BY FpRung, Numbers DEF SurveyRung, flock_mac_pin_confidence, At_least
<1>2. s.conf \in Rungs \ {None} /\ s.conf # Confirmed
  <2>1. s.conf = SurveyRung(v)
    OBVIOUS
  <2>2. s.conf \in {None, ProbeFp} /\ s.conf # None
    BY <1>1, <2>1
  <2>3. s.conf = ProbeFp
    BY <2>2
  <2> QED BY <2>3, TopRungs
<1>3. s.ftype \in FLOCK_FTYPE_SET /\ s.ftype # "L" /\ s.cls \in Classes /\ s.ssid = ""
  BY DEF FLOCK_FTYPE_SET, Classes
<1>4. s.rssi \in Received /\ s.rssi \in Signal /\ s.ch \in Channel
  BY SignalsAre, Numbers
<1>5. s.hidden \in BOOLEAN
  OBVIOUS
<1>6. Worth(s)
  <2>1. s.fp = v.fp /\ s.conf = SurveyRung(v)
    OBVIOUS
  <2>2. s.conf = ProbeFp
    BY <1>1, <2>1
  <2>3. s.conf >= ProbeFp
    BY <2>2, TopRungs
  <2> QED BY <1>3, <2>3, NoName DEF Worth
<1> QED BY <1>2, <1>3, <1>4, <1>5, <1>6 DEF IsReport

-----------------------------------------------------------------------------
(* What the merges do, field by field.                                     *)

(* The row a report meets, or the one it makes.                            *)
Met == IF row.there THEN row ELSE Born(INT8_MIN)

(* A report's merge, a field at a time.                                    *)
LEMMA MergeFields ==
  ASSUME NEW s, DOMAIN Met = Fields
  PROVE  /\ DOMAIN Merge(Met, s) = Fields
         /\ Merge(Met, s).there = Met.there
         /\ Merge(Met, s).rssi = Or_else(s.rssi, Met.rssi, 0)
         /\ Merge(Met, s).ch = IF Nearer(Met, s) THEN s.ch ELSE Met.ch
         /\ Merge(Met, s).chan_rssi = IF Nearer(Met, s) /\ s.rssi # 0 THEN s.rssi ELSE Met.chan_rssi
         /\ Merge(Met, s).ftype = s.ftype
         /\ Merge(Met, s).conf = At_least(Met.conf, s.conf)
         /\ Merge(Met, s).fp = Or_else(s.fp, Met.fp, NoFp)
         /\ Merge(Met, s).cls = Or_else(s.cls, Met.cls, "alpr")
         /\ Merge(Met, s).hidden = (Met.hidden \/ s.hidden)
         /\ Merge(Met, s).ssid = IF Renames(Met, s) THEN s.ssid ELSE Met.ssid
         /\ Merge(Met, s).at = IF Tags(Met, s) THEN "observer" ELSE Met.at
         /\ Merge(Met, s).broadcast = Met.broadcast
         /\ Merge(Met, s).tell = Met.tell
         /\ Merge(Met, s).pilot = Met.pilot
<1> USE BornFields
<1>1. DOMAIN Merge(Met, s) = Fields
  BY DEF Merge
<1>2. Merge(Met, s).there = Met.there /\ Merge(Met, s).rssi = Or_else(s.rssi, Met.rssi, 0)
  BY DEF Merge
<1>3. Merge(Met, s).ch = IF Nearer(Met, s) THEN s.ch ELSE Met.ch
  BY DEF Merge
<1>4. Merge(Met, s).chan_rssi = IF Nearer(Met, s) /\ s.rssi # 0 THEN s.rssi ELSE Met.chan_rssi
  BY DEF Merge
<1>5. Merge(Met, s).ftype = s.ftype /\ Merge(Met, s).conf = At_least(Met.conf, s.conf)
  BY DEF Merge
<1>6. Merge(Met, s).fp = Or_else(s.fp, Met.fp, NoFp) /\ Merge(Met, s).cls = Or_else(s.cls, Met.cls, "alpr")
  BY DEF Merge
<1>7. Merge(Met, s).hidden = (Met.hidden \/ s.hidden)
  BY DEF Merge
<1>8. Merge(Met, s).ssid = IF Renames(Met, s) THEN s.ssid ELSE Met.ssid
  BY DEF Merge
<1>9. Merge(Met, s).at = IF Tags(Met, s) THEN "observer" ELSE Met.at
  BY DEF Merge
<1>10. /\ Merge(Met, s).broadcast = Met.broadcast /\ Merge(Met, s).tell = Met.tell
       /\ Merge(Met, s).pilot = Met.pilot
  BY DEF Merge
<1> QED BY <1>1, <1>2, <1>3, <1>4, <1>5, <1>6, <1>7, <1>8, <1>9, <1>10

(* The new row, a field at a time.                                         *)
LEMMA BornShaped ==
  ASSUME NEW seed \in Signal
  PROVE  /\ DOMAIN Born(seed) = Fields
         /\ Born(seed).there = TRUE /\ Born(seed).conf = None /\ Born(seed).ftype = ""
         /\ Born(seed).fp = NoFp /\ Born(seed).cls = "alpr" /\ Born(seed).hidden = FALSE
         /\ Born(seed).ssid = "" /\ Born(seed).rssi = 0 /\ Born(seed).ch = 0
         /\ Born(seed).chan_rssi = seed /\ Born(seed).tell = NoTell /\ Born(seed).at = Unknown
         /\ Born(seed).broadcast = FALSE /\ Born(seed).pilot = Unknown /\ Born(seed).kind = Unknown
BY BornFields DEF Born

(* The row a report meets has the shape of a row, but for its rung.        *)
LEMMA MetFacts ==
  ASSUME RowInv
  PROVE  /\ DOMAIN Met = Fields /\ Met.there = TRUE
         /\ Met.conf \in Rungs /\ Met.cls \in Classes
         /\ Met.hidden \in BOOLEAN /\ Met.broadcast \in BOOLEAN
         /\ Met.rssi \in Signal /\ Met.ch \in Channel /\ Met.chan_rssi \in Signal
         /\ Met.tell \in NoTell..OuiOnly
         /\ Met.at \in {Unknown, "observer", "aircraft"} /\ (Met.broadcast => Met.at = "aircraft")
<1>1. CASE row.there
  BY <1>1 DEF RowInv, Shaped, Met
<1>2. CASE ~row.there
  <2> DEFINE b == Born(INT8_MIN)
  <2>1. Met = b
    BY <1>2 DEF Met
  <2>2. INT8_MIN \in Signal
    BY Numbers DEF Signal
  <2>3. /\ DOMAIN b = Fields /\ b.there = TRUE /\ b.conf = None /\ b.cls = "alpr"
        /\ b.hidden = FALSE /\ b.broadcast = FALSE /\ b.rssi = 0 /\ b.ch = 0
        /\ b.chan_rssi = INT8_MIN /\ b.tell = NoTell /\ b.at = Unknown
    BY <2>2, BornShaped
  <2> HIDE DEF b
  <2>4. b.tell \in NoTell..OuiOnly
    BY <2>3 DEF NoTell, OuiOnly
  <2>5. b.conf \in Rungs /\ b.rssi \in Signal
    BY <2>3, Numbers
  <2>6. b.cls \in Classes
    BY <2>3 DEF Classes
  <2> QED BY <2>1, <2>2, <2>3, <2>4, <2>5, <2>6, NoChannel
<1> QED BY <1>1, <1>2

(* And its words rest on evidence.                                         *)
LEMMA MetWorded ==
  ASSUME RowInv
  PROVE  /\ flock_ie_fp_match(Met.fp) # "none" => Met.conf >= ProbeFp
         /\ flock_ssid_confidence(Met.ssid) # None => Met.conf >= Likely \/ Excused(Met.ssid)
         /\ Met.pilot # Unknown => "remote id" \in proof
<1>1. CASE row.there
  BY <1>1 DEF RowInv, Worded, Met
<1>2. CASE ~row.there
  <2>1. INT8_MIN \in Signal
    BY Numbers DEF Signal
  <2>2. Met.fp = NoFp /\ Met.ssid = "" /\ Met.pilot = Unknown
    BY <1>2, <2>1, BornShaped DEF Met
  <2> QED BY <2>2, NoName
<1> QED BY <1>1, <1>2

(* The rung after a merge is the higher one.                               *)
LEMMA Higher ==
  ASSUME NEW a \in Rungs, NEW b \in Rungs \ {None}
  PROVE  /\ At_least(a, b) \in Rungs \ {None} /\ At_least(a, b) \in {a, b}
         /\ At_least(a, b) >= a /\ At_least(a, b) >= b
         /\ (a = Confirmed \/ b = Confirmed) <=> At_least(a, b) = Confirmed
BY Numbers DEF At_least

(* The tell after a report is strong if either was, and not otherwise.     *)
LEMMA Stronger ==
  ASSUME NEW old \in NoTell..OuiOnly, NEW tell \in NoTell..OuiOnly
  PROVE  /\ recon_app_set_ble_tell(old, tell) \in NoTell..OuiOnly
         /\ recon_app_set_ble_tell(old, tell) \in {old, tell}
         /\ (old \in Strong \/ tell \in Strong) <=> recon_app_set_ble_tell(old, tell) \in Strong
BY DEF recon_app_set_ble_tell, Strong, NoTell, MfgId, RavenGatt, Naming, OuiOnly

(* A report of any source keeps the invariant, and the device's own name.  *)
LEMMA StepReport ==
  ASSUME RowInv, NEW s, NEW tell \in NoTell..OuiOnly, NEW ofItself \in BOOLEAN, NEW vouched,
         IsReport(s), Worth(s), report_flock(s, tell, ofItself, vouched),
         s.conf = Confirmed => vouched # {},
         tell \in Strong <=> "advertised" \in vouched,
         tell \in Strong => s.conf = Confirmed,
         s.ftype = "L" => ofItself
  PROVE  /\ RowInv' /\ row'.there
         /\ named = "own" => named' = "own"
<1> DEFINE new == Merge(Met, s)
<1>1. /\ row' = [new EXCEPT !.tell = recon_app_set_ble_tell(@, tell)]
      /\ proof' = proof \cup vouched
      /\ named' = IF Renames(Met, s) THEN (IF ofItself THEN "own" ELSE "sought") ELSE named
      /\ nearest' = IF s.ch = 0 \/ s.rssi < nearest.best THEN nearest
                    ELSE [best |-> s.rssi, on |-> {s.ch}]
      /\ kept' = (kept \/ ~row.there)
      /\ UNCHANGED <<dev, gps_valid, launches>>
  BY DEF report_flock, Met
<1>2. DOMAIN Met = Fields
  BY MetFacts
<1>3. /\ DOMAIN new = Fields
      /\ new.there = Met.there
      /\ new.rssi = Or_else(s.rssi, Met.rssi, 0)
      /\ new.ch = IF Nearer(Met, s) THEN s.ch ELSE Met.ch
      /\ new.chan_rssi = IF Nearer(Met, s) /\ s.rssi # 0 THEN s.rssi ELSE Met.chan_rssi
      /\ new.ftype = s.ftype
      /\ new.conf = At_least(Met.conf, s.conf)
      /\ new.cls = Or_else(s.cls, Met.cls, "alpr")
      /\ new.hidden = (Met.hidden \/ s.hidden)
      /\ new.ssid = IF Renames(Met, s) THEN s.ssid ELSE Met.ssid
      /\ new.at = IF Tags(Met, s) THEN "observer" ELSE Met.at
      /\ new.broadcast = Met.broadcast /\ new.tell = Met.tell
      /\ new.fp = Or_else(s.fp, Met.fp, NoFp) /\ new.pilot = Met.pilot
  BY <1>2, MergeFields
<1> HIDE DEF new
<1>4. /\ DOMAIN row' = Fields
      /\ row'.there = new.there /\ row'.rssi = new.rssi /\ row'.ch = new.ch
      /\ row'.chan_rssi = new.chan_rssi /\ row'.ftype = new.ftype /\ row'.conf = new.conf
      /\ row'.cls = new.cls /\ row'.hidden = new.hidden /\ row'.ssid = new.ssid
      /\ row'.at = new.at /\ row'.broadcast = new.broadcast
      /\ row'.tell = recon_app_set_ble_tell(new.tell, tell)
      /\ row'.fp = new.fp /\ row'.pilot = new.pilot
  BY <1>1, <1>3, BornFields
<1>5. row'.there = TRUE
  BY <1>3, <1>4, MetFacts
<1>6. Shaped(row)'
  <2>1. row'.conf \in Rungs \ {None}
    BY <1>3, <1>4, MetFacts, Higher DEF IsReport
  <2>2. row'.ftype \in FLOCK_FTYPE_SET
    BY <1>3, <1>4 DEF IsReport
  <2>3. row'.cls \in Classes
    BY <1>3, <1>4, MetFacts DEF IsReport, Or_else
  <2>4. row'.hidden \in BOOLEAN /\ row'.broadcast \in BOOLEAN
    BY <1>3, <1>4, MetFacts DEF IsReport
  <2>5. row'.rssi \in Signal
    BY <1>3, <1>4, MetFacts DEF IsReport, Or_else
  <2>6. row'.ch \in Channel
    BY <1>3, <1>4, MetFacts DEF IsReport
  <2>7. row'.chan_rssi \in Signal
    BY <1>3, <1>4, MetFacts DEF IsReport
  <2>8. row'.tell \in NoTell..OuiOnly
    BY <1>3, <1>4, MetFacts, Stronger
  <2>9. row'.at \in {Unknown, "observer", "aircraft"}
    BY <1>3, <1>4, MetFacts
  <2>10. row'.broadcast => row'.at = "aircraft"
    BY <1>3, <1>4, MetFacts DEF Tags
  <2> QED BY <1>4, <1>5, <2>1, <2>2, <2>3, <2>4, <2>5, <2>6, <2>7, <2>8, <2>9, <2>10 DEF Shaped
<1>7. ConfirmedIsEarned'
  <2> SUFFICES ASSUME row'.conf = Confirmed PROVE proof' # {}
    BY DEF ConfirmedIsEarned
  <2>1. Met.conf = Confirmed \/ s.conf = Confirmed
    BY <1>3, <1>4, MetFacts, Higher DEF IsReport
  <2>2. CASE s.conf = Confirmed
    BY <1>1, <2>2
  <2>3. CASE Met.conf = Confirmed
    <3>1. row.there
      <4> SUFFICES ASSUME ~row.there PROVE FALSE
        OBVIOUS
      <4>1. INT8_MIN \in Signal
        BY Numbers DEF Signal
      <4>2. Met.conf = None
        BY <4>1, BornShaped DEF Met
      <4> QED BY <2>3, <4>2, TopRungs
    <3>2. proof # {}
      BY <2>3, <3>1 DEF RowInv, ConfirmedIsEarned, Met
    <3> QED BY <1>1, <3>2
  <2> QED BY <2>1, <2>2, <2>3
<1>8. Met.tell \in Strong => row.there /\ Met.conf = Confirmed /\ "advertised" \in proof
  <2>1. CASE row.there
    BY <2>1 DEF RowInv, Explained, Met, Strong
  <2>2. CASE ~row.there
    <3>1. INT8_MIN \in Signal
      BY Numbers DEF Signal
    <3>2. Met.tell = NoTell
      BY <2>2, <3>1, BornShaped DEF Met
    <3> QED BY <3>2 DEF Strong, NoTell, MfgId, RavenGatt, Naming
  <2> QED BY <2>1, <2>2
<1>9. Explained'
  <2>1. row'.tell \in Strong <=> Met.tell \in Strong \/ tell \in Strong
    BY <1>3, <1>4, MetFacts, Stronger
  <2>2. row'.tell \in Strong => row'.conf = Confirmed /\ "advertised" \in proof'
    BY <1>1, <1>3, <1>4, <1>8, <2>1, MetFacts, Higher DEF IsReport
  <2>3. kept' /\ "advertised" \in proof' => row'.tell \in Strong
    <3>1. CASE "advertised" \in vouched
      BY <2>1, <3>1
    <3>2. CASE "advertised" \in proof /\ row.there
      BY <1>1, <2>1, <3>2 DEF RowInv, Explained, Met, Strong
    <3>3. CASE "advertised" \in proof /\ ~row.there
      BY <3>3 DEF RowInv, Blank
    <3> QED BY <1>1, <3>1, <3>2, <3>3
  <2> QED BY <2>2, <2>3 DEF Explained, Strong
<1>10. named = "own" => named' = "own" /\ row'.ssid # ""
  <2> SUFFICES ASSUME named = "own" PROVE named' = "own" /\ row'.ssid # ""
    OBVIOUS
  <2>1. row.there /\ Met.ssid # ""
    BY DEF RowInv, Blank, Met
  <2>2. CASE Renames(Met, s)
    <3>1. s.ftype = "L" /\ s.ssid # ""
      BY <2>1, <2>2 DEF Renames
    <3> QED BY <1>1, <1>3, <1>4, <2>2, <3>1
  <2>3. CASE ~Renames(Met, s)
    BY <1>1, <1>3, <1>4, <2>1, <2>3
  <2> QED BY <2>2, <2>3
<1>11. named' = "own" => row'.ssid # ""
  <2>1. CASE Renames(Met, s)
    BY <1>3, <1>4, <2>1 DEF Renames
  <2>2. CASE ~Renames(Met, s)
    BY <1>1, <1>10, <2>2
  <2> QED BY <2>1, <2>2
<1>12. kept' => Tuned'
  <2> SUFFICES ASSUME kept' PROVE Tuned'
    OBVIOUS
  <2>1. Met.chan_rssi = nearest.best /\ (nearest.on # {} => nearest.on = {Met.ch})
    <3>1. CASE row.there
      BY <1>1, <3>1 DEF RowInv, Tuned, Met
    <3>2. CASE ~row.there
      <4>1. INT8_MIN \in Signal
        BY Numbers DEF Signal
      <4>2. Met.chan_rssi = INT8_MIN /\ nearest = Nowhere
        BY <3>2, <4>1, BornShaped DEF Met, RowInv, Blank
      <4> QED BY <4>2 DEF Nowhere
    <3> QED BY <3>1, <3>2
  <2>2. CASE s.ch = 0
    <3>1. nearest' = nearest /\ row'.ch = Met.ch /\ row'.chan_rssi = Met.chan_rssi
      BY <1>1, <1>3, <1>4, <2>2 DEF Nearer
    <3> QED BY <2>1, <3>1 DEF Tuned
  <2>3. CASE s.ch # 0
    <3>1. s.rssi \in Int /\ s.rssi < 0 /\ Met.chan_rssi \in Int
      BY <2>3, MetFacts, Sizes DEF IsReport, Received, Signal
    <3>2. CASE s.rssi < nearest.best
      <4>1. ~Nearer(Met, s)
        BY <2>1, <3>1, <3>2 DEF Nearer
      <4>2. nearest' = nearest /\ row'.ch = Met.ch /\ row'.chan_rssi = Met.chan_rssi
        BY <1>1, <1>3, <1>4, <3>2, <4>1
      <4> QED BY <2>1, <4>2 DEF Tuned
    <3>3. CASE ~(s.rssi < nearest.best)
      <4>1. Nearer(Met, s)
        BY <2>1, <2>3, <3>1, <3>3 DEF Nearer
      <4>2. nearest' = [best |-> s.rssi, on |-> {s.ch}]
        BY <1>1, <2>3, <3>3
      <4>3. row'.ch = s.ch /\ row'.chan_rssi = s.rssi
        BY <1>3, <1>4, <3>1, <4>1
      <4> QED BY <4>2, <4>3 DEF Tuned
    <3> QED BY <3>2, <3>3
  <2> QED BY <2>2, <2>3
<1>13. dev' \in Macs /\ launches' \in 0..MaxLaunches /\ kept' \in BOOLEAN
  BY <1>1 DEF RowInv
<1>14. Worded'
  <2>1. row'.conf = At_least(Met.conf, s.conf) /\ Met.conf \in Rungs /\ s.conf \in Rungs \ {None}
    BY <1>3, <1>4, MetFacts DEF IsReport
  <2>2. /\ row'.conf >= Met.conf /\ row'.conf >= s.conf
        /\ row'.conf \in Rungs /\ Met.conf \in Rungs /\ s.conf \in Rungs
        /\ ProbeFp \in Rungs /\ Likely \in Rungs
    BY <2>1, Higher, TopRungs
  <2>3. flock_ie_fp_match(row'.fp) # "none" => row'.conf >= ProbeFp
    <3>1. row'.fp \in {s.fp, Met.fp}
      BY <1>3, <1>4 DEF Or_else
    <3>2. flock_ie_fp_match(s.fp) # "none" => row'.conf >= ProbeFp
      BY <2>2, NoLess DEF Worth
    <3>3. flock_ie_fp_match(Met.fp) # "none" => row'.conf >= ProbeFp
      BY <2>2, NoLess, MetWorded
    <3> QED BY <3>1, <3>2, <3>3
  <2>4. flock_ssid_confidence(row'.ssid) # None => row'.conf >= Likely \/ Excused(row'.ssid)
    <3>1. row'.ssid \in {s.ssid, Met.ssid}
      BY <1>3, <1>4
    <3>2. flock_ssid_confidence(s.ssid) # None => row'.conf >= Likely \/ Excused(s.ssid)
      BY <2>2, NoLess DEF Worth
    <3>3. flock_ssid_confidence(Met.ssid) # None => row'.conf >= Likely \/ Excused(Met.ssid)
      BY <2>2, NoLess, MetWorded
    <3> QED BY <3>1, <3>2, <3>3
  <2>5. row'.pilot # Unknown => "remote id" \in proof'
    BY <1>1, <1>3, <1>4, MetWorded
  <2> QED BY <1>1, <2>3, <2>4, <2>5 DEF Worded, Excused
<1> QED BY <1>5, <1>6, <1>7, <1>9, <1>10, <1>11, <1>12, <1>13, <1>14 DEF RowInv

(* Each source in turn.                                                    *)
LEMMA NoTellIsWeak == NoTell \in NoTell..OuiOnly /\ NoTell \notin Strong
BY DEF NoTell, MfgId, RavenGatt, Naming, OuiOnly, Strong

(* A companion's detection keeps the invariant.                            *)
LEMMA StepDetected ==
  ASSUME RowInv, Detected
  PROVE  RowInv' /\ row'.there /\ (named = "own" => named' = "own")
<1>0. PICK d \in Detections : \E s \in parse_flock(d.line) :
        report_flock(s, NoTell, d.own, VouchedBy(d))
  BY DEF Detected
<1>1. PICK s \in parse_flock(d.line) : report_flock(s, NoTell, d.own, VouchedBy(d))
  BY <1>0
<1>2. s.conf # None /\ s.mac = dev
  BY <1>1 DEF report_flock
<1>3. /\ IsReport(s) /\ Worth(s) /\ s.ftype # "L"
      /\ s.conf = Confirmed => VouchedBy(d) # {}
  BY <1>2, DetectionIsReport
<1>4. "advertised" \notin VouchedBy(d)
  BY DEF VouchedBy
<1>5. d.own \in BOOLEAN
  BY DetectionsAre
<1> QED BY <1>1, <1>3, <1>4, <1>5, NoTellIsWeak, StepReport

(* An advertisement keeps it.                                              *)
LEMMA StepAdvertised ==
  ASSUME RowInv, Advertised
  PROVE  RowInv' /\ row'.there /\ (named = "own" => named' = "own")
<1>0. PICK d \in Adverts : \E b \in parse_ble(d.line) : \E s \in DetectionOf(b) :
        report_flock(s, TellOf(b), TRUE,
          (IF Vouched(b.company, b.name, b.raven) THEN {"advertised"} ELSE {}))
  BY DEF Advertised
<1>a. PICK b \in parse_ble(d.line) : \E s \in DetectionOf(b) :
        report_flock(s, TellOf(b), TRUE,
          (IF Vouched(b.company, b.name, b.raven) THEN {"advertised"} ELSE {}))
  BY <1>0
<1>1. PICK s \in DetectionOf(b) :
        report_flock(s, TellOf(b), TRUE,
          (IF Vouched(b.company, b.name, b.raven) THEN {"advertised"} ELSE {}))
  BY <1>a
<1> DEFINE vouched == IF Vouched(b.company, b.name, b.raven) THEN {"advertised"} ELSE {}
<1>b. s.mac = dev
  BY <1>1 DEF report_flock
<1>2. /\ IsReport(s) /\ Worth(s)
      /\ s.conf = Confirmed <=> Vouched(b.company, b.name, b.raven)
      /\ TellOf(b) \in NoTell..OuiOnly
      /\ TellOf(b) \in Strong <=> Vouched(b.company, b.name, b.raven)
  BY <1>b, AdvertIsReport
<1>3. /\ s.conf = Confirmed => vouched # {}
      /\ TellOf(b) \in Strong <=> "advertised" \in vouched
      /\ TellOf(b) \in Strong => s.conf = Confirmed
  BY <1>2
<1>4. report_flock(s, TellOf(b), TRUE, vouched)
  BY <1>1
<1>5. TRUE \in BOOLEAN
  OBVIOUS
<1> HIDE DEF vouched
<1> QED BY <1>2, <1>3, <1>4, <1>5, StepReport

(* A scraped line keeps it.                                                *)
LEMMA StepScraped ==
  ASSUME RowInv, Scraped
  PROVE  RowInv' /\ row'.there /\ (named = "own" => named' = "own")
<1>0. PICK l \in Scraps : \E s \in marauder_scan_line(l) :
        report_flock(s, NoTell, FALSE, IF s.conf = Confirmed THEN {"trusted"} ELSE {})
  BY DEF Scraped
<1>1. PICK s \in marauder_scan_line(l) :
        report_flock(s, NoTell, FALSE, IF s.conf = Confirmed THEN {"trusted"} ELSE {})
  BY <1>0
<1> DEFINE vouched == IF s.conf = Confirmed THEN {"trusted"} ELSE {}
<1>2. IsReport(s) /\ Worth(s) /\ s.ftype # "L"
  BY ScrapIsReport
<1>3. /\ s.conf = Confirmed => vouched # {}
      /\ "advertised" \notin vouched
  OBVIOUS
<1>4. report_flock(s, NoTell, FALSE, vouched)
  BY <1>1
<1>5. FALSE \in BOOLEAN
  OBVIOUS
<1> HIDE DEF vouched
<1> QED BY <1>2, <1>3, <1>4, <1>5, NoTellIsWeak, StepReport

(* A survey hit keeps it.                                                  *)
LEMMA StepSurveyHit ==
  ASSUME RowInv, SurveyHit
  PROVE  RowInv' /\ row'.there /\ (named = "own" => named' = "own")
<1>1. PICK v \in Surveyed :
        report_flock([mac |-> v.mac, ssid |-> "", rssi |-> v.rssi, ch |-> v.ch, ftype |-> "F",
                      conf |-> SurveyRung(v), fp |-> v.fp, cls |-> "alpr", hidden |-> FALSE,
                      rate |-> 0], NoTell, FALSE, {})
  BY DEF SurveyHit
<1>2. PICK s : s = [mac |-> v.mac, ssid |-> "", rssi |-> v.rssi, ch |-> v.ch, ftype |-> "F",
                    conf |-> SurveyRung(v), fp |-> v.fp, cls |-> "alpr", hidden |-> FALSE,
                    rate |-> 0]
  OBVIOUS
<1>3. report_flock(s, NoTell, FALSE, {})
  BY <1>1, <1>2
<1>4. s.conf # None
  BY <1>3 DEF report_flock
<1>5. IsReport(s) /\ Worth(s) /\ s.ftype # "L" /\ s.conf # Confirmed
  BY <1>2, <1>4, SurveyIsReport
<1>6. FALSE \in BOOLEAN
  OBVIOUS
<1> QED BY <1>3, <1>5, <1>6, NoTellIsWeak, StepReport

-----------------------------------------------------------------------------
(* The aircraft's own broadcast.                                           *)

(* The row a broadcast meets, or the one it makes.                         *)
Flown == IF row.there THEN row ELSE Born(0)

(* A broadcast's merge, a field at a time.                                 *)
LEMMA BroadcastFields ==
  ASSUME NEW b, DOMAIN Flown = Fields
  PROVE  /\ DOMAIN MergeBroadcast(Flown, b, Decoded(b)) = Fields
         /\ MergeBroadcast(Flown, b, Decoded(b)).there = Flown.there
         /\ MergeBroadcast(Flown, b, Decoded(b)).rssi =
              IF b.rssi # 0 /\ (Flown.rssi = 0 \/ b.rssi > Flown.rssi) THEN b.rssi ELSE Flown.rssi
         /\ MergeBroadcast(Flown, b, Decoded(b)).ch = Flown.ch
         /\ MergeBroadcast(Flown, b, Decoded(b)).chan_rssi = Flown.chan_rssi
         /\ MergeBroadcast(Flown, b, Decoded(b)).ftype = "L" /\ MergeBroadcast(Flown, b, Decoded(b)).cls = "drone"
         /\ MergeBroadcast(Flown, b, Decoded(b)).conf = At_least(Flown.conf, Confirmed)
         /\ MergeBroadcast(Flown, b, Decoded(b)).fp = Flown.fp
         /\ MergeBroadcast(Flown, b, Decoded(b)).hidden = Flown.hidden
         /\ MergeBroadcast(Flown, b, Decoded(b)).ssid = Or_else(Decoded(b).id, Flown.ssid, "")
         /\ MergeBroadcast(Flown, b, Decoded(b)).at = IF Decoded(b).at # Unknown THEN "aircraft" ELSE Flown.at
         /\ MergeBroadcast(Flown, b, Decoded(b)).broadcast = (Flown.broadcast \/ Decoded(b).at # Unknown)
         /\ MergeBroadcast(Flown, b, Decoded(b)).tell = Flown.tell
<1> USE BornFields
<1>1. /\ DOMAIN MergeBroadcast(Flown, b, Decoded(b)) = Fields
      /\ MergeBroadcast(Flown, b, Decoded(b)).there = Flown.there
  BY DEF MergeBroadcast
<1>2. MergeBroadcast(Flown, b, Decoded(b)).rssi =
        IF b.rssi # 0 /\ (Flown.rssi = 0 \/ b.rssi > Flown.rssi) THEN b.rssi ELSE Flown.rssi
  BY DEF MergeBroadcast
<1>3. /\ MergeBroadcast(Flown, b, Decoded(b)).ch = Flown.ch
      /\ MergeBroadcast(Flown, b, Decoded(b)).chan_rssi = Flown.chan_rssi
  BY DEF MergeBroadcast
<1>4. /\ MergeBroadcast(Flown, b, Decoded(b)).ftype = "L" /\ MergeBroadcast(Flown, b, Decoded(b)).cls = "drone"
      /\ MergeBroadcast(Flown, b, Decoded(b)).conf = At_least(Flown.conf, Confirmed)
  BY DEF MergeBroadcast
<1>5. /\ MergeBroadcast(Flown, b, Decoded(b)).fp = Flown.fp
      /\ MergeBroadcast(Flown, b, Decoded(b)).hidden = Flown.hidden
      /\ MergeBroadcast(Flown, b, Decoded(b)).tell = Flown.tell
  BY DEF MergeBroadcast
<1>6. MergeBroadcast(Flown, b, Decoded(b)).ssid = Or_else(Decoded(b).id, Flown.ssid, "")
  BY DEF MergeBroadcast
<1>7. MergeBroadcast(Flown, b, Decoded(b)).at = IF Decoded(b).at # Unknown THEN "aircraft" ELSE Flown.at
  BY DEF MergeBroadcast
<1>8. MergeBroadcast(Flown, b, Decoded(b)).broadcast = (Flown.broadcast \/ Decoded(b).at # Unknown)
  BY DEF MergeBroadcast
<1> QED BY <1>1, <1>2, <1>3, <1>4, <1>5, <1>6, <1>7, <1>8

(* The row a broadcast meets.                                              *)
LEMMA FlownFacts ==
  ASSUME RowInv
  PROVE  /\ DOMAIN Flown = Fields /\ Flown.there = TRUE
         /\ Flown.conf \in Rungs
         /\ Flown.hidden \in BOOLEAN /\ Flown.broadcast \in BOOLEAN
         /\ Flown.rssi \in Signal /\ Flown.ch \in Channel /\ Flown.chan_rssi \in Signal
         /\ Flown.tell \in NoTell..OuiOnly
         /\ Flown.at \in {Unknown, "observer", "aircraft"}
         /\ Flown.broadcast => Flown.at = "aircraft"
         /\ ~row.there => Flown.tell = NoTell
<1>1. CASE row.there
  BY <1>1 DEF RowInv, Shaped, Flown
<1>2. CASE ~row.there
  <2> DEFINE b == Born(0)
  <2>1. Flown = b
    BY <1>2 DEF Flown
  <2>2. 0 \in Signal
    BY Numbers
  <2>3. /\ DOMAIN b = Fields /\ b.there = TRUE /\ b.conf = None
        /\ b.hidden = FALSE /\ b.broadcast = FALSE /\ b.rssi = 0 /\ b.ch = 0
        /\ b.chan_rssi = 0 /\ b.tell = NoTell /\ b.at = Unknown
    BY <2>2, BornShaped
  <2> HIDE DEF b
  <2>4. b.conf \in Rungs
    BY <2>3, Numbers
  <2> QED BY <2>1, <2>2, <2>3, <2>4, NoTellIsWeak, NoChannel
<1> QED BY <1>1, <1>2

(* A broadcast keeps the invariant, taken in or not.                       *)
LEMMA StepRemoteId ==
  ASSUME RowInv, report_remote_id
  PROVE  RowInv' /\ (named = "own" => named' = "own")
<1>1. PICK b \in Broadcasts :
        LET rep == Decoded(b)
            old == IF row.there THEN row ELSE Born(0)
        IN  /\ IF rep.used
               THEN /\ row' = MergeBroadcast(old, b, rep)
                    /\ proof' = proof \cup {"remote id"}
                    /\ named' = IF rep.id # "" THEN "own" ELSE named
               ELSE UNCHANGED <<row, proof, named>>
            /\ UNCHANGED <<dev, gps_valid, launches, nearest, kept>>
  BY DEF report_remote_id
<1> DEFINE rep == Decoded(b)
<1> HIDE DEF rep
<1>2. UNCHANGED <<dev, gps_valid, launches, nearest, kept>>
  BY <1>1
<1>3. CASE ~rep.used
  <2>1. UNCHANGED <<row, proof, named>>
    BY <1>1, <1>3 DEF rep
  <2>2. row.there => Worded'
    BY <1>2, <2>1 DEF RowInv, Worded, Excused
  <2>3. RowInv'
    BY <1>2, <2>1, <2>2
      DEF RowInv, Blank, Tuned, Shaped, ConfirmedIsEarned, Explained
  <2> QED BY <2>1, <2>3
<1>4. CASE rep.used
  <2>1. /\ row' = MergeBroadcast(Flown, b, rep)
        /\ proof' = proof \cup {"remote id"}
        /\ named' = IF rep.id # "" THEN "own" ELSE named
    BY <1>1, <1>4 DEF rep, Flown
  <2> DEFINE new == MergeBroadcast(Flown, b, rep)
  <2>0. DOMAIN Flown = Fields
    BY FlownFacts
  <2>a. /\ DOMAIN new = Fields
        /\ new.there = Flown.there
        /\ new.rssi = IF b.rssi # 0 /\ (Flown.rssi = 0 \/ b.rssi > Flown.rssi)
                       THEN b.rssi ELSE Flown.rssi
        /\ new.ch = Flown.ch /\ new.chan_rssi = Flown.chan_rssi
        /\ new.ftype = "L" /\ new.cls = "drone" /\ new.conf = At_least(Flown.conf, Confirmed)
        /\ new.hidden = Flown.hidden
        /\ new.ssid = Or_else(rep.id, Flown.ssid, "")
        /\ new.at = IF rep.at # Unknown THEN "aircraft" ELSE Flown.at
        /\ new.broadcast = (Flown.broadcast \/ rep.at # Unknown)
        /\ new.tell = Flown.tell
    BY <2>0, BroadcastFields DEF rep
  <2> HIDE DEF new
  <2>2. /\ DOMAIN row' = Fields
        /\ row'.there = Flown.there
        /\ row'.rssi = IF b.rssi # 0 /\ (Flown.rssi = 0 \/ b.rssi > Flown.rssi)
                       THEN b.rssi ELSE Flown.rssi
        /\ row'.ch = Flown.ch /\ row'.chan_rssi = Flown.chan_rssi
        /\ row'.ftype = "L" /\ row'.cls = "drone" /\ row'.conf = At_least(Flown.conf, Confirmed)
        /\ row'.hidden = Flown.hidden
        /\ row'.ssid = Or_else(rep.id, Flown.ssid, "")
        /\ row'.at = IF rep.at # Unknown THEN "aircraft" ELSE Flown.at
        /\ row'.broadcast = (Flown.broadcast \/ rep.at # Unknown)
        /\ row'.tell = Flown.tell
    BY <2>1, <2>a DEF new
  <2>3. row'.conf \in Rungs \ {None} /\ row'.conf = Confirmed
    BY <2>2, FlownFacts, TopRungs, Higher
  <2>4. Shaped(row)'
    <3>1. row'.rssi \in Signal
      BY <2>2, FlownFacts, SignalsAre, Numbers
    <3>2. row'.ftype \in FLOCK_FTYPE_SET /\ row'.cls \in Classes
      BY <2>2 DEF FLOCK_FTYPE_SET, Classes
    <3>3. row'.hidden \in BOOLEAN /\ row'.broadcast \in BOOLEAN
      BY <2>2, FlownFacts
    <3>4. row'.at \in {Unknown, "observer", "aircraft"} /\ (row'.broadcast => row'.at = "aircraft")
      BY <2>2, FlownFacts
    <3> QED BY <2>2, <2>3, <3>1, <3>2, <3>3, <3>4, FlownFacts DEF Shaped
  <2>5. ConfirmedIsEarned'
    BY <2>1 DEF ConfirmedIsEarned
  <2>6. row'.tell \in Strong => row.there /\ row.tell \in Strong
    BY <2>2, FlownFacts, NoTellIsWeak DEF Flown
  <2>7. Explained'
    <3>1. row'.tell \in Strong => "advertised" \in proof'
      BY <2>1, <2>6 DEF RowInv, Explained, Strong
    <3>2. kept' /\ "advertised" \in proof' => row'.tell \in Strong
      <4> SUFFICES ASSUME kept', "advertised" \in proof' PROVE row'.tell \in Strong
        OBVIOUS
      <4>1. kept /\ "advertised" \in proof
        BY <1>2, <2>1
      <4>2. row.there
        BY <4>1 DEF RowInv, Blank
      <4> QED BY <2>2, <4>1, <4>2 DEF RowInv, Explained, Flown, Strong
    <3> QED BY <2>3, <3>1, <3>2 DEF Explained, Strong
  <2>8. named' = "own" => row'.ssid # ""
    <3>1. CASE rep.id # ""
      BY <2>2, <3>1 DEF Or_else
    <3>2. CASE rep.id = ""
      <4> SUFFICES ASSUME named' = "own" PROVE row'.ssid # ""
        OBVIOUS
      <4>1. named = "own"
        BY <2>1, <3>2
      <4>2. row.there /\ row.ssid # ""
        BY <4>1 DEF RowInv, Blank
      <4> QED BY <2>2, <3>2, <4>2 DEF Or_else, Flown
    <3> QED BY <3>1, <3>2
  <2>9. kept' => Tuned'
    <3> SUFFICES ASSUME kept' PROVE Tuned'
      OBVIOUS
    <3>1. row.there
      BY <1>2 DEF RowInv, Blank
    <3> QED BY <1>2, <2>2, <3>1 DEF RowInv, Tuned, Flown
  <2>10. dev' \in Macs /\ launches' \in 0..MaxLaunches /\ kept' \in BOOLEAN
    BY <1>2 DEF RowInv
  <2>11. row'.there = TRUE
    BY <2>2, FlownFacts
  <2>12. Worded'
    <3>1. row'.conf >= ProbeFp /\ row'.conf >= Likely
      BY <2>3, Numbers
    <3>2. "remote id" \in proof'
      BY <2>1
    <3> QED BY <3>1, <3>2 DEF Worded
  <2>13. RowInv'
    BY <2>4, <2>5, <2>7, <2>8, <2>9, <2>10, <2>11, <2>12 DEF RowInv
  <2> QED BY <2>1, <2>13
<1> QED BY <1>3, <1>4

-----------------------------------------------------------------------------
(* A row of the file.                                                      *)

RecFields ==
  {"mac", "ssid", "rssi", "ch", "ftype", "conf", "fp", "at", "heading", "cls", "hidden", "pilot",
   "kind", "marked", "confirmed", "label", "count", "epoch"}

(* What a record may hold; its texts and places are any.                   *)
Storable(r) ==
  /\ DOMAIN r = RecFields /\ r = [f \in RecFields |-> r[f]]
  /\ r.rssi \in Signal /\ r.ch \in Channel /\ r.ftype \in FLOCK_FTYPE_SET /\ r.conf \in Rungs
  /\ r.cls \in Classes
  /\ r.hidden \in BOOLEAN /\ r.marked \in BOOLEAN /\ r.confirmed \in BOOLEAN

(* A text is one well-formed field, and reads as it was but for what would *)
(* have ended the line.                                                    *)
LEMMA TextComesBack ==
  ASSUME NEW text
  PROVE  WellFormed(Escaped(text)) /\ fs_next_field(Escaped(text)) = Flattened(text)
BY DEF WellFormed, Escaped, csv_field_escape, Flattened, fs_next_field

(* No label is read as none.                                               *)
LEMMA NoLabelComesBack ==
  WellFormed(<<"">>) /\ fs_next_field(<<"">>) = ""
BY DEF WellFormed, fs_next_field

(* A class is a number of the file's.                                      *)
ClassNo(c) == CHOOSE i \in DOMAIN Numbered : Numbered[i] = c

(* The class's number is one of five.                                      *)
LEMMA ClassNumber ==
  ASSUME NEW c \in Classes
  PROVE  ClassNo(c) \in 1..5 /\ Numbered[ClassNo(c)] = c
<1>1. DOMAIN Numbered = 1..5
  BY DEF Numbered
<1>2. \E i \in 1..5 : Numbered[i] = c
  BY DEF Numbered, Classes
<1> QED BY <1>1, <1>2 DEF ClassNo

(* The two marks are two bits.                                             *)
LEMMA TwoBits ==
  ASSUME NEW m \in BOOLEAN, NEW c \in BOOLEAN
  PROVE  /\ Bit(m) + 2 * Bit(c) \in 0..3
         /\ Bit(m) + 2 * Bit(c) \in {1, 3} <=> m
         /\ Bit(m) + 2 * Bit(c) \in {2, 3} <=> c
<1>1. CASE m /\ c
  <2>1. Bit(m) = 1 /\ Bit(c) = 1
    BY <1>1 DEF Bit
  <2>2. Bit(m) + 2 * Bit(c) = 3
    BY <2>1
  <2>3. 3 \in 0..3 /\ 3 \in {1, 3} /\ 3 \in {2, 3}
    OBVIOUS
  <2> QED BY <1>1, <2>2, <2>3, Zenon
<1>2. CASE m /\ ~c
  <2>1. Bit(m) = 1 /\ Bit(c) = 0
    BY <1>2 DEF Bit
  <2>2. Bit(m) + 2 * Bit(c) = 1
    BY <2>1
  <2>3. 1 \in 0..3 /\ 1 \in {1, 3} /\ 1 \notin {2, 3}
    OBVIOUS
  <2> QED BY <1>2, <2>2, <2>3, Zenon
<1>3. CASE ~m /\ c
  <2>1. Bit(m) = 0 /\ Bit(c) = 1
    BY <1>3 DEF Bit
  <2>2. Bit(m) + 2 * Bit(c) = 2
    BY <2>1
  <2>3. 2 \in 0..3 /\ 2 \notin {1, 3} /\ 2 \in {2, 3}
    OBVIOUS
  <2> QED BY <1>3, <2>2, <2>3, Zenon
<1>4. CASE ~m /\ ~c
  <2>1. Bit(m) = 0 /\ Bit(c) = 0
    BY <1>4 DEF Bit
  <2>2. Bit(m) + 2 * Bit(c) = 0
    BY <2>1
  <2>3. 0 \in 0..3 /\ 0 \notin {1, 3} /\ 0 \notin {2, 3}
    OBVIOUS
  <2> QED BY <1>4, <2>2, <2>3, Zenon
<1> QED BY <1>1, <1>2, <1>3, <1>4

(* The columns of a line, one by one.                                      *)
Laid(r, columns) ==
  /\ Len(columns) = 19
  /\ columns[1] = r.mac /\ columns[2] = Escaped(r.ssid) /\ columns[3] = r.rssi
  /\ columns[4] = r.ch /\ columns[5] = LetterOf(r.ftype) /\ columns[6] = r.conf
  /\ columns[7] = r.fp /\ columns[8] = r.at /\ columns[10] = r.heading
  /\ columns[11] = r.count /\ columns[12] = Bit(r.marked) + 2 * Bit(r.confirmed)
  /\ columns[13] = r.epoch /\ columns[14] = ClassNo(r.cls) - 1
  /\ columns[15] = Bit(r.hidden) /\ columns[16] = Escaped(r.label)
  /\ columns[17] = r.pilot /\ columns[19] = r.kind

(* The line written, a column at a time.                                   *)
LEMMA LineColumns ==
  ASSUME NEW r
  PROVE  Laid(r, flock_store_fmt_line(r))
<1> DEFINE columns == flock_store_fmt_line(r)
<1>1. Len(columns) = 19 /\ DOMAIN columns = 1..19
  BY DEF flock_store_fmt_line
<1>3. /\ columns[1] = r.mac /\ columns[2] = Escaped(r.ssid) /\ columns[3] = r.rssi
      /\ columns[4] = r.ch /\ columns[5] = LetterOf(r.ftype) /\ columns[6] = r.conf
      /\ columns[7] = r.fp /\ columns[8] = r.at /\ columns[10] = r.heading
      /\ columns[11] = r.count
  BY DEF flock_store_fmt_line
<1>4. /\ columns[12] = Bit(r.marked) + 2 * Bit(r.confirmed)
      /\ columns[13] = r.epoch
      /\ columns[14] = ClassNo(r.cls) - 1
      /\ columns[15] = Bit(r.hidden) /\ columns[16] = Escaped(r.label)
      /\ columns[17] = r.pilot /\ columns[19] = r.kind
  BY DEF flock_store_fmt_line, ClassNo
<1> HIDE DEF columns
<1>5. Laid(r, columns)
  BY <1>1, <1>3, <1>4 DEF Laid
<1> QED BY <1>5 DEF columns

(* The line of a record of any version's columns is read, and gives the    *)
(* record back.                                                            *)
LEMMA LineIsReadable ==
  ASSUME NEW r, Storable(r), NEW n \in Versions, NEW line, Len(line) = n,
         \A i \in 1..n : line[i] = flock_store_fmt_line(r)[i]
  PROVE  Readable(line)
<1> DEFINE columns == flock_store_fmt_line(r)
           number == ClassNo(r.cls)
<1>a. /\ columns[2] = Escaped(r.ssid) /\ columns[3] = r.rssi /\ columns[4] = r.ch
      /\ columns[5] = LetterOf(r.ftype) /\ columns[6] = r.conf
      /\ columns[12] = Bit(r.marked) + 2 * Bit(r.confirmed)
      /\ columns[14] = number - 1 /\ columns[16] = Escaped(r.label)
  <2>1. Laid(r, columns)
    BY LineColumns
  <2> HIDE DEF columns
  <2> QED BY <2>1 DEF Laid
<1>b. number \in 1..5
  BY ClassNumber DEF Storable
<1> HIDE DEF columns, number
<1>1. n \in {13, 15, 16, 19} /\ n \in Int /\ n >= 13
  BY DEF Versions, FLOCK_STORE_COLS, FLOCK_STORE_COLS_V1, FLOCK_STORE_COLS_V2, FLOCK_STORE_COLS_V3
<1>2. /\ line[2] = Escaped(r.ssid) /\ line[3] = r.rssi /\ line[4] = r.ch
      /\ line[5] = LetterOf(r.ftype) /\ line[6] = r.conf
      /\ line[12] = Bit(r.marked) + 2 * Bit(r.confirmed)
  <2>1. \A i \in 1..13 : line[i] = columns[i]
    BY <1>1 DEF columns
  <2> QED BY <1>a, <2>1
<1>3. WellFormed(line[2])
  BY <1>2, TextComesBack
<1>4. WellFormed(Column(line, 16, <<"">>))
  <2>1. CASE n >= 16
    <3>1. line[16] = columns[16]
      BY <1>1, <2>1 DEF columns
    <3>2. Column(line, 16, <<"">>) = Escaped(r.label)
      BY <1>a, <1>1, <2>1, <3>1 DEF Column
    <3> QED BY <3>2, TextComesBack
  <2>2. CASE ~(n >= 16)
    <3>1. Column(line, 16, <<"">>) = <<"">>
      BY <1>1, <2>2 DEF Column
    <3> QED BY <3>1, NoLabelComesBack
  <2> QED BY <2>1, <2>2
<1>5. line[3] \in -128..127 /\ line[4] \in 0..255
  BY <1>2, Sizes DEF Storable, Signal, Channel
<1>6. line[5] \in FLOCK_FTYPE_SET /\ line[6] \in Rungs
  BY <1>2 DEF Storable, LetterOf
<1>7. line[12] \in 0..3
  BY <1>2, TwoBits DEF Storable
<1>8. Column(line, 14, 0) <= FLOCK_STORE_MAX_DEV_CLASS
  <2>1. CASE n >= 14
    <3>1. line[14] = columns[14]
      BY <1>1, <2>1 DEF columns
    <3>2. Column(line, 14, 0) = number - 1
      BY <1>a, <1>1, <2>1, <3>1 DEF Column
    <3> QED BY <1>b, <3>2 DEF FLOCK_STORE_MAX_DEV_CLASS
  <2>2. CASE ~(n >= 14)
    <3>1. Column(line, 14, 0) = 0
      BY <1>1, <2>2 DEF Column
    <3> QED BY <3>1 DEF FLOCK_STORE_MAX_DEV_CLASS
  <2> QED BY <2>1, <2>2
<1> QED BY <1>3, <1>4, <1>5, <1>6, <1>7, <1>8 DEF Readable

(* What a version has of a record, field by field.                         *)
VersionHas(r, n, v) ==
  /\ DOMAIN v = RecFields /\ v = [f \in RecFields |-> v[f]]
  /\ v.mac = r.mac /\ v.ssid = Flattened(r.ssid) /\ v.rssi = r.rssi /\ v.ch = r.ch
  /\ v.ftype = r.ftype /\ v.conf = r.conf
  /\ v.fp = IF flock_ie_fp_is_generic(r.fp) THEN NoFp ELSE r.fp
  /\ v.at = r.at /\ v.heading = r.heading /\ v.count = r.count
  /\ v.marked = r.marked /\ v.confirmed = r.confirmed /\ v.epoch = r.epoch
  /\ v.cls = IF n < 14 THEN "alpr" ELSE r.cls
  /\ v.hidden = (r.hidden /\ n >= 15)
  /\ v.label = IF n < 16 THEN "" ELSE Flattened(r.label)
  /\ v.pilot = IF n < 19 THEN Unknown ELSE r.pilot
  /\ v.kind = IF n < 19 THEN Unknown ELSE r.kind

(* What a version keeps, a field at a time.                                *)
LEMMA AsVersionFields ==
  ASSUME NEW r, Storable(r), NEW n
  PROVE  VersionHas(r, n, AsVersion(Lasting(r), n))
<1> DEFINE q == Lasting(r)
<1>1. /\ DOMAIN q = RecFields
      /\ q.fp = IF flock_ie_fp_is_generic(r.fp) THEN NoFp ELSE r.fp
      /\ q.ssid = Flattened(r.ssid) /\ q.label = Flattened(r.label)
  BY DEF Storable, Lasting, RecFields
<1>2. /\ q.mac = r.mac /\ q.rssi = r.rssi /\ q.ch = r.ch /\ q.ftype = r.ftype /\ q.conf = r.conf
      /\ q.at = r.at /\ q.heading = r.heading /\ q.count = r.count
      /\ q.marked = r.marked /\ q.confirmed = r.confirmed /\ q.epoch = r.epoch
      /\ q.cls = r.cls /\ q.hidden = r.hidden /\ q.pilot = r.pilot /\ q.kind = r.kind
  BY DEF Storable, Lasting, RecFields
<1> DEFINE v == AsVersion(q, n)
<1> HIDE DEF q
<1>3. DOMAIN v = RecFields /\ v = [f \in RecFields |-> v[f]]
  BY <1>1 DEF AsVersion
<1>4. /\ v.mac = q.mac /\ v.ssid = q.ssid /\ v.rssi = q.rssi /\ v.ch = q.ch
      /\ v.ftype = q.ftype /\ v.conf = q.conf /\ v.fp = q.fp
      /\ v.at = q.at /\ v.heading = q.heading /\ v.count = q.count
      /\ v.marked = q.marked /\ v.confirmed = q.confirmed /\ v.epoch = q.epoch
  BY <1>1 DEF AsVersion, RecFields
<1>5. /\ v.cls = IF n < 14 THEN "alpr" ELSE q.cls
      /\ v.label = IF n < 16 THEN "" ELSE q.label
      /\ v.pilot = IF n < 19 THEN Unknown ELSE q.pilot
      /\ v.kind = IF n < 19 THEN Unknown ELSE q.kind
  BY <1>1 DEF AsVersion, RecFields
<1>6. v.hidden = (q.hidden /\ n >= 15)
  BY <1>1 DEF AsVersion, RecFields
<1> HIDE DEF v
<1>7. v = AsVersion(Lasting(r), n)
  BY DEF v, q
<1>8. v.hidden = (r.hidden /\ n >= 15)
  BY <1>2, <1>6
<1>9. /\ v.mac = r.mac /\ v.ssid = Flattened(r.ssid) /\ v.rssi = r.rssi /\ v.ch = r.ch
      /\ v.ftype = r.ftype /\ v.conf = r.conf
      /\ v.fp = IF flock_ie_fp_is_generic(r.fp) THEN NoFp ELSE r.fp
      /\ v.at = r.at /\ v.heading = r.heading /\ v.count = r.count
      /\ v.marked = r.marked /\ v.confirmed = r.confirmed /\ v.epoch = r.epoch
      /\ v.cls = IF n < 14 THEN "alpr" ELSE r.cls
      /\ v.label = IF n < 16 THEN "" ELSE Flattened(r.label)
      /\ v.pilot = IF n < 19 THEN Unknown ELSE r.pilot
      /\ v.kind = IF n < 19 THEN Unknown ELSE r.kind
  BY <1>1, <1>2, <1>4, <1>5
<1>10. VersionHas(r, n, v)
  BY <1>3, <1>8, <1>9 DEF VersionHas
<1> QED BY <1>7, <1>10

(* A column, or what its absence means.                                    *)
LEMMA ColumnIs ==
  ASSUME NEW line, NEW k, NEW absent
  PROVE  /\ k <= Len(line) => Column(line, k, absent) = line[k]
         /\ ~(k <= Len(line)) => Column(line, k, absent) = absent
BY DEF Column

(* What is read of it.                                                     *)
LEMMA LineComesBack ==
  ASSUME NEW r, Storable(r), NEW n \in Versions, NEW line, Len(line) = n,
         \A i \in 1..n : line[i] = flock_store_fmt_line(r)[i]
  PROVE  flock_store_parse_line(line) = {AsVersion(Lasting(r), n)}
<1> DEFINE columns == flock_store_fmt_line(r)
           number == ClassNo(r.cls)
           empty == <<"">>
           got == [mac |-> line[1], ssid |-> fs_next_field(line[2]), rssi |-> line[3],
                   ch |-> line[4], ftype |-> line[5], conf |-> line[6],
                   fp |-> IF flock_ie_fp_is_generic(line[7]) THEN NoFp ELSE line[7],
                   at |-> line[8], heading |-> line[10], count |-> line[11],
                   marked |-> line[12] \in {1, 3}, confirmed |-> line[12] \in {2, 3},
                   epoch |-> line[13],
                   cls |-> Numbered[Column(line, 14, 0) + 1], hidden |-> Column(line, 15, 0) = 1,
                   label |-> fs_next_field(Column(line, 16, empty)),
                   pilot |-> Column(line, 17, Unknown), kind |-> Column(line, 19, Unknown)]
           v == AsVersion(Lasting(r), n)
<1>e. fs_next_field(empty) = ""
  BY NoLabelComesBack
<1>1. flock_store_parse_line(line) = {got}
  BY LineIsReadable DEF flock_store_parse_line
<1> HIDE DEF empty
<1>a. DOMAIN got = RecFields
  BY DEF RecFields
<1>2. DOMAIN got = RecFields /\ got = [f \in RecFields |-> got[f]]
  <2>1. got = [f \in DOMAIN got |-> got[f]]
    OBVIOUS
  <2> HIDE DEF got
  <2> QED BY <1>a, <2>1
<1>3. /\ got.mac = line[1] /\ got.ssid = fs_next_field(line[2]) /\ got.rssi = line[3]
      /\ got.ch = line[4] /\ got.ftype = line[5] /\ got.conf = line[6]
      /\ got.at = line[8] /\ got.heading = line[10] /\ got.count = line[11]
      /\ got.epoch = line[13]
      /\ got.label = fs_next_field(Column(line, 16, empty))
      /\ got.pilot = Column(line, 17, Unknown) /\ got.kind = Column(line, 19, Unknown)
  OBVIOUS
<1>f. got.fp = IF flock_ie_fp_is_generic(line[7]) THEN NoFp ELSE line[7]
  OBVIOUS
<1>g. got.cls = Numbered[Column(line, 14, 0) + 1]
  OBVIOUS
<1>4. got.hidden = (Column(line, 15, 0) = 1)
  OBVIOUS
<1>5. /\ got.marked \in BOOLEAN /\ got.confirmed \in BOOLEAN
      /\ got.marked <=> line[12] \in {1, 3}
      /\ got.confirmed <=> line[12] \in {2, 3}
  <2>1. got.marked = (line[12] \in {1, 3}) /\ got.confirmed = (line[12] \in {2, 3})
    OBVIOUS
  <2> HIDE DEF got
  <2>2. (line[12] \in {1, 3}) \in BOOLEAN /\ (line[12] \in {2, 3}) \in BOOLEAN
    OBVIOUS
  <2>3. got.marked \in BOOLEAN /\ got.confirmed \in BOOLEAN
    BY <2>1, <2>2, Zenon
  <2> QED BY <2>1, <2>3, Zenon
<1>d. VersionHas(r, n, v)
  BY AsVersionFields
<1> HIDE DEF got, v
<1>b. DOMAIN v = RecFields /\ v = [f \in RecFields |-> v[f]]
  BY <1>d DEF VersionHas
<1>c. v.hidden = (r.hidden /\ n >= 15)
  BY <1>d DEF VersionHas
<1>6. /\ v.mac = r.mac /\ v.ssid = Flattened(r.ssid) /\ v.rssi = r.rssi /\ v.ch = r.ch
      /\ v.ftype = r.ftype /\ v.conf = r.conf
      /\ v.at = r.at /\ v.heading = r.heading /\ v.count = r.count
      /\ v.marked = r.marked /\ v.confirmed = r.confirmed /\ v.epoch = r.epoch
  BY <1>d DEF VersionHas
<1>h. v.fp = IF flock_ie_fp_is_generic(r.fp) THEN NoFp ELSE r.fp
  BY <1>d DEF VersionHas
<1>i. v.cls = IF n < 14 THEN "alpr" ELSE r.cls
  BY <1>d DEF VersionHas
<1>j. /\ v.label = IF n < 16 THEN "" ELSE Flattened(r.label)
      /\ v.pilot = IF n < 19 THEN Unknown ELSE r.pilot
      /\ v.kind = IF n < 19 THEN Unknown ELSE r.kind
  BY <1>d DEF VersionHas
<1>7. /\ columns[1] = r.mac /\ columns[2] = Escaped(r.ssid) /\ columns[3] = r.rssi
      /\ columns[4] = r.ch /\ columns[5] = LetterOf(r.ftype) /\ columns[6] = r.conf
      /\ columns[7] = r.fp /\ columns[8] = r.at /\ columns[10] = r.heading
      /\ columns[11] = r.count /\ columns[12] = Bit(r.marked) + 2 * Bit(r.confirmed)
      /\ columns[13] = r.epoch
      /\ columns[14] = number - 1
      /\ columns[15] = Bit(r.hidden) /\ columns[16] = Escaped(r.label)
      /\ columns[17] = r.pilot /\ columns[19] = r.kind
  <2>1. Laid(r, columns)
    BY LineColumns
  <2> HIDE DEF columns
  <2> QED BY <2>1 DEF Laid
<1>8. number \in 1..5 /\ Numbered[number] = r.cls
  BY ClassNumber DEF Storable
<1>9. \A i \in 1..n : line[i] = columns[i]
  OBVIOUS
<1> HIDE DEF columns, number
<1>10. n \in {13, 15, 16, 19} /\ n \in Int /\ n >= 13
  BY DEF Versions, FLOCK_STORE_COLS, FLOCK_STORE_COLS_V1, FLOCK_STORE_COLS_V2, FLOCK_STORE_COLS_V3
<1>11. /\ got.mac = v.mac /\ got.rssi = v.rssi /\ got.ch = v.ch /\ got.conf = v.conf
       /\ got.fp = v.fp /\ got.at = v.at /\ got.heading = v.heading /\ got.count = v.count
       /\ got.epoch = v.epoch
  <2>1. \A i \in 1..13 : line[i] = columns[i]
    BY <1>9, <1>10
  <2>2. /\ line[1] = r.mac /\ line[3] = r.rssi /\ line[4] = r.ch /\ line[6] = r.conf
        /\ line[7] = r.fp /\ line[8] = r.at /\ line[10] = r.heading /\ line[11] = r.count
        /\ line[13] = r.epoch
    BY <1>7, <2>1
  <2>3. got.fp = v.fp
    BY <1>f, <1>h, <2>2
  <2> QED BY <1>3, <1>6, <2>2, <2>3
<1>12. got.ssid = v.ssid /\ got.ftype = v.ftype
  <2>1. line[2] = Escaped(r.ssid) /\ line[5] = LetterOf(r.ftype)
    BY <1>7, <1>9, <1>10
  <2>2. LetterOf(r.ftype) = r.ftype
    BY DEF Storable, LetterOf
  <2> QED BY <1>3, <1>6, <2>1, <2>2, TextComesBack
<1>13. got.marked = v.marked /\ got.confirmed = v.confirmed
  <2>1. line[12] = Bit(r.marked) + 2 * Bit(r.confirmed)
    BY <1>7, <1>9, <1>10
  <2>2. r.marked \in BOOLEAN /\ r.confirmed \in BOOLEAN
    BY DEF Storable
  <2>3. (line[12] \in {1, 3} <=> r.marked) /\ (line[12] \in {2, 3} <=> r.confirmed)
    BY <2>1, <2>2, TwoBits
  <2>4. got.marked = v.marked
    <3>1. got.marked \in BOOLEAN /\ (got.marked <=> line[12] \in {1, 3})
      BY <1>5
    <3>2. got.marked <=> r.marked
      BY <2>3, <3>1
    <3>3. v.marked = r.marked
      BY <1>6
    <3> QED BY <2>2, <3>1, <3>2, <3>3
  <2>5. got.confirmed = v.confirmed
    <3>1. got.confirmed \in BOOLEAN /\ (got.confirmed <=> line[12] \in {2, 3})
      BY <1>5
    <3>2. got.confirmed <=> r.confirmed
      BY <2>3, <3>1
    <3>3. v.confirmed = r.confirmed
      BY <1>6
    <3> QED BY <2>2, <3>1, <3>2, <3>3
  <2> QED BY <2>4, <2>5
<1>14. got.cls = v.cls
  <2>1. CASE n < 14
    <3>1. Column(line, 14, 0) = 0
      BY <1>10, <2>1, ColumnIs
    <3>2. Numbered[1] = "alpr"
      BY DEF Numbered
    <3> QED BY <1>g, <1>i, <2>1, <3>1, <3>2
  <2>2. CASE ~(n < 14)
    <3>1. line[14] = number - 1
      BY <1>7, <1>9, <1>10, <2>2
    <3>2. Column(line, 14, 0) + 1 = number
      BY <1>8, <1>10, <2>2, <3>1, ColumnIs
    <3> QED BY <1>g, <1>i, <1>8, <2>2, <3>2
  <2> QED BY <2>1, <2>2
<1>15. got.hidden = v.hidden
  <2>1. CASE n < 15
    <3>1. Column(line, 15, 0) = 0 /\ ~(n >= 15)
      BY <1>10, <2>1, ColumnIs
    <3> QED BY <1>4, <1>c, <3>1
  <2>2. CASE ~(n < 15)
    <3>1. line[15] = Bit(r.hidden) /\ n >= 15
      BY <1>7, <1>9, <1>10, <2>2
    <3>2. Column(line, 15, 0) = Bit(r.hidden)
      BY <1>10, <2>2, <3>1, ColumnIs
    <3>3. Bit(r.hidden) = 1 <=> r.hidden
      BY DEF Bit
    <3> QED BY <1>4, <1>c, <3>1, <3>2, <3>3
  <2> QED BY <2>1, <2>2
<1>16. got.label = v.label
  <2>1. CASE n < 16
    <3>1. Column(line, 16, empty) = empty
      BY <1>10, <2>1, ColumnIs
    <3> QED BY <1>3, <1>j, <2>1, <3>1, <1>e
  <2>2. CASE ~(n < 16)
    <3>1. line[16] = Escaped(r.label)
      BY <1>7, <1>9, <1>10, <2>2
    <3>2. Column(line, 16, empty) = Escaped(r.label)
      BY <1>10, <2>2, <3>1, ColumnIs
    <3> QED BY <1>3, <1>j, <2>2, <3>2, TextComesBack
  <2> QED BY <2>1, <2>2
<1>17. got.pilot = v.pilot /\ got.kind = v.kind
  <2>1. CASE n < 19
    <3>1. Column(line, 17, Unknown) = Unknown /\ Column(line, 19, Unknown) = Unknown
      BY <1>10, <2>1, ColumnIs
    <3> QED BY <1>3, <1>j, <2>1, <3>1
  <2>2. CASE ~(n < 19)
    <3>1. line[17] = r.pilot /\ line[19] = r.kind
      BY <1>7, <1>9, <1>10, <2>2
    <3>2. Column(line, 17, Unknown) = r.pilot /\ Column(line, 19, Unknown) = r.kind
      BY <1>10, <2>2, <3>1, ColumnIs
    <3> QED BY <1>3, <1>j, <2>2, <3>2
  <2> QED BY <2>1, <2>2
<1>18. \A f \in RecFields : got[f] = v[f]
  BY <1>11, <1>12, <1>13, <1>14, <1>15, <1>16, <1>17 DEF RecFields
<1>19. got = v
  BY <1>2, <1>b, <1>18
<1> QED BY <1>1, <1>19 DEF v

(* What is stored of a row of any source, however it was marked, is a      *)
(* record the file takes.                                                  *)
LEMMA RowIsStorable ==
  ASSUME NEW r, Shaped(r), NEW m, m.marked \in BOOLEAN, m.confirmed \in BOOLEAN
  PROVE  Storable(recon_hits_rec_from_entry(r, m))
<1> DEFINE q == recon_hits_rec_from_entry(r, m)
<1>1. DOMAIN q = RecFields
  BY DEF recon_hits_rec_from_entry, RecFields
<1>2. q = [f \in DOMAIN q |-> q[f]]
  BY DEF recon_hits_rec_from_entry
<1>3. q.rssi = r.rssi /\ q.ch = r.ch /\ q.ftype = r.ftype /\ q.conf = r.conf /\ q.cls = r.cls
  BY DEF recon_hits_rec_from_entry
<1>4. q.hidden = r.hidden /\ q.marked = m.marked /\ q.confirmed = m.confirmed
  BY DEF recon_hits_rec_from_entry
<1> HIDE DEF q
<1>5. q = [f \in RecFields |-> q[f]]
  BY <1>1, <1>2
<1>6. /\ q.rssi \in Signal /\ q.ch \in Channel /\ q.ftype \in FLOCK_FTYPE_SET
      /\ q.conf \in Rungs /\ q.cls \in Classes
  BY <1>3 DEF Shaped
<1>7. q.hidden \in BOOLEAN /\ q.marked \in BOOLEAN /\ q.confirmed \in BOOLEAN
  BY <1>4 DEF Shaped
<1>8. Storable(q)
  BY <1>1, <1>5, <1>6, <1>7 DEF Storable
<1> QED BY <1>8 DEF q

(* The first columns of a line are those of the line.                      *)
LEMMA FirstColumns ==
  ASSUME NEW r, NEW n \in Versions
  PROVE  LET line == SubSeq(flock_store_fmt_line(r), 1, n)
         IN  Len(line) = n /\ \A i \in 1..n : line[i] = flock_store_fmt_line(r)[i]
<1> DEFINE columns == flock_store_fmt_line(r)
           S == {columns[i] : i \in 1..19}
<1>1. Len(columns) = 19
  BY LineColumns DEF Laid
<1>2. n \in 1..19 /\ n \in Int
  BY DEF Versions, FLOCK_STORE_COLS, FLOCK_STORE_COLS_V1, FLOCK_STORE_COLS_V2, FLOCK_STORE_COLS_V3
<1>3. \A i \in 1..n : columns[i] \in S
  BY <1>2
<1> HIDE DEF columns, S
<1>4. /\ Len(SubSeq(columns, 1, n)) = IF 1 <= n THEN n - 1 + 1 ELSE 0
      /\ \A i \in 1..(n - 1 + 1) : SubSeq(columns, 1, n)[i] = columns[1 + i - 1]
  BY <1>2, <1>3, SubSeqProperties
<1>5. /\ Len(SubSeq(columns, 1, n)) = n
      /\ \A i \in 1..n : SubSeq(columns, 1, n)[i] = columns[i]
  BY <1>2, <1>4
<1> QED BY <1>5 DEF columns

(* The operator's marks are yes or no.                                     *)
LEMMA MarksAreMarks ==
  ASSUME NEW m \in Marks
  PROVE  m.marked \in BOOLEAN /\ m.confirmed \in BOOLEAN
BY DEF Marks

(* Whatever was made of a row, it comes back from the card.                *)
LEMMA ReadsBack ==
  ASSUME RowInv
  PROVE  RowsReadBack
<1> SUFFICES ASSUME row.there, NEW m \in Marks, NEW n \in Versions
             PROVE  flock_store_parse_line(
                      SubSeq(flock_store_fmt_line(recon_hits_rec_from_entry(row, m)), 1, n)) =
                      {AsVersion(Lasting(recon_hits_rec_from_entry(row, m)), n)}
  BY DEF RowsReadBack
<1> DEFINE r == recon_hits_rec_from_entry(row, m)
           line == SubSeq(flock_store_fmt_line(r), 1, n)
<1>1. Shaped(row)
  BY DEF RowInv
<1>2. Storable(r)
  BY <1>1, MarksAreMarks, RowIsStorable
<1> HIDE DEF r
<1>3. Len(line) = n /\ \A i \in 1..n : line[i] = flock_store_fmt_line(r)[i]
  BY FirstColumns
<1> HIDE DEF line
<1>4. flock_store_parse_line(line) = {AsVersion(Lasting(r), n)}
  BY <1>2, <1>3, LineComesBack
<1> QED BY <1>4 DEF line, r

-----------------------------------------------------------------------------
(* The app started again.                                                  *)
LEMMA RestoredFields ==
  ASSUME NEW v
  PROVE  /\ DOMAIN recon_hits_add(v) = Fields
         /\ recon_hits_add(v).there = TRUE /\ recon_hits_add(v).conf = v.conf
         /\ recon_hits_add(v).ftype = v.ftype /\ recon_hits_add(v).cls = v.cls
         /\ recon_hits_add(v).hidden = v.hidden /\ recon_hits_add(v).ssid = v.ssid
         /\ recon_hits_add(v).rssi = v.rssi /\ recon_hits_add(v).ch = v.ch
         /\ recon_hits_add(v).chan_rssi = v.rssi /\ recon_hits_add(v).tell = NoTell
         /\ recon_hits_add(v).at = v.at /\ recon_hits_add(v).broadcast = FALSE
         /\ recon_hits_add(v).fp = v.fp /\ recon_hits_add(v).pilot = v.pilot
BY BornFields, ZenonT(30) DEF recon_hits_add, Born

(* A restart keeps the invariant.                                          *)
LEMMA StepRelaunch ==
  ASSUME RowInv, Relaunch
  PROVE  RowInv' /\ row'.there /\ named' = named
<1> DEFINE r == recon_hits_rec_from_entry(row, Unmarked)
           line == flock_store_fmt_line(r)
           n == FLOCK_STORE_COLS
           v == AsVersion(Lasting(r), n)
<1>1. row.there /\ Shaped(row)
  BY DEF Relaunch, RowInv
<1>2. Unmarked.marked \in BOOLEAN /\ Unmarked.confirmed \in BOOLEAN
  BY DEF Unmarked
<1>3. Storable(r)
  BY <1>1, <1>2, RowIsStorable
<1>4. /\ r.conf = row.conf /\ r.ftype = row.ftype /\ r.cls = row.cls /\ r.hidden = row.hidden
      /\ r.ssid = row.ssid /\ r.rssi = row.rssi /\ r.ch = row.ch /\ r.at = row.at
      /\ r.fp = row.fp /\ r.pilot = row.pilot
  BY DEF recon_hits_rec_from_entry
<1> HIDE DEF r
<1>5. n = 19 /\ n \in Versions
  BY DEF FLOCK_STORE_COLS, Versions
<1>6. Len(line) = n /\ \A i \in 1..n : line[i] = flock_store_fmt_line(r)[i]
  BY <1>5, LineColumns DEF Laid
<1> HIDE DEF line, n
<1>7. flock_store_parse_line(line) = {v}
  BY <1>3, <1>5, <1>6, LineComesBack
<1>8. VersionHas(r, n, v)
  BY <1>3, AsVersionFields
<1> HIDE DEF v
<1>9. ReadBack(recon_hits_rec_from_entry(row, Unmarked)) = {v}
  BY <1>7 DEF ReadBack, line, r
<1>10. row' = recon_hits_add(v)
  BY <1>9 DEF Relaunch
<1>11. /\ v.conf = row.conf /\ v.ftype = row.ftype /\ v.rssi = row.rssi /\ v.ch = row.ch
       /\ v.at = row.at
  BY <1>4, <1>8 DEF VersionHas
<1>12. /\ v.cls = row.cls /\ v.pilot = row.pilot
       /\ v.fp \in {NoFp, row.fp}
  BY <1>4, <1>5, <1>8 DEF VersionHas
<1>13. v.hidden \in BOOLEAN
  BY <1>8 DEF VersionHas
<1>14. v.ssid = Flattened(row.ssid)
  BY <1>4, <1>8 DEF VersionHas
<1>15. /\ DOMAIN row' = Fields
       /\ row'.there = TRUE /\ row'.conf = row.conf
       /\ row'.ftype = row.ftype /\ row'.cls = row.cls
       /\ row'.hidden = v.hidden /\ row'.ssid = Flattened(row.ssid)
       /\ row'.rssi = row.rssi /\ row'.ch = row.ch
       /\ row'.chan_rssi = row.rssi /\ row'.tell = NoTell
       /\ row'.at = row.at /\ row'.broadcast = FALSE
       /\ row'.pilot = row.pilot /\ row'.fp \in {NoFp, row.fp}
  BY <1>10, <1>11, <1>12, <1>14, RestoredFields
<1>16. /\ launches' = launches + 1 /\ launches < MaxLaunches /\ ~kept'
       /\ kept' = FALSE /\ dev' = dev /\ proof' = proof /\ named' = named
  BY DEF Relaunch
<1>17. Shaped(row)'
  <2>1. row'.tell \in NoTell..OuiOnly
    BY <1>15, NoTellIsWeak
  <2> QED BY <1>1, <1>13, <1>15, <2>1 DEF Shaped
<1>18. ConfirmedIsEarned'
  BY <1>1, <1>15, <1>16 DEF RowInv, ConfirmedIsEarned
<1>19. Explained'
  BY <1>15, <1>16, NoTellIsWeak DEF Explained, Strong
<1>20. named' = "own" => row'.ssid # ""
  BY <1>1, <1>15, <1>16 DEF RowInv, Flattened
<1>21. dev' \in Macs /\ launches' \in 0..MaxLaunches /\ kept' \in BOOLEAN
  <2>a. launches \in 0..MaxLaunches
    BY DEF RowInv
  <2>1. launches \in Int /\ MaxLaunches \in Int /\ launches >= 0
    BY <2>a, Numbers
  <2>2. launches' \in 0..MaxLaunches
    BY <1>16, <2>1
  <2> QED BY <1>16, <2>2 DEF RowInv
<1>22. Worded'
  <2>1. Worded
    BY <1>1 DEF RowInv
  <2>2. row'.ssid = row.ssid \/ flock_ssid_confidence(row'.ssid) = None
    BY <1>15, Sizes DEF Flattened
  <2>3. row'.fp = row.fp \/ flock_ie_fp_match(row'.fp) = "none"
    BY <1>15, NoName
  <2> QED BY <1>15, <1>16, <2>1, <2>2, <2>3 DEF Worded, Excused
<1> QED BY <1>15, <1>16, <1>17, <1>18, <1>19, <1>20, <1>21, <1>22 DEF RowInv

(* The fix comes and goes.                                                 *)
LEMMA StepFix ==
  ASSUME RowInv, FixChanges \/ UNCHANGED row_vars
  PROVE  RowInv' /\ named' = named
<1>1. UNCHANGED <<dev, row, launches, proof, named, nearest, kept>>
  BY DEF FixChanges, row_vars, truths
<1>2. row.there => Worded'
  BY <1>1 DEF RowInv, Worded, Excused
<1>3. RowInv'
  BY <1>1, <1>2 DEF RowInv, Blank, Tuned, Shaped, ConfirmedIsEarned, Explained
<1> QED BY <1>1, <1>3

(* It holds at the start.                                                  *)
LEMMA RowStarts ==
  ASSUME RowInit
  PROVE  RowInv
<1>1. ~row.there
  BY DEF RowInit, NoRow
<1>2. Blank
  BY DEF RowInit, Blank
<1>3. launches \in 0..MaxLaunches
  <2>1. launches = 0
    BY DEF RowInit
  <2>2. 0 \in 0..MaxLaunches
    BY Sizes
  <2> QED BY <2>1, <2>2
<1> QED BY <1>1, <1>2, <1>3 DEF RowInit, RowInv

(* Every step keeps the invariant and the device's own name.               *)
LEMMA RowSteps ==
  ASSUME RowInv, [RowNext]_row_vars
  PROVE  RowInv' /\ (named = "own" => named' = "own")
<1>1. CASE Detected
  BY <1>1, StepDetected
<1>2. CASE Advertised
  BY <1>2, StepAdvertised
<1>3. CASE Scraped
  BY <1>3, StepScraped
<1>4. CASE SurveyHit
  BY <1>4, StepSurveyHit
<1>5. CASE report_remote_id
  BY <1>5, StepRemoteId
<1>6. CASE Relaunch
  BY <1>6, StepRelaunch
<1>7. CASE FixChanges \/ UNCHANGED row_vars
  BY <1>7, StepFix
<1> QED BY <1>1, <1>2, <1>3, <1>4, <1>5, <1>6, <1>7 DEF RowNext

-----------------------------------------------------------------------------
(* What the words and the exports say follows.                             *)
LEMMA NamedFor ==
  ASSUME NEW name
  PROVE  /\ flock_vendor_of(dev, name) \in Vendors \cup {"unknown"}
         /\ flock_vendor_of(dev, name) = "flock" =>
              flock_oui_match(dev) \/ flock_ssid_confidence(name) # None
<1>1. flock_vendor_from_mac(dev) \in Vendors \cup {"unknown"}
  BY DEF flock_vendor_from_mac
<1>2. "flock" \in Vendors
  BY DEF Vendors, flock_vendor_tables
<1>3. flock_vendor_from_mac(dev) = "flock" => flock_oui_match(dev)
  BY DEF flock_vendor_from_mac, flock_oui_match
<1> QED BY <1>1, <1>2, <1>3 DEF flock_vendor_of

(* Only the vendor Flock is put into words as Flock.                       *)
LEMMA OnlyFlockSaysFlock ==
  ASSUME NEW vendor, NEW class, flock_device_long_str(vendor, class)[1] = "flock"
  PROVE  vendor = "flock"
<1>1. CASE vendor = "drone"
  BY <1>1 DEF flock_device_long_str
<1>2. CASE vendor = "unknown"
  BY <1>2 DEF flock_device_long_str
<1>3. CASE vendor \notin {"flock", "drone", "unknown"}
  <2>1. flock_device_long_str(vendor, class) = <<vendor, "gear">>
    BY <1>3 DEF flock_device_long_str
  <2> QED BY <2>1
<1> QED BY <1>1, <1>2, <1>3

(* The label claims no more than the rung.                                 *)
LEMMA InvSaysWhy ==
  ASSUME RowInv, row.there
  PROVE  SaysWhy
<1> DEFINE method == recon_report_save_fp(row).method
           vendor == flock_vendor_of(dev, row.ssid)
           name == flock_device_long_str(vendor, row.cls)
<1>0. /\ flock_ie_fp_match(row.fp) # "none" => row.conf >= ProbeFp
      /\ flock_ssid_confidence(row.ssid) # None => row.conf >= Likely \/ Excused(row.ssid)
  BY DEF RowInv, Worded
<1>1. method = flock_method_of(dev, row.ssid, row.ftype, row.fp)
  BY DEF recon_report_save_fp
<1>2. method = "fp" => row.conf >= ProbeFp
  BY <1>0, <1>1 DEF flock_method_of
<1>3. method = "ssid" => row.conf >= Likely \/ Excused(row.ssid)
  BY <1>0, <1>1 DEF flock_method_of
<1>4. name[1] = "flock" => flock_oui_match(dev) \/ row.conf >= Likely \/ Excused(row.ssid)
  BY <1>0, NamedFor, OnlyFlockSaysFlock
<1> QED BY <1>2, <1>3, <1>4 DEF SaysWhy

(* What is shared rests on evidence.                                       *)
LEMMA InvSharesOnlyEvidence ==
  ASSUME RowInv, row.there
  PROVE  SharesOnlyEvidence
<1> DEFINE shared == recon_report_save_flock(row, TRUE)
<1>0. /\ flock_ssid_confidence(row.ssid) # None => row.conf >= Likely \/ Excused(row.ssid)
      /\ row.pilot # Unknown => "remote id" \in proof
  BY DEF RowInv, Worded
<1>1. shared.name = SsidShown(row, TRUE) /\ shared.points = Points(row)
  BY DEF recon_report_save_flock
<1>2. shared.name \notin {"", "shape"} => row.conf >= Likely \/ Excused(row.ssid)
  BY <1>0, <1>1 DEF SsidShown
<1>3. ASSUME NEW p \in Points(row)
      PROVE  p.at = row.at \/ "remote id" \in proof
  <2>1. /\ p = [at |-> row.at, tags |-> Tags_of(row)] \/ p = [at |-> row.pilot, tags |-> <<>>]
        /\ p.at # Unknown
    BY DEF Points
  <2>2. p.at = row.at \/ p.at = row.pilot
    BY <2>1
  <2> QED BY <1>0, <2>1, <2>2
<1> QED BY <1>1, <1>2, <1>3 DEF SharesOnlyEvidence

(* Together, what the row claims is earned.                                *)
LEMMA InvClaims ==
  ASSUME RowInv
  PROVE  ClaimsAreEarned
<1> SUFFICES ASSUME row.there
             PROVE  ConfirmedIsEarned /\ Explained /\ SaysWhy /\ SharesOnlyEvidence /\ ChannelOfNearest
  BY DEF ClaimsAreEarned
<1>1. ConfirmedIsEarned /\ Explained
  BY DEF RowInv
<1>2. ChannelOfNearest
  BY DEF RowInv, Tuned, ChannelOfNearest
<1> QED BY <1>1, <1>2, InvSaysWhy, InvSharesOnlyEvidence

(* The row has its shape.                                                  *)
LEMMA InvShape ==
  ASSUME RowInv
  PROVE  RowTypeOK
BY DEF RowInv, Shaped, RowTypeOK

-----------------------------------------------------------------------------
(* The row's invariant: its shape, what vouched for it, what its words     *)
(* rest on and where its channel comes from, at every step of every merge, *)
(* save and restart.  (recon_app.c:140)                                    *)
THEOREM RowInvariant == RowSpec => []RowInv
<1>1. RowInit => RowInv
  BY RowStarts
<1>2. RowInv /\ [RowNext]_row_vars => RowInv'
  BY RowSteps
<1> QED BY <1>1, <1>2, PTL DEF RowSpec

(* A row keeps its shape, whichever sources fill it.  (recon_app.c:140)    *)
THEOREM RowShape == RowSpec => []RowTypeOK
<1>1. RowInv => RowTypeOK
  BY InvShape
<1> QED BY <1>1, RowInvariant, PTL

(* What the list claims of a device stands on what came from it: of any    *)
(* sources, in any order, after any number of restarts.                    *)
(* (esp_parser.c:92, recon_app.c:140, recon_app.c:591, flock_db.c:1111)    *)
THEOREM RowClaimsEarned == RowSpec => []ClaimsAreEarned
<1>1. RowInv => ClaimsAreEarned
  BY InvClaims
<1> QED BY <1>1, RowInvariant, PTL

(* Whatever was made of a row, every version of the file gives it back.    *)
(* (flock_store.c:163, flock_store.h:170)                                  *)
THEOREM RowsSurvive == RowSpec => []RowsReadBack
<1>1. RowInv => RowsReadBack
  BY ReadsBack
<1> QED BY <1>1, RowInvariant, PTL

(* The device's own name never gives way to one it was looking for.        *)
(* (recon_app.c:171)                                                       *)
THEOREM OwnNameKept == RowSpec => OwnNameStays
<1>1. RowInv /\ [RowNext]_row_vars => [named = "own" => named' = "own"]_row_vars
  BY RowSteps
<1> QED BY <1>1, RowInvariant, PTL DEF RowSpec, OwnNameStays
=============================================================================
