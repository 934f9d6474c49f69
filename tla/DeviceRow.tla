------------------------------ MODULE DeviceRow ------------------------------
(***************************************************************************)
(* The row of one device in the detection list: how reports of every       *)
(* source, frames, advertisements, other firmware's text, survey rows and  *)
(* an aircraft's own broadcasts, merge into it, and what is left of it     *)
(* when the session is saved and the app started again.  Which rows there  *)
(* is room for, exclusions and alerts are FlockTable's subject.            *)
(***************************************************************************)
EXTENDS EspParser, FlockStore

CONSTANTS
  Macs,        \* addresses; the row is of one of them
  Detections,  \* [line |-> a detection line, own |-> the name in it is the device's,
               \*  guarded |-> of a companion that scores a name as this one does]
  Adverts,     \* [line |-> an advertisement's line, own |-> ...]
  Scraps,      \* lines of other firmware
  Surveyed,    \* rows of the air survey: [mac, fp, rssi, ch]
  Broadcasts,  \* what aircraft send: [mac, rssi, air |-> "ble" or "wifi", says]
  LineCap,     \* the bytes of a broadcast that a RID line carries
  PayloadCap,  \* EspMsg.u.rid.payload
  BleHeader,   \* application code and counter
  Margin,      \* of the geotag rule
  INT8_MIN,
  MaxLaunches  \* bound: how often the app is started again

(* What is received is below 0 dBm, which the code keeps for "not known".  *)
Received == INT8_MIN..-1
Channel == 0..255

(* The companion's letters are of frames.  One that is guarded says 3 for  *)
(* a transmitter's own anchored name only, and 2 at least for a name it    *)
(* knows; what one of an earlier release says of what, nobody knows.  No   *)
(* name of the card's is what a control character leaves.                  *)
ASSUME RowAssumption ==
  /\ MaxLaunches \in Nat /\ INT8_MIN = -128
  /\ flock_ssid_confidence("space") = None
  /\ \A d \in Detections :
       /\ d.own \in BOOLEAN /\ d.guarded \in BOOLEAN
       /\ d.line.fields \in Nat /\ d.line.type \in {"P", "B", "R", "O"}
       /\ d.line.rssi \in Received /\ d.line.ch \in Channel
       /\ d.guarded /\ d.line.conf = 3 /\ d.line.type # "P" =>
            d.own /\ flock_ssid_confidence(d.line.ssid) = Confirmed
       /\ d.guarded /\ Ssid(d.line) \in {"unit", "test", "guest"} => d.line.conf \in {2, 3}
  /\ \A d \in Adverts : d.line.rssi \in Received
  /\ \A v \in Surveyed : v.rssi \in Received /\ v.ch \in Channel
  /\ \A b \in Broadcasts : b.rssi \in Received

VARIABLES
  dev,         \* the address
  row,         \* its row, or NoRow
  gps_valid,   \* there is a position
  launches,
  proof,       \* what has vouched for the device, ever: its "own name", what it
               \* "advertised", its "remote id", or what the code has "trusted"
  named,       \* whose name the row carries: "", "own" or "sought"
  nearest,     \* the best signal that came with a channel, and that channel
  kept,        \* the row has lived this session on reports of its own
  heard        \* the last broadcast was taken in

truths == <<proof, named, nearest, kept, heard>>
row_vars == <<dev, row, gps_valid, launches, truths>>

NoRow == [there |-> FALSE]
Nowhere == [best |-> INT8_MIN, on |-> {}]

(* A row as it is born.  A report seeds the channel's signal with less     *)
(* than any; a broadcast leaves it at zero, which is more than any.        *)
Born(seed) ==
  [there |-> TRUE, archived |-> FALSE, conf |-> None, ftype |-> "", fp |-> NoFp,
   cls |-> "alpr", hidden |-> FALSE, ssid |-> "", rssi |-> 0, ch |-> 0, chan_rssi |-> seed,
   rate |-> 0, tell |-> NoTell, at |-> Unknown, geotag_rssi |-> 0, broadcast |-> FALSE,
   pilot |-> Unknown, kind |-> Unknown]

RowInit ==
  /\ dev \in Macs /\ row = NoRow /\ gps_valid \in BOOLEAN /\ launches = 0
  /\ proof = {} /\ named = "" /\ nearest = Nowhere /\ kept = FALSE /\ heard = TRUE

-----------------------------------------------------------------------------
(* The parts of recon_app_report_flock()'s merge.                          *)

Or_else(new, old, none) == IF new = none THEN old ELSE new

(* The channel goes with the strongest sighting, and the probe rate with   *)
(* the channel.                                                            *)
Nearer(r, s) == s.ch # 0 /\ (s.rssi = 0 \/ s.rssi >= r.chan_rssi)

(* Seeded defect: the last name is kept.                                   *)
RenamesAlways(r, s) == s.ssid # ""

(* The first name stays, but for an advertisement that says more.          *)
Renames(r, s) ==
  /\ s.ssid # ""
  /\ \/ r.ssid = ""
     \/ s.ftype = "L" /\ flock_ble_name_should_replace(r.ssid, s.ssid)

(* An aircraft's own position is not replaced by where we stood.           *)
Tags(r, s) ==
  /\ ~r.broadcast
  /\ flock_geotag_should_update(gps_valid, r.at # Unknown, s.rssi, r.geotag_rssi, Margin)

Merge(r, s) ==
  [r EXCEPT
     !.archived = FALSE,
     !.rssi = Or_else(s.rssi, @, 0),
     !.ch = IF Nearer(r, s) THEN s.ch ELSE @,
     !.chan_rssi = IF Nearer(r, s) /\ s.rssi # 0 THEN s.rssi ELSE @,
     !.rate = IF Nearer(r, s) THEN s.rate ELSE @,
     !.ftype = s.ftype,
     !.conf = At_least(@, s.conf),
     !.fp = Or_else(s.fp, @, NoFp),
     !.cls = Or_else(s.cls, @, "alpr"),
     !.hidden = @ \/ s.hidden,
     !.ssid = IF Renames(r, s) THEN s.ssid ELSE @,
     !.at = IF Tags(r, s) THEN "observer" ELSE @,
     !.geotag_rssi = IF Tags(r, s) THEN s.rssi ELSE @]

(* The strongest tell stays.                                               *)
recon_app_set_ble_tell(old, tell) ==
  IF tell # NoTell /\ (old = NoTell \/ tell < old) THEN tell ELSE old

(* A report on the device, with what is true of it.                        *)
report_flock(s, tell, ofItself, vouched) ==
  LET old == IF row.there THEN row ELSE Born(INT8_MIN)
      new == Merge(old, s)
  IN  /\ s.mac = dev /\ s.conf # None
      /\ row' = [new EXCEPT !.tell = recon_app_set_ble_tell(@, tell)]
      /\ proof' = proof \cup vouched
      /\ named' = IF Renames(old, s) THEN (IF ofItself THEN "own" ELSE "sought") ELSE named
      /\ nearest' =
           IF s.ch = 0 \/ s.rssi < nearest.best THEN nearest
           ELSE [best |-> s.rssi, on |-> {s.ch}]
      /\ kept' = (kept \/ ~row.there)
      /\ UNCHANGED <<dev, gps_valid, launches, heard>>

(* What there is behind a line that confirms.  An unguarded companion's 3  *)
(* is taken at its word where no name came with it, and for the sender's   *)
(* name on the receiver's line.                                            *)
VouchedBy(d) ==
  LET anchored(ssid) == flock_ssid_confidence(ssid) = Confirmed
      bareWord == Ssid(d.line) = ""
      misplacedName == ~d.own /\ anchored(Ssid(d.line))
  IN  {w \in {"own name", "trusted"} :
         CASE w = "own name" -> d.own /\ anchored(d.line.ssid)
           [] w = "trusted" -> /\ ~d.guarded /\ d.line.conf = 3 /\ d.line.type # "P"
                               /\ bareWord \/ misplacedName}

(* A frame of the companion's.                                             *)
Detected ==
  \E d \in Detections : \E s \in parse_flock(d.line) :
    report_flock(s, NoTell, d.own, VouchedBy(d))

(* An advertisement it was sent.                                           *)
Advertised ==
  \E d \in Adverts : \E b \in parse_ble(d.line) : \E s \in DetectionOf(b) :
    report_flock(s, TellOf(b), TRUE,
      (IF Vouched(b.company, b.name, b.raven) THEN {"advertised"} ELSE {}))

(* A line of other firmware.                                               *)
Scraped ==
  \E l \in Scraps : \E s \in marauder_scan_line(l) :
    report_flock(s, NoTell, FALSE, IF s.conf = Confirmed THEN {"trusted"} ELSE {})

(* A survey row heard again: by a fingerprint, or as a pinned address.     *)
SurveyRung(v) == At_least(flock_ie_fp_confidence(v.fp, v.mac), flock_mac_pin_confidence(v.mac))

SurveyHit ==
  \E v \in Surveyed :
    report_flock([mac |-> v.mac, ssid |-> "", rssi |-> v.rssi, ch |-> v.ch, ftype |-> "F",
                  conf |-> SurveyRung(v), fp |-> v.fp, cls |-> "alpr", hidden |-> FALSE,
                  rate |-> 0], NoTell, FALSE, {})

-----------------------------------------------------------------------------
(* A broadcast of the aircraft, cut to what a line carries and again to    *)
(* what the app holds, decoded and merged field by field.                  *)
Sent(b) == At_most(Size(b.says), LineCap - (IF b.air = "ble" THEN BleHeader ELSE 0))
Arrived(b) == At_most(Sent(b), PayloadCap - BleHeader)

Decoded(b) == odid_parse_messages(b.says, Arrived(b))

MergeBroadcast(r, b, rep) ==
  [r EXCEPT
     !.archived = FALSE,
     !.rssi = IF b.rssi # 0 /\ (@ = 0 \/ b.rssi > @) THEN b.rssi ELSE @,
     !.ftype = "L", !.cls = "drone", !.conf = At_least(@, Confirmed),
     !.ssid = Or_else(rep.id, @, ""), !.kind = Or_else(rep.kind, @, Unknown),
     !.at = IF rep.at # Unknown THEN "aircraft" ELSE @,
     !.broadcast = @ \/ rep.at # Unknown,
     !.pilot = Or_else(rep.pilot, @, Unknown)]

report_remote_id ==
  \E b \in Broadcasts :
    LET rep == Decoded(b)
        old == IF row.there THEN row ELSE Born(0)
    IN  /\ b.mac = dev
        /\ heard' = rep.used
        /\ IF rep.used
           THEN /\ row' = MergeBroadcast(old, b, rep)
                /\ proof' = proof \cup {"remote id"}
                /\ named' = IF rep.id # "" THEN "own" ELSE named
           ELSE UNCHANGED <<row, proof, named>>
        /\ UNCHANGED <<dev, gps_valid, launches, nearest, kept>>

-----------------------------------------------------------------------------
(* The record a row is saved as, with what the operator added to it, and   *)
(* the row it is read back as: what the file has no column for is lost,    *)
(* and the channel is taken to have come with the signal that was stored.  *)
Unmarked == [marked |-> FALSE, confirmed |-> FALSE, label |-> "", count |-> 1, epoch |-> 0]

recon_hits_rec_from_entry(r, kept_by) ==
  [mac |-> dev, ssid |-> r.ssid, rssi |-> r.rssi, ch |-> r.ch, ftype |-> r.ftype, conf |-> r.conf,
   fp |-> r.fp, at |-> r.at, heading |-> Unknown, cls |-> r.cls, hidden |-> r.hidden,
   pilot |-> r.pilot, kind |-> r.kind, marked |-> kept_by.marked,
   confirmed |-> kept_by.confirmed, label |-> kept_by.label, count |-> kept_by.count,
   epoch |-> kept_by.epoch]

recon_hits_add(r) ==
  [Born(r.rssi) EXCEPT
     !.archived = TRUE, !.conf = r.conf, !.ftype = r.ftype, !.fp = r.fp, !.cls = r.cls,
     !.hidden = r.hidden, !.ssid = r.ssid, !.rssi = r.rssi, !.ch = r.ch, !.at = r.at,
     !.geotag_rssi = IF r.at = Unknown THEN 0 ELSE r.rssi, !.pilot = r.pilot, !.kind = r.kind]

ReadBack(r) == flock_store_parse_line(flock_store_fmt_line(r))

Relaunch ==
  /\ launches < MaxLaunches /\ row.there
  /\ LET back == ReadBack(recon_hits_rec_from_entry(row, Unmarked))
     IN  row' = IF back = {} THEN NoRow ELSE recon_hits_add(CHOOSE r \in back : TRUE)
  /\ launches' = launches + 1 /\ kept' = FALSE
  /\ UNCHANGED <<dev, gps_valid, proof, named, nearest, heard>>

-----------------------------------------------------------------------------
(* What leaves the Flipper of a row, once marked: a place the hand-off     *)
(* offers to the public map, and what the two exports write.               *)

Offered(r) == r.there /\ r.cls # "drone" /\ r.at # Unknown

(* A file for sharing has a name as it is only if the name is evidence.    *)
SsidShown(r, redact) ==
  IF redact /\ flock_ssid_confidence(r.ssid) = None THEN "shape" ELSE r.ssid

SurveillanceType ==
  [alpr |-> "ALPR", acoustic |-> "acoustic", bodycam |-> "camera", gear |-> "unknown"]

(* A drone gets no tags, and its operator a point of their own.            *)
Tags_of(r) ==
  IF r.cls = "drone" THEN <<>> ELSE <<SurveillanceType[r.cls], flock_vendor_of(dev, r.ssid)>>

Points(r) ==
  {p \in {[at |-> r.at, tags |-> Tags_of(r)], [at |-> r.pilot, tags |-> <<>>]} :
     /\ r.at # Unknown /\ p.at # Unknown
     /\ p.at = r.at \/ r.cls = "drone"}

(* The redacted export's table and map, and the report on false positives. *)
recon_report_save_flock(r, redact) ==
  [name |-> SsidShown(r, redact), vendor |-> flock_vendor_of(dev, r.ssid), points |-> Points(r)]

recon_report_save_fp(r) ==
  [method |-> flock_method_of(dev, r.ssid, r.ftype, r.fp), name |-> SsidShown(r, TRUE),
   vendor |-> flock_vendor_of(dev, r.ssid), cls |-> r.cls]

-----------------------------------------------------------------------------
FixChanges == gps_valid' = ~gps_valid /\ UNCHANGED <<dev, row, launches, truths>>

RowNext ==
  \/ Detected \/ Advertised \/ Scraped \/ SurveyHit \/ report_remote_id
  \/ Relaunch \/ FixChanges

RowSpec == RowInit /\ [][RowNext]_row_vars
=============================================================================
