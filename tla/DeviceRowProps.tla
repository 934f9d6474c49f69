--------------------------- MODULE DeviceRowProps ---------------------------
(***************************************************************************)
(* What a row may claim of its device.                                     *)
(***************************************************************************)
EXTENDS DeviceRow

(* The row keeps its shape.                                                *)
RowTypeOK ==
  /\ dev \in Macs /\ launches \in 0..MaxLaunches
  /\ row.there =>
       /\ row.conf \in Rungs \ {None} /\ row.cls \in Classes
       /\ row.tell \in NoTell..OuiOnly
       /\ row.at \in {Unknown, "observer", "aircraft"}
       /\ row.broadcast => row.at = "aircraft"

(* A device is Confirmed only if something of its own once vouched for it, *)
(* an anchored name in its own frame, its advertisement or its Remote ID,  *)
(* or something was taken on trust: other firmware's text, and of a        *)
(* companion from before the guards, its 3 on a line without a name, or    *)
(* beside a sender's name on the receiver's line.  Never because it asked  *)
(* for a Flock network, by a looser name that came with the line, nor by   *)
(* the survey, a fingerprint or a signature; and a guarded companion's     *)
(* line confirms nobody but whoever sent the name, whatever the line lost. *)
ConfirmedIsEarned == row.conf = Confirmed => proof # {}

(* The tell on the detail screen explains the rung: a strong one stands on *)
(* a Confirmed row that advertised, and one heard this session is not      *)
(* forgotten for a weaker.                                                 *)
Explained ==
  /\ row.tell \in {MfgId, RavenGatt, Naming} => row.conf = Confirmed /\ "advertised" \in proof
  /\ kept /\ "advertised" \in proof => row.tell \in {MfgId, RavenGatt, Naming}

(* A name that is worth more than the row says: one the card lists and the *)
(* companion does not know, one that a companion from before the guards    *)
(* did not, and one the device advertised, which is not scored as a        *)
(* network's would be.                                                     *)
Excused(name) ==
  \/ name \in Extras.confirmed \cup Extras.likely
  \/ \E d \in Detections :
       ~d.guarded /\ d.line.mac = dev /\ Ssid(d.line) = name /\ d.line.conf \notin {2, 3}
  \/ \E d \in Adverts : d.line.mac = dev /\ d.line.name = name

(* The label never claims more than the rung: it names a fingerprint or a  *)
(* network only on a row of at least their rung, and Flock only for its    *)
(* own prefix or a row of Likely, but for the names that are excused.      *)
SaysWhy ==
  LET method == recon_report_save_fp(row).method
      name == flock_device_long_str(flock_vendor_of(dev, row.ssid), row.cls)
  IN  /\ method = "fp" => row.conf >= ProbeFp
      /\ method = "ssid" => row.conf >= Likely \/ Excused(row.ssid)
      /\ name[1] = "flock" => flock_oui_match(dev) \/ row.conf >= Likely \/ Excused(row.ssid)

(* A file for sharing gives a name away only of a device that is Likely at *)
(* least, or excused, and plots a second place only of an aircraft that    *)
(* introduced itself.  (recon_report.c:205)                                *)
SharesOnlyEvidence ==
  LET shared == recon_report_save_flock(row, TRUE)
  IN  /\ shared.name \notin {"", "shape"} => row.conf >= Likely \/ Excused(row.ssid)
      /\ \A p \in shared.points : p.at = row.at \/ "remote id" \in proof

(* The hunt is sent to the channel of the strongest sighting, whatever     *)
(* fringe captures came later, on a row this session made.                 *)
ChannelOfNearest == kept /\ nearest.on # {} => row.ch \in nearest.on

(* What the list claims of a device stands on what came from it, or on     *)
(* what the code trusts and ConfirmedIsEarned names, whichever sources     *)
(* spoke, in whatever order, and after a restart.                          *)
(* (esp_parser.c:92, recon_app.c:140, recon_app.c:591, flock_db.c:1111)    *)
ClaimsAreEarned ==
  row.there =>
    ConfirmedIsEarned /\ Explained /\ SaysWhy /\ SharesOnlyEvidence /\ ChannelOfNearest

(* A row that has its device's own name never takes the name of a network  *)
(* the device was looking for.  (recon_app.c:171)                          *)
OwnNameStays == [][named = "own" => named' = "own"]_row_vars

(* Whatever the session made of a row, and whatever the operator did to    *)
(* it, it comes back from the card: nothing a handler may put into it is   *)
(* refused by the reader, which would drop the row without a word, and no  *)
(* column is lost but a discredited fingerprint and a control character.   *)
(* A file of an older version keeps all that version had.                  *)
(* (flock_store.c:163, flock_store.h:170)                                  *)
Marks ==
  [marked : BOOLEAN, confirmed : BOOLEAN, label : {"", "comma", "control"},
   count : {1}, epoch : {0}]

Lasting(r) ==
  [r EXCEPT !.fp = IF flock_ie_fp_is_generic(@) THEN NoFp ELSE @,
            !.ssid = Flattened(@), !.label = Flattened(@)]

AsVersion(r, n) ==
  [r EXCEPT !.cls = IF n < 14 THEN "alpr" ELSE @, !.hidden = @ /\ n >= 15,
            !.label = IF n < 16 THEN "" ELSE @,
            !.pilot = IF n < 19 THEN Unknown ELSE @, !.kind = IF n < 19 THEN Unknown ELSE @]

RowsReadBack ==
  row.there =>
    \A m \in Marks :
      LET r == recon_hits_rec_from_entry(row, m)
          columns == flock_store_fmt_line(r)
      IN  \A n \in Versions :
            flock_store_parse_line(SubSeq(columns, 1, n)) = {AsVersion(Lasting(r), n)}

-----------------------------------------------------------------------------
(* What a comment says and the code does not do.                           *)

(* An aircraft's position is never offered as a camera's, by the DeFlock   *)
(* screen or on an exported map: "a drone is not a place"                  *)
(* (recon_scene_deflock_handoff.c:126).                                    *)
DroneIsNoPlace ==
  row.there =>
    /\ ~(Offered(row) /\ row.at = "aircraft")
    /\ \A p \in recon_report_save_flock(row, FALSE).points : p.at = "aircraft" => p.tags = <<>>

(* A legal broadcast is taken in, on either radio: the decoder handles     *)
(* packs "so both transports get it for free" (open_drone_id.c:186).       *)
PackIsTakenIn == heard
=============================================================================
