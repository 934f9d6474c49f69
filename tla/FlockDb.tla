------------------------------- MODULE FlockDb -------------------------------
(***************************************************************************)
(* The pure rules of flock_db.c and flock_ble.c: what an address, a name,  *)
(* a fingerprint or an advertisement is worth, and how the evidence that   *)
(* was kept is put into words.  A prefix stands for its table.             *)
(***************************************************************************)
EXTENDS Integers, Sequences, FiniteSets

CONSTANTS
  Prefix,   \* [addresses -> the prefix of each]
  Extras    \* what the card adds: [ouis, macs, fps, confirmed, likely |-> sets]

(* The rungs, as the list orders them.                                     *)
None == 0
Possible == 1
Likely == 2
ProbeFp == 3
Confirmed == 4
Rungs == None..Confirmed

At_least(a, b) == IF a > b THEN a ELSE b
At_most(a, b) == IF a < b THEN a ELSE b

-----------------------------------------------------------------------------
(* The vendor tables, each with the class of what it makes.                *)
flock_vendor_tables ==
  [flock |-> "alpr", soundthinking |-> "acoustic", axon |-> "bodycam",
   ubicquia |-> "gear", motorola |-> "gear", verkada |-> "gear", genetec |-> "gear",
   avigilon |-> "gear", utility |-> "bodycam", digitalally |-> "bodycam", drone |-> "drone"]

Vendors == DOMAIN flock_vendor_tables
Classes == {"alpr", "acoustic", "bodycam", "gear", "drone"}

flock_vendor_from_mac(mac) == IF Prefix[mac] \in Vendors THEN Prefix[mac] ELSE "unknown"

vendor_exclusive_oui_match(mac) ==
  flock_vendor_from_mac(mac) \notin {"unknown", "flock", "soundthinking", "axon"}

flock_class_from_mac(mac) ==
  IF Prefix[mac] \in Vendors THEN flock_vendor_tables[Prefix[mac]] ELSE "alpr"

(* The operator's own prefixes count as Flock's, but name no vendor.       *)
flock_oui_match(mac) == Prefix[mac] = "flock" \/ Prefix[mac] \in Extras.ouis
soundthinking_oui_match(mac) == Prefix[mac] = "soundthinking"
axon_oui_match(mac) == Prefix[mac] = "axon"

AnyOui(mac) ==
  \/ flock_oui_match(mac) \/ soundthinking_oui_match(mac)
  \/ axon_oui_match(mac) \/ vendor_exclusive_oui_match(mac)

flock_user_mac_match(mac) == mac \in Extras.macs

-----------------------------------------------------------------------------
(* Network names: "unit" is Flock- and six hex digits, "test" contains     *)
(* test_flck, "guest" merely contains flock; "" is none.                   *)
flock_ssid_confidence(ssid) ==
  IF ssid = "" THEN None
  ELSE IF ssid \in {"unit", "test"} \cup Extras.confirmed THEN Confirmed
  ELSE IF ssid = "guest" \/ ssid \in Extras.likely THEN Likely
  ELSE None

(* The tiers of fingerprints, and the skeletons that are nobody's.         *)
NoFp == ""
flock_ie_fps == {}
flock_ie_fps_candidate == {"candidate"}
flock_ie_fps_generic == {"generic"}

flock_ie_fp_is_generic(fp) == fp # NoFp /\ fp \in flock_ie_fps_generic

flock_ie_fp_match(fp) ==
  IF fp = NoFp \/ flock_ie_fp_is_generic(fp) THEN "none"
  ELSE IF fp \in flock_ie_fps THEN "builtin"
  ELSE IF fp \in flock_ie_fps_candidate THEN "candidate"
  ELSE IF fp \in Extras.fps THEN "user"
  ELSE "none"

flock_ie_fp_confidence(fp, mac) ==
  CASE flock_ie_fp_match(fp) = "builtin" -> IF flock_oui_match(mac) THEN Confirmed ELSE ProbeFp
    [] flock_ie_fp_match(fp) \in {"candidate", "user"} -> ProbeFp
    [] OTHER -> None

flock_mac_pin_confidence(mac) == IF flock_user_mac_match(mac) THEN ProbeFp ELSE None

-----------------------------------------------------------------------------
(* Advertisements: company is "flock", "axon" or another; the names are    *)
(* "product" (Penguin-, FS-XXXXXX), "serial" (a bare unit id), "stock"     *)
(* (a module's default) or an ordinary one.                                *)
flock_ble_name_is_flock(name) == name = "product"

Vouched(company, name, raven) ==
  company \in {"flock", "axon"} \/ raven \/ flock_ble_name_is_flock(name)

(* There is no rung between.                                               *)
flock_ble_confidence(company, name, raven) ==
  IF Vouched(company, name, raven) THEN Confirmed ELSE Possible

(* Strongest first; 0 is no tell.                                          *)
NoTell == 0
MfgId == 1
RavenGatt == 2
Naming == 3
OuiOnly == 4

flock_ble_tell(company, name, raven, mac) ==
  IF company \in {"flock", "axon"} THEN MfgId
  ELSE IF raven THEN RavenGatt
  ELSE IF flock_ble_name_is_flock(name) THEN Naming
  ELSE IF AnyOui(mac) THEN OuiOnly
  ELSE NoTell

flock_ble_name_specificity(name) ==
  CASE name = "" -> 0
    [] name = "stock" -> 1
    [] name \in {"product", "serial"} -> 3
    [] OTHER -> 2

flock_ble_name_should_replace(current, candidate) ==
  flock_ble_name_specificity(candidate) > flock_ble_name_specificity(current)

(* A serial is read from Flock's own payload, or from a name that is one.  *)
flock_ble_extract_serial(company, name) == company = "flock" \/ name = "serial"

flock_ble_model_ex(serial, name, raven) ==
  IF raven THEN "raven"
  ELSE IF flock_ble_name_is_flock(name) \/ serial THEN "generic"
  ELSE "unknown"

-----------------------------------------------------------------------------
(* The words: by which indicator, by whose hand, and what it is.           *)
flock_method_of(mac, ssid, ftype, fp) ==
  IF flock_ssid_confidence(ssid) # None THEN "ssid"
  ELSE IF flock_ie_fp_match(fp) # "none" THEN "fp"
  ELSE IF flock_user_mac_match(mac) THEN "pin"
  ELSE IF AnyOui(mac) THEN "oui"
  ELSE IF ftype = "L" THEN "ble"
  ELSE IF ftype = "S" THEN "sig"
  ELSE "unknown"

flock_vendor_of(mac, ssid) ==
  IF flock_ssid_confidence(ssid) # None THEN "flock" ELSE flock_vendor_from_mac(mac)

(* The vendor named, if any, before the class.                             *)
flock_device_long_str(vendor, class) ==
  CASE vendor = "flock" -> <<"flock", IF class = "acoustic" THEN "raven" ELSE "camera">>
    [] vendor = "drone" -> <<"nobody", "drone">>
    [] vendor = "unknown" -> <<"nobody", class>>
    [] OTHER -> <<vendor, "gear">>

(* A position is taken for want of one, or for a clearly nearer sighting.  *)
flock_geotag_should_update(have_fix, tagged, rssi, geotag_rssi, margin) ==
  have_fix /\ (~tagged \/ rssi > geotag_rssi + margin)
=============================================================================
