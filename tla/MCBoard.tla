------------------------------- MODULE MCBoard -------------------------------
(***************************************************************************)
(* A small companion: its radio, its frames, its BLE side and its survey,  *)
(* each with a behaviour of its own.                                       *)
(***************************************************************************)
EXTENDS BoardProps

(* A part that is not looked at starts in one of its states only.          *)
Pin(part, x, S) == focus # part => x = CHOOSE y \in S : TRUE

MCInit ==
  /\ BoardInit
  /\ Pin("radio", build, Builds) /\ Pin("radio", band, BootBands(build))
  /\ Pin("frames", street, DOMAIN Streets)
  /\ \A a \in BleAddrs : Pin("ble", air[a], Adverts[a])

MCSpec == MCInit /\ [][BoardNext]_board_vars /\ BoardFair

-----------------------------------------------------------------------------
(* The radio: an image with everything, and one with neither BLE nor 5 GHz *)
(* whose chip can be sent to its bootloader.                               *)
MCBuilds == {[ble |-> TRUE, five |-> TRUE, rom |-> FALSE],
             [ble |-> FALSE, five |-> FALSE, rom |-> TRUE]}
MC24 == <<1, 2>>
MC5 == <<36>>

(* Frames of three addresses: f of a camera prefix, v of a competitor's, n *)
(* of nobody.  A unit's probe, a phone's, and a unit's that was cut off.   *)
El(t, c) == [tag |-> t, content |-> c, cut |-> FALSE]
Unit == <<El("name", ""), El("rates", "r"), El("vendor", "mbo"), El("ht", "h"),
          El("vht", "v"), El("vendor", "wmm")>>
Phone == <<El("name", ""), El("ht", "h"), El("channel", "c"), El("vendor", "mbo")>>
Torn == [Unit EXCEPT ![4].cut = TRUE]
Base == [kind |-> "beacon", ta |-> "n", ra |-> "n", name |-> "none", fp |-> <<>>,
         seq |-> 0, rssi |-> 1, body |-> <<>>]
Probe == [Base EXCEPT !.kind = "probe", !.name = "empty"]

Heard(n) == IF n = "unit" THEN 2 ELSE 1
Aps == {[Base EXCEPT !.ta = a, !.name = n, !.rssi = Heard(n)] :
          a \in Addrs, n \in {"nuls", "likely", "unit"}}
       \cup {[Base EXCEPT !.kind = "response", !.ta = a, !.ra = b, !.name = n, !.rssi = Heard(n)] :
               a \in Addrs, b \in Addrs, n \in {"cut", "unit"}}
       \cup {[Base EXCEPT !.kind = k, !.ra = "f"] : k \in {"deauth", "other"}}
Stations == {[Probe EXCEPT !.ta = a] : a \in Addrs}
Bursts == {[Probe EXCEPT !.ra = b, !.name = m, !.seq = q, !.body = d,
              !.fp = IF d = Torn THEN <<>> ELSE ie_skeleton_hash(d)] :
             b \in {"n", "f"}, m \in {"empty", "unit"}, q \in {0, 1}, d \in {Unit, Phone, Torn}}
MCStreets == <<Aps, Stations, Bursts>>

(* A tag that is with its owner, or away from them, or not there at all;   *)
(* and whatever else advertises.                                           *)
Device == [public |-> FALSE, prefix |-> FALSE, near |-> TRUE, mfg |-> "none", name |-> "none",
           services |-> <<>>, bwc |-> FALSE, rid |-> FALSE, gatt |-> {}]
MCAbsent == [Device EXCEPT !.mfg = "absent"]
Tags == {[Device EXCEPT !.mfg = "separated", !.gatt = {g}] : g \in {"airtag", "dult", "legacy"}}
        \cup {[Device EXCEPT !.mfg = "nearby", !.gatt = {"airtag"}],
              [Device EXCEPT !.mfg = "separated", !.near = FALSE],
              [Device EXCEPT !.services = <<"feed">>]}
Others ==
  {[Device EXCEPT !.mfg = "flock", !.public = TRUE], [Device EXCEPT !.name = "unit", !.rid = TRUE],
   [Device EXCEPT !.services = <<"other", "raven">>], [Device EXCEPT !.services = <<"fd5a">>],
   [Device EXCEPT !.mfg = "phone", !.services = <<"fd44">>],
   [Device EXCEPT !.bwc = TRUE, !.mfg = "nearby"]}
MCAdverts == [a \in BleAddrs |-> {MCAbsent} \cup (IF a = "t" THEN Tags ELSE Others)]
=============================================================================
