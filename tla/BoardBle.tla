------------------------------- MODULE BoardBle -------------------------------
(***************************************************************************)
(* The companion's BLE side: what a scan makes of each device it listed,   *)
(* and the two explicit tracker actions, ping and ring, which look for the *)
(* device again before they connect to it.                                 *)
(***************************************************************************)
EXTENDS Integers, Sequences, FiniteSets

CONSTANTS
  BleAddrs,
  Adverts,     \* [BleAddrs -> sets of what a device may advertise], Absent among it
  Absent,
  Listed,      \* the devices of a scan that are looked at
  SpamMin,     \* BLE_SPAM_MIN
  HasBle       \* FLOCK_HAS_BLE

VARIABLES
  air,         \* what each address advertises now
  found,       \* the lines of the last scan
  spammed,     \* the last scan told of a flood
  asked,       \* the action under way: [op |-> , addr |-> ], or NoAction
  stage,       \* how far it is
  fresh,       \* the advertisement its own scan found
  sought,      \* what was on the air then
  act          \* the status of the last answer, "" while one is owed

action == <<asked, stage, fresh, sought, act>>
ble_vars == <<air, found, spammed, action>>

NoAction == [op |-> "none", addr |-> "none"]

BleInit ==
  /\ air \in [BleAddrs -> UNION {Adverts[a] : a \in BleAddrs}]
  /\ \A a \in BleAddrs : air[a] \in Adverts[a]
  /\ found = {} /\ spammed = FALSE
  /\ asked = NoAction /\ stage = "rest" /\ fresh = Absent /\ sought = Absent
  /\ act = "none"

-----------------------------------------------------------------------------
(* An advertisement: what its manufacturer block is ("phone", "nearby" and *)
(* "separated" are Apple's), what its name is like, its services in order, *)
(* the body camera's tag, a Remote ID, whether the address is public and   *)
(* of a camera's prefix, and if it is near enough.                         *)

Elems(s) == {s[i] : i \in DOMAIN s}
Offers(d, s) == s \in Elems(d.services)
First(d, s) == d.services # <<>> /\ d.services[1] = s

(* Apple's Find My block is a tracker's only if the device type says so.   *)
apple_find_my_is_tracker(d) == d.mfg \in {"nearby", "separated"}
Separated(d) == d.mfg = "separated"

ByMaker(d) ==
  CASE d.mfg = "flock" -> "flock"
    [] d.mfg = "axon" -> "axon"
    [] apple_find_my_is_tracker(d) -> "airtag"
    [] OTHER -> "unknown"

ByName(d) == IF d.name = "unit" THEN "flock" ELSE ByMaker(d)

(* Every service is looked at for a Raven, the first alone for a tracker.  *)
ByService(d) ==
  IF Offers(d, "raven") THEN "flock"
  ELSE IF ByName(d) # "unknown" THEN ByName(d)
  ELSE IF First(d, "feed") THEN "tile"
  ELSE IF First(d, "fd5a") THEN "smarttag"
  ELSE IF First(d, "feaa") THEN "findmydev"
  ELSE IF First(d, "fd44") THEN "airtag"
  ELSE "unknown"

(* The body camera's own tag overrides; a remote's name, or a prefix on a  *)
(* public address, is asked last.                                          *)
Category(d) ==
  IF d.bwc THEN "axon"
  ELSE IF ByService(d) # "unknown" THEN ByService(d)
  ELSE IF d.name = "remote" THEN "axon"
  ELSE IF d.public /\ d.prefix THEN "flock"
  ELSE "unknown"

Trackers == {"airtag", "tile", "smarttag", "findmydev"}
ble_tracker_category_is_known(c) == c \in Trackers
ble_tracker_rssi_is_usable(d) == d.near

(* A distant tracker is not sent; the separated flag goes with whatever    *)
(* category won.                                                           *)
Sent(d) == ble_tracker_category_is_known(Category(d)) => ble_tracker_rssi_is_usable(d)

BleLine(a, d) ==
  [addr |-> a, cat |-> Category(d), company |-> d.mfg, name |-> d.name,
   mfghex |-> Category(d) = "flock" /\ d.mfg # "none",
   rv |-> Offers(d, "raven"), sep |-> Separated(d), bwc |-> d.bwc]

(* A Remote ID goes out on a line of its own.                              *)
RidLine(a, d) == [rid |-> a]

Lines(a) ==
  LET d == air[a]
  IN  IF d = Absent \/ ~Sent(d) THEN {}
      ELSE {BleLine(a, d)} \cup (IF d.rid THEN {RidLine(a, d)} ELSE {})

-----------------------------------------------------------------------------
(* One scan: some of those on the air are heard, the first of them looked  *)
(* at, and trackers counted before the weak ones are dropped.              *)
ble_do_scan ==
  /\ HasBle /\ stage = "rest"
  /\ \E heard \in SUBSET {a \in BleAddrs : air[a] # Absent} :
       /\ Cardinality(heard) <= Listed
       /\ found' = UNION {Lines(a) : a \in heard}
       /\ spammed' =
            (Cardinality({a \in heard : Category(air[a]) \in Trackers}) >= SpamMin)
  /\ UNCHANGED <<air, action>>

(* What a device advertises changes: a tag meets its owner, or leaves.     *)
Change ==
  /\ \E a \in BleAddrs : \E d \in Adverts[a] :
       d # air[a] /\ air' = [air EXCEPT ![a] = d]
  /\ UNCHANGED <<found, spammed, action>>

-----------------------------------------------------------------------------
(* The category an action is willing to work with.  An Apple block that is *)
(* no tracker's ends the question; otherwise every service counts.         *)
ble_action_tracker_category(d) ==
  IF apple_find_my_is_tracker(d) THEN "airtag"
  ELSE IF d.mfg = "phone" THEN "unknown"
  ELSE IF Offers(d, "fd44") \/ Offers(d, "dult") THEN "airtag"
  ELSE IF Offers(d, "feed") THEN "tile"
  ELSE IF Offers(d, "fd5a") THEN "smarttag"
  ELSE IF Offers(d, "feaa") THEN "findmydev"
  ELSE "unknown"

(* A request: an address that is none is refused, and without a radio it   *)
(* is answered at once.                                                    *)
Request ==
  /\ stage = "rest"
  /\ \E op \in {"ping", "ring"} :
       \/ /\ act' = "invalid"
          /\ UNCHANGED <<asked, stage>>
       \/ \E a \in BleAddrs :
            IF HasBle
            THEN asked' = [op |-> op, addr |-> a] /\ stage' = "seek" /\ act' = ""
            ELSE act' = "noble" /\ UNCHANGED <<asked, stage>>
  /\ UNCHANGED <<air, found, spammed, fresh, sought>>

Answer(status) ==
  /\ act' = status
  /\ asked' = NoAction /\ stage' = "rest" /\ fresh' = Absent /\ sought' = Absent

Proceed(s) == stage' = s /\ UNCHANGED <<asked, fresh, sought, act>>

\* Seeded defect: any Find My tag will do.
RefusalAnyTag(op, d) ==
  LET c == ble_action_tracker_category(d)
  IN  CASE op = "ping" /\ ~ble_tracker_category_is_known(c) -> "not_tracker"
        [] op = "ring" /\ c # "airtag" -> "unsupported"
        [] OTHER -> "none"

(* One second's scan of its own.  A ring goes on for a separated Find My   *)
(* tag only; a ping for any tracker.                                       *)
Refusal(op, d) ==
  LET c == ble_action_tracker_category(d)
  IN  CASE op = "ping" /\ ~ble_tracker_category_is_known(c) -> "not_tracker"
        [] op = "ring" /\ c # "airtag" -> "unsupported"
        [] op = "ring" /\ c = "airtag" /\ ~Separated(d) -> "not_separated"
        [] OTHER -> "none"

Seen(a) == air[a]

ble_action_find_target ==
  /\ stage = "seek"
  /\ LET d == Seen(asked.addr)
     IN  \/ Answer("not_found")
         \/ /\ d # Absent
            /\ IF Refusal(asked.op, d) # "none"
               THEN Answer(Refusal(asked.op, d))
               ELSE /\ stage' = "connect" /\ fresh' = d /\ sought' = air[asked.addr]
                    /\ UNCHANGED <<asked, act>>
  /\ UNCHANGED <<air, found, spammed>>

ble_action_connect ==
  /\ stage = "connect"
  /\ \/ Answer("connect_fail")
     \/ asked.op = "ping" /\ Answer("ok")
     \/ asked.op = "ring" /\ Proceed("airtag")
  /\ UNCHANGED <<air, found, spammed>>

(* The three control points in turn, each only if the tag has it.          *)
Has(point) == fresh # Absent /\ point \in fresh.gatt

ble_ring_write_airtag ==
  /\ stage = "airtag"
  /\ IF Has("airtag") THEN Answer("sent") ELSE Proceed("dult")
  /\ UNCHANGED <<air, found, spammed>>

ble_ring_write_dult ==
  /\ stage = "dult"
  /\ IF Has("dult") THEN Proceed("wait") ELSE Proceed("legacy")
  /\ UNCHANGED <<air, found, spammed>>

(* Half a second for the tag's response; none is as good as sent.          *)
ble_ring_notify ==
  /\ stage = "wait"
  /\ \E status \in {"sent", "ok", "busy", "rejected"} : Answer(status)
  /\ UNCHANGED <<air, found, spammed>>

ble_ring_write_legacy ==
  /\ stage = "legacy"
  /\ Answer(IF Has("legacy") THEN "sent" ELSE "service_missing")
  /\ UNCHANGED <<air, found, spammed>>

BleStep ==
  \/ ble_action_find_target \/ ble_action_connect \/ ble_ring_write_airtag
  \/ ble_ring_write_dult \/ ble_ring_notify \/ ble_ring_write_legacy

BleNext == ble_do_scan \/ Change \/ Request \/ BleStep

BleSpec == BleInit /\ [][BleNext]_ble_vars
=============================================================================
