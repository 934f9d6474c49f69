------------------------------ MODULE BleTable ------------------------------
(***************************************************************************)
(* The app's table of advertisers.  It is small and kept for the session:  *)
(* a newcomer to a full table takes the row heard longest ago, and what is *)
(* once known of a device outlives the adverts that do not say it.         *)
(***************************************************************************)
EXTENDS FlockDb, SequencesExt

CONSTANTS
  Addresses,     \* of advertisers
  Says,          \* what one sends at a time: [cat, company, name, raven]
  RECON_BLE_MAX,
  MaxTicks       \* bound on furi_get_tick()

ASSUME BleAssumption == RECON_BLE_MAX \in Nat \ {0} /\ MaxTicks \in Nat \ {0}

VARIABLES
  ble,         \* the table
  ble_fix,     \* gps_valid, as the worker finds it
  ble_tick,    \* furi_get_tick()
  ble_last,    \* when each address was last heard, 0 if never
  ble_said     \* of each since its row was made: the most telling name, and the company

ble_vars == <<ble, ble_fix, ble_tick, ble_last, ble_said>>

BLE_COMPANY_NONE == "none"
Silent == [name |-> 0, company |-> BLE_COMPANY_NONE]

BleInit ==
  /\ ble = <<>> /\ ble_fix \in BOOLEAN /\ ble_tick = 1
  /\ ble_last = [a \in Addresses |-> 0] /\ ble_said = [a \in Addresses |-> Silent]

-----------------------------------------------------------------------------
(* An unclassified advertiser with a Flipper's stock name is one.          *)
CatOf(s) == IF s.cat = "unknown" /\ s.name = "flipper" THEN "flipper" ELSE s.cat

SerialOf(s) == CatOf(s) = "flock" /\ flock_ble_extract_serial(s.company, s.name)
ModelOf(s) ==
  IF CatOf(s) = "flock" THEN flock_ble_model_ex(SerialOf(s), s.name, s.raven) ELSE "unknown"

RowOf(a) == {i \in DOMAIN ble : ble[i].addr = a}

(* The row heard longest ago, the first of several.  Marked rows would be  *)
(* passed over, but nothing marks one.                                     *)
Longest == Min({i \in DOMAIN ble : \A k \in DOMAIN ble : ble[i].last_tick <= ble[k].last_tick})

SlotFor(a) ==
  IF RowOf(a) # {} THEN Min(RowOf(a))
  ELSE IF Len(ble) < RECON_BLE_MAX THEN Len(ble) + 1 ELSE Longest

Fresh(a) ==
  [addr |-> a, name |-> "", cat |-> "unknown", company |-> BLE_COMPANY_NONE, serial |-> FALSE,
   model |-> "unknown", at |-> ble_fix, last_tick |-> ble_tick]

(* Seeded defect: a sighting is stamped only where there is a position.    *)
StampWithFix(r) == IF ble_fix THEN ble_tick ELSE r.last_tick

Stamp(r) == ble_tick

(* Another name is taken only if it says more than the one there is; the   *)
(* model is that of the last advert that told one.                         *)
Updated(r, s) ==
  [r EXCEPT
     !.last_tick = Stamp(r),
     !.cat = IF CatOf(s) # "unknown" THEN CatOf(s) ELSE @,
     !.company = IF s.company # BLE_COMPANY_NONE THEN s.company ELSE @,
     !.name = IF @ = "" \/ flock_ble_name_should_replace(@, s.name) THEN s.name ELSE @,
     !.serial = @ \/ SerialOf(s),
     !.model = IF ModelOf(s) # "unknown" THEN ModelOf(s) ELSE @,
     !.at = @ \/ ble_fix]

recon_app_ble_add ==
  \E a \in Addresses, s \in Says :
    LET i == SlotFor(a)
        known == RowOf(a) # {}
        evicted == IF known \/ i > Len(ble) THEN {} ELSE {ble[i].addr}
        before == IF known THEN ble_said[a] ELSE Silent
    IN  /\ ble' = IF i > Len(ble) THEN Append(ble, Updated(Fresh(a), s))
                  ELSE ReplaceAt(ble, i, Updated(IF known THEN ble[i] ELSE Fresh(a), s))
        /\ ble_last' = [ble_last EXCEPT ![a] = ble_tick]
        /\ ble_said' = [b \in Addresses |->
             IF b = a
             THEN [name |-> At_least(before.name, flock_ble_name_specificity(s.name)),
                   company |-> IF s.company = BLE_COMPANY_NONE THEN before.company ELSE s.company]
             ELSE IF b \in evicted THEN Silent ELSE ble_said[b]]
        /\ UNCHANGED <<ble_fix, ble_tick>>

TickPasses ==
  /\ ble_tick < MaxTicks /\ ble_tick' = ble_tick + 1
  /\ UNCHANGED <<ble, ble_fix, ble_last, ble_said>>
FixMoves == ble_fix' = ~ble_fix /\ UNCHANGED <<ble, ble_tick, ble_last, ble_said>>

BleNext == recon_app_ble_add \/ TickPasses \/ FixMoves

BleSpec == BleInit /\ [][BleNext]_ble_vars

-----------------------------------------------------------------------------
(* What the table of advertisers promises.                                 *)

(* The table keeps its shape.                                              *)
BleTypeOK ==
  /\ Len(ble) <= RECON_BLE_MAX /\ ble_tick \in 1..MaxTicks
  /\ \A i, k \in DOMAIN ble : ble[i].addr = ble[k].addr => i = k

(* Whoever has no row was heard no later than everyone who has one: the    *)
(* table follows the surroundings, whether or not there is a position, and *)
(* is not held by those who came first.  And a row, while it lasts, has    *)
(* the company and the most telling name its device sent, in whatever      *)
(* order its payloads rotated.  (recon_app.c:1190, recon_app.c:1216)       *)
BleTableIsRecent ==
  /\ \A i \in DOMAIN ble :
       \A a \in Addresses : RowOf(a) = {} => ble_last[a] <= ble[i].last_tick
  /\ \A i \in DOMAIN ble :
       LET r == ble[i] IN
       /\ r.last_tick = ble_last[r.addr]
       /\ flock_ble_name_specificity(r.name) = ble_said[r.addr].name
       /\ r.company = ble_said[r.addr].company
=============================================================================
