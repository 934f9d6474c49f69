------------------------------ MODULE Settings ------------------------------
(***************************************************************************)
(* The settings: their file, the screen that changes them one step at a    *)
(* time and saves after every one, and the list of pins a receiver may use *)
(* on the board, which the board itself supplies.                          *)
(***************************************************************************)
EXTENDS Integers, Sequences, FiniteSets, SequencesExt

CONSTANTS
  Turned,        \* the items the operator turns
  Boards,        \* [count, uart, flash, valid]: pins there are, taken, and fit for input
  MaxTurns,      \* bound: how often an item is turned
  MaxBadSaves,   \* bound: saves refused or cut short
  MaxStops       \* bound: how often the app stops

VARIABLES
  settings,      \* app->settings
  settings_file, \* the lines of the settings file; none if there is no file
  launched,      \* the app runs
  settings_open, \* the settings screen is open
  pin_list,      \* gps_pin_vals
  pin_mask,      \* esp_gps_pin_mask: what a board has reported, {} if none has
  plugged,       \* the board at the header
  saved_whole,   \* the last save was made whole
  turns, bad_saves, stops

bounds == <<turns, bad_saves, stops>>
settings_vars ==
  <<settings, settings_file, launched, settings_open, pin_list, pin_mask, plugged, saved_whole,
    bounds>>

(* In the order of the file.                                               *)
FileOrder ==
  <<"backend", "esp_band", "esp_uart", "gps_uart", "esp_baud", "gps_baud", "marauder_cmd",
    "gps_enabled", "gps_source", "esp_gps_pin", "sound", "flash_fast", "log_serials",
    "alert_mode", "alert_min_conf", "save_hits", "esp_auto_5v", "card_autodismiss">>
Keys == ToSet(FileOrder)

(* No chip the firmware is built for has more pins than the loader takes.  *)
ASSUME SettingsAssumption ==
  Turned \subseteq Keys /\ \A b \in Boards : b.count \in 0..48

Switches ==
  {"gps_enabled", "sound", "flash_fast", "log_serials", "save_hits", "esp_auto_5v",
   "card_autodismiss"}
Pairs == {"backend", "esp_uart", "gps_uart"}

(* recon_settings_defaults()                                               *)
Defaults ==
  [k \in Keys |->
     CASE k = "esp_baud" -> 115200
       [] k = "gps_baud" -> 9600
       [] k = "esp_gps_pin" -> 16
       [] k = "alert_mode" -> 3
       [] k \in {"gps_uart", "alert_min_conf", "sound", "save_hits", "esp_auto_5v",
                 "card_autodismiss"} -> 1
       [] OTHER -> 0]

-----------------------------------------------------------------------------
(* What the file may say.                                                  *)

(* Seeded defect: a baud the screen offers is missing from the loader's.   *)
AcceptsFewer(k) ==
  CASE k = "esp_baud" -> {115200, 921600}
    [] k = "gps_baud" -> {9600, 115200}
    [] k \in {"marauder_cmd", "alert_mode"} -> 0..3
    [] k \in {"esp_band", "gps_source", "alert_min_conf"} -> 0..2
    [] k = "esp_gps_pin" -> 2..47 \ {3}
    [] k \in Pairs -> {0, 1}

Accepts(k) ==
  CASE k = "esp_baud" -> {115200, 921600}
    [] k = "gps_baud" -> {9600, 57600, 115200}
    [] k \in {"marauder_cmd", "alert_mode"} -> 0..3
    [] k \in {"esp_band", "gps_source", "alert_min_conf"} -> 0..2
    [] k = "esp_gps_pin" -> 2..47 \ {3}
    [] k \in Pairs -> {0, 1}

(* What a line makes of its item: a switch is on for anything but 0, a     *)
(* pair falls back to its default.                                         *)
recon_settings_apply_kv(line) ==
  LET k == line[1]  v == line[2]
  IN  CASE k \in Switches -> IF v # 0 THEN 1 ELSE 0
        [] k \in Pairs -> IF v \in Accepts(k) THEN v ELSE Defaults[k]
        [] OTHER -> v

(* Of any other item, a value out of range is passed over.                 *)
Applies(line) == line[1] \in Switches \cup Pairs \/ line[2] \in Accepts(line[1])

(* Line by line over the defaults: of an item the last line that applies   *)
(* stays.                                                                  *)
LoadedFrom(file) ==
  [k \in Keys |->
     LET heard == {i \in DOMAIN file : file[i][1] = k /\ Applies(file[i])}
     IN  IF heard = {} THEN Defaults[k]
         ELSE recon_settings_apply_kv(file[CHOOSE i \in heard : \A j \in heard : j <= i])]

WrittenLines(s) == [i \in DOMAIN FileOrder |-> <<FileOrder[i], s[FileOrder[i]]>>]

(* A file cut short: whole lines, then perhaps one with some of its digits, *)
(* and none reads as 0.                                                    *)
Leading(v) == {v \div n : n \in {10, 100, 1000, 10000, 100000, 1000000}}
CutShort(lines) ==
  {SubSeq(lines, 1, n) : n \in 0..Len(lines)} \cup
  UNION {{Append(SubSeq(lines, 1, n), <<lines[n + 1][1], v>>) : v \in Leading(lines[n + 1][2])} :
           n \in 0..(Len(lines) - 1)}

-----------------------------------------------------------------------------
(* The pins of a board that could carry a receiver.                        *)
gps_pin_reject(b, p) == p >= b.count \/ p \notin b.valid \/ p \in b.uart \/ p \in b.flash
gps_usable_mask(b) == {p \in 0..63 : ~gps_pin_reject(b, p)}

Fallback == <<4, 5>>

(* In order; there is one such list.                                       *)
Ascending(S) == {s \in [1..Cardinality(S) -> S] : \A i, j \in DOMAIN s : i < j => s[i] < s[j]}

(* The board's own, or a few that are safe on any and the one in use.      *)
PinLists ==
  IF pin_mask # {} THEN Ascending(pin_mask)
  ELSE IF settings["esp_gps_pin"] \in ToSet(Fallback) THEN {Fallback}
  ELSE {Append(Fallback, settings["esp_gps_pin"])}

(* A pin the board does not have gives way to its first, in memory only.   *)
recon_settings_build_gps_pins ==
  /\ pin_list' \in PinLists
  /\ settings' = IF pin_mask # {} /\ settings["esp_gps_pin"] \notin pin_mask
                 THEN [settings EXCEPT !["esp_gps_pin"] = pin_list'[1]] ELSE settings

Offers(k) ==
  CASE k = "esp_baud" -> <<115200, 921600>>
    [] k = "gps_baud" -> <<9600, 115200, 57600>>
    [] k = "esp_gps_pin" -> pin_list
    [] k \in {"marauder_cmd", "alert_mode"} -> <<0, 1, 2, 3>>
    [] k \in {"esp_band", "gps_source", "alert_min_conf"} -> <<0, 1, 2>>
    [] OTHER -> <<0, 1>>

(* Where an item stands; the first of its list for want of a match.        *)
Shown(k) ==
  IF settings[k] \in ToSet(Offers(k))
  THEN CHOOSE i \in DOMAIN Offers(k) : Offers(k)[i] = settings[k] ELSE 1

-----------------------------------------------------------------------------
SettingsInit ==
  /\ settings_file = <<>> /\ settings = Defaults /\ launched = FALSE /\ settings_open = FALSE
  /\ pin_list = <<>> /\ pin_mask = {} /\ plugged \in Boards /\ saved_whole = FALSE
  /\ turns = 0 /\ bad_saves = 0 /\ stops = 0

recon_settings_load ==
  /\ ~launched /\ launched' = TRUE
  /\ settings' = LoadedFrom(settings_file)
  /\ UNCHANGED <<settings_file, settings_open, pin_list, pin_mask, plugged, saved_whole, bounds>>

Stop ==
  /\ launched /\ stops < MaxStops
  /\ launched' = FALSE /\ settings_open' = FALSE /\ stops' = stops + 1
  /\ settings' = Defaults /\ pin_list' = <<>> /\ pin_mask' = {}
  /\ UNCHANGED <<settings_file, plugged, saved_whole, turns, bad_saves>>

recon_scene_settings_on_enter ==
  /\ launched /\ ~settings_open /\ settings_open' = TRUE
  /\ recon_settings_build_gps_pins
  /\ UNCHANGED <<settings_file, launched, pin_mask, plugged, saved_whole, bounds>>

recon_scene_settings_on_exit ==
  /\ settings_open /\ settings_open' = FALSE
  /\ UNCHANGED <<settings, settings_file, launched, pin_list, pin_mask, plugged, saved_whole,
                 bounds>>

(* Written over the old file, which is emptied first; the outcome is not   *)
(* looked at.                                                              *)
recon_settings_save(s) ==
  \/ settings_file' = WrittenLines(s) /\ saved_whole' = TRUE /\ UNCHANGED bad_saves
  \/ /\ bad_saves < MaxBadSaves /\ bad_saves' = bad_saves + 1
     /\ settings_file' \in {settings_file} \cup CutShort(WrittenLines(s)) /\ saved_whole' = FALSE

(* An item turned by one place.                                            *)
Turn(k) ==
  /\ settings_open /\ turns < MaxTurns /\ turns' = turns + 1
  /\ \E i \in {Shown(k) - 1, Shown(k) + 1} \cap DOMAIN Offers(k) :
       /\ settings' = [settings EXCEPT ![k] = Offers(k)[i]]
       /\ recon_settings_save(settings')
  /\ UNCHANGED <<launched, settings_open, pin_list, pin_mask, plugged, stops>>

(* A banner's CHIP line, and another board at the header.                  *)
recon_app_set_chip ==
  /\ launched /\ pin_mask' = gps_usable_mask(plugged)
  /\ UNCHANGED <<settings, settings_file, launched, settings_open, pin_list, plugged,
                 saved_whole, bounds>>

Plug ==
  /\ plugged' \in Boards \ {plugged}
  /\ UNCHANGED <<settings, settings_file, launched, settings_open, pin_list, pin_mask,
                 saved_whole, bounds>>

SettingsNext ==
  \/ recon_settings_load \/ Stop \/ recon_scene_settings_on_enter \/ recon_scene_settings_on_exit
  \/ \E k \in Turned : Turn(k)
  \/ recon_app_set_chip \/ Plug

SettingsSpec == SettingsInit /\ [][SettingsNext]_settings_vars
=============================================================================
