---------------------------- MODULE SettingsProps ----------------------------
(***************************************************************************)
(* What the settings promise.                                              *)
(***************************************************************************)
EXTENDS Settings

(* The settings are always ones the program can work with, whatever the    *)
(* file says.                                                              *)
SettingsTypeOK ==
  /\ DOMAIN settings = Keys
  /\ \A k \in Keys :
       IF k = "esp_gps_pin" THEN settings[k] \in 0..47 ELSE settings[k] \in ToSet(Offers(k))

(* Every choice a screen offers is one the loader takes: what is in force  *)
(* is what the next launch will find, item by item, once a save was made   *)
(* whole.  The pin is the exception twice over: the screen replaces one    *)
(* the board has not got without saving it, and the loader refuses 0, 1    *)
(* and 3, which are free on other chips and may have been saved.           *)
(* (recon_app.c:1451, recon_scene_settings.c:142)                          *)
SettingsAreKept ==
  launched /\ saved_whole =>
    LET relaunched == LoadedFrom(settings_file)
    IN  \A k \in Keys :
          \/ relaunched[k] = settings[k]
          \/ k = "esp_gps_pin" /\ \E p \in {0, 1, 3} : <<k, p>> \in ToSet(settings_file)
          \/ k = "esp_gps_pin" /\ \E b \in Boards : relaunched[k] \notin gps_usable_mask(b)
=============================================================================
