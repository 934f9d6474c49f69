-------------------------- MODULE CompanionLinkProps --------------------------
(***************************************************************************)
(* What the session and the board promise each other.                      *)
(***************************************************************************)
EXTENDS CompanionLink

Flags ==
  /\ up \in BOOLEAN /\ relay \in BOOLEAN /\ beat \in BOOLEAN /\ deaf \in BOOLEAN
  /\ session \in BOOLEAN /\ connected \in BOOLEAN /\ lost \in BOOLEAN /\ heard \in BOOLEAN
  /\ resend \in BOOLEAN /\ hunting \in BOOLEAN

Names ==
  /\ mode \in Modes /\ kickoff \in {"none", "flockcombo"}
  /\ screen \in Screens /\ under \in Screens /\ back \in Screens
  /\ pc \in Places /\ job \in {"none", "menu", "retry", "detect"}

Counts ==
  /\ rx \in Seq({"banner", "other"}) /\ Len(rx) <= Buffer
  /\ quiet \in 0..Silent
  /\ resets \in 0..MaxResets /\ drops \in 0..MaxDrops

\* The shape of the state; the lines on their way never exceed the stream buffer, which
\* an interrupt fills and the worker empties (esp_rx_isr).
TypeOK == Flags /\ Names /\ Counts

\* A link shown as up is one whose last line is on record, so that the liveness tick can
\* see it fall silent: what the last session left in esp_connected would be watched by
\* nothing, since opening a session clears esp_rx_tick (scan_session.c:17).
HeartbeatWatched == session /\ connected /\ pc # "fresh" => heard

\* A link declared lost has been silent for the whole window and is not shown as up: one
\* line of any kind takes the loss back (recon_app_set_esp_lines).
LostMeansSilent == session /\ lost => quiet = Silent /\ ~connected

\* locate_kind says "hunting" exactly while the Locator is up, whichever way it was
\* entered and left: it is all that keeps the two ticks off the radio, and all that lets
\* them back on it.  And a handler cut in two ends on the scene it began on.
Placed ==
  /\ pc = "fresh" => screen = "detect"
  /\ pc = "kick" => screen = "preflight"
  /\ pc = "aim" => screen = "locator"
  /\ pc \in {"drain", "reopen"} => screen \in {"menu", "preflight"}
  /\ hunting <=> screen = "locator"
  /\ back \in {"menu", "detail", "picker"}

\* Nothing the app sends ends a hunt while the operator stays in the Locator: not the
\* survey poll, not the configuration a banner asks for (recon_app_gps_cfg_tick).
HuntUndisturbed ==
  [][screen = "locator" /\ screen' = "locator" /\ mode = "locate" /\ up /\ up'
     => mode' = "locate"]_vars

\* A board that lost power behind the Flock list and whose banner arrived is put back to
\* dual-band scanning, with its band and relay, unless it falls again or the operator
\* leaves: it boots Wi-Fi only, and "BLE detection off" shows nowhere.
Recovers ==
  (session /\ up /\ ~deaf /\ screen = "detect" /\ Idle /\ ~(mode = "combo" /\ relay))
  ~> ((mode = "combo" /\ relay) \/ ~up \/ deaf \/ screen # "detect")

\* On any screen, a board that came back without this session's configuration gets it,
\* if not during a hunt then after it (the flag is held, not dropped).
ConfigRestored ==
  (session /\ up /\ ~deaf /\ ~relay)
  ~> (relay \/ screen = "locator" \/ ~up \/ ~session \/ deaf)

\* A hunt that a reset ended is taken up again while the Locator is on screen.
HuntResumes ==
  (screen = "locator" /\ Idle /\ up /\ mode # "locate")
  ~> (mode = "locate" \/ ~up \/ screen # "locator")

\* A board that died under a link shown as up is noticed, on every screen.
SilenceNoticed == (session /\ connected /\ ~up) ~> (~connected \/ up \/ ~session)

=============================================================================
