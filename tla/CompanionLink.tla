---------------------------- MODULE CompanionLink ----------------------------
(***************************************************************************)
(* The scan session and the ESP32 companion at the other end of it: the    *)
(* board with its modes and its resets, the UART lines it sends and may    *)
(* lose, the worker that takes them in, the GUI tick that re-sends the     *)
(* configuration after a banner and watches for silence, and the scenes    *)
(* that open, re-task, re-open and close the session.                      *)
(*                                                                         *)
(* Three parties act: the board, the ESP worker, and the GUI thread, which *)
(* is in one handler at a time (`pc`).  A command is obeyed as it is sent: *)
(* the UART is a FIFO, and a board that is not up loses it.  Companion     *)
(* backend throughout; the Marauder backend has no modes to restore.       *)
(***************************************************************************)
EXTENDS Naturals, Sequences

CONSTANTS
  Silent,     \* RECON_ESP_SILENT_MS, in heartbeats
  Buffer,     \* lines the UART stream buffer holds before it drops
  MaxResets,  \* bound: how often the board loses power or restarts
  MaxDrops    \* bound: lines lost to a byte dropped in the middle of them

ASSUME SilentAssumption == Silent \in Nat \ {0}
ASSUME BufferAssumption == Buffer \in Nat \ {0}
ASSUME BoundsAssumption == MaxResets \in Nat /\ MaxDrops \in Nat

VARIABLES
  (* the board *)
  up, mode,           \* running, and what its radio is doing
  relay,              \* it has this session's band and GPS relay configuration
  beat,               \* it has spoken since the last heartbeat interval began
  (* the wire *)
  rx,                 \* lines on their way to the worker
  (* the app *)
  session,            \* app->esp # NULL
  connected, lost,    \* esp_connected, esp_lost
  heard, quiet,       \* esp_rx_tick # 0, and how long ago it was stamped
  resend,             \* gps_cfg_resend
  kickoff,            \* esp_kickoff
  hunting,            \* locate_kind # 0
  screen, under, back,\* the scene, the one below the list, the one below the Locator
  pc, job,            \* the GUI thread, and why it is tearing a session down
  (* environment and history *)
  resets, drops,
  deaf                \* the board's last banner was lost on the wire

board == <<up, mode, relay, beat>>
wire == <<rx, drops, deaf>>
link == <<connected, lost, heard, quiet>>
scene == <<screen, under, back>>
vars == <<up, mode, relay, beat, rx, session, connected, lost, heard, quiet, resend,
          kickoff, hunting, screen, under, back, pc, job, resets, drops, deaf>>

Scanning == {"wifi", "combo"}
Modes == Scanning \cup {"off", "locate", "idle"}
Screens == {"menu", "detect", "detail", "picker", "locator", "preflight"}
Places == {"idle", "live", "fresh", "kick", "aim", "drain", "reopen"}

Init ==
  /\ up \in BOOLEAN
  /\ mode = (IF up THEN "wifi" ELSE "off")
  /\ relay = FALSE /\ beat = FALSE
  /\ rx = <<>>
  /\ session = FALSE
  /\ connected = FALSE /\ lost = FALSE /\ heard = FALSE /\ quiet = 0
  /\ resend = FALSE /\ kickoff = "none" /\ hunting = FALSE
  /\ screen = "menu" /\ under = "menu" /\ back = "menu"
  /\ pc = "idle" /\ job = "none"
  /\ resets = 0 /\ drops = 0 /\ deaf = FALSE

-----------------------------------------------------------------------------
(* The board and the wire.                                                 *)

\* A line the board sends while the port is open.  A byte that finds the buffer full
\* costs the line it was in, whole.
Line(l) ==
  \/ /\ Len(rx) < Buffer
     /\ rx' = Append(rx, l)
     /\ deaf' = (deaf /\ l # "banner")
     /\ UNCHANGED drops
  \/ /\ Len(rx) = Buffer \/ drops < MaxDrops
     /\ drops' = IF drops < MaxDrops THEN drops + 1 ELSE drops
     /\ deaf' = (deaf \/ l = "banner")
     /\ UNCHANGED rx

Says(l) == IF session THEN Line(l) ELSE UNCHANGED wire

\* setup(): Wi-Fi only, no relay, and a banner.
Boot ==
  /\ ~up
  /\ up' = TRUE /\ mode' = "wifi" /\ relay' = FALSE /\ beat' = FALSE
  /\ Says("banner")
  /\ UNCHANGED <<session, link, resend, kickoff, hunting, scene, pc, job, resets>>

Reset ==
  /\ up /\ resets < MaxResets
  /\ up' = FALSE /\ mode' = "off" /\ relay' = FALSE /\ beat' = FALSE
  /\ resets' = resets + 1
  /\ UNCHANGED <<wire, session, link, resend, kickoff, hunting, scene, pc, job>>

\* loop(): a status line a second while scanning; in Locator mode a LOC line only
\* when the target was heard; nothing at all when idle.
Speak ==
  /\ up /\ ~beat /\ mode \in Scanning \cup {"locate"}
  /\ beat' = TRUE
  /\ Says("other")
  /\ UNCHANGED <<up, mode, relay, session, link, resend, kickoff, hunting, scene, pc, job,
                 resets>>

\* A heartbeat interval passes.  A scanning board has spoken in it, and the worker,
\* which nothing blocks, has taken in what arrived.
Clock ==
  /\ rx = <<>>
  /\ session /\ mode \in Scanning => beat
  /\ beat' = FALSE
  /\ quiet' = IF heard /\ quiet < Silent THEN quiet + 1 ELSE quiet
  /\ UNCHANGED <<up, mode, relay, wire, session, connected, lost, heard, resend, kickoff,
                 hunting, scene, pc, job, resets>>

\* A command obeyed: the board's mode and configuration after it.
Obeys(m, configured) ==
  /\ mode' = IF up THEN m ELSE mode
  /\ relay' = (relay \/ (up /\ configured))
  /\ UNCHANGED <<up, beat>>

\* `band` and `gps` re-task the radio, which ends Locator mode.
Retasked == IF mode = "locate" THEN "idle" ELSE mode

-----------------------------------------------------------------------------
(* The worker.                                                             *)

\* esp_worker(): any line is a sign of life; a banner also asks for a re-send.
Receive ==
  /\ session /\ rx # <<>>
  /\ rx' = Tail(rx)
  /\ connected' = TRUE /\ lost' = FALSE /\ heard' = TRUE /\ quiet' = 0
  /\ resend' = (resend \/ Head(rx) = "banner")
  /\ UNCHANGED <<board, session, kickoff, hunting, scene, pc, job, resets, drops, deaf>>

-----------------------------------------------------------------------------
(* The GUI thread's 250 ms tick.                                           *)

Idle == pc = "idle"

TickUnchanged == UNCHANGED <<session, link, kickoff, hunting, scene, job, resets>>

\* Seeded defect, as first shipped: a hunt does not hold the re-send back.
TickResendHunting ==
  /\ Idle
  /\ pc' = "live"
  /\ resend' = FALSE
  /\ IF resend /\ session
     THEN Obeys(IF kickoff = "none" THEN Retasked ELSE "combo", TRUE)
          /\ (IF up THEN Line("other") ELSE UNCHANGED wire)
     ELSE UNCHANGED <<board, wire>>
  /\ TickUnchanged

\* Seeded defect: the scan mode is not among what is sent again.
TickResendConfigOnly ==
  /\ Idle
  /\ pc' = "live"
  /\ resend' = (resend /\ hunting)
  /\ IF resend /\ ~hunting /\ session
     THEN Obeys(Retasked, TRUE) /\ (IF up THEN Line("other") ELSE UNCHANGED wire)
     ELSE UNCHANGED <<board, wire>>
  /\ TickUnchanged

\* Seeded defect: a hunt drops the request instead of holding it.
TickResendDropping ==
  /\ Idle
  /\ pc' = "live"
  /\ resend' = FALSE
  /\ IF resend /\ ~hunting /\ session
     THEN Obeys(IF kickoff = "none" THEN Retasked ELSE "combo", TRUE)
          /\ (IF up THEN Line("other") ELSE UNCHANGED wire)
     ELSE UNCHANGED <<board, wire>>
  /\ TickUnchanged

\* recon_app_gps_cfg_tick(): held while hunting; otherwise taken, and band, relay and
\* scan mode are sent once more.  The board acknowledges.
TickResend ==
  /\ Idle
  /\ pc' = "live"
  /\ resend' = (resend /\ hunting)
  /\ IF resend /\ ~hunting /\ session
     THEN Obeys(IF kickoff = "none" THEN Retasked ELSE "combo", TRUE)
          /\ (IF up THEN Line("other") ELSE UNCHANGED wire)
     ELSE UNCHANGED <<board, wire>>
  /\ TickUnchanged

\* Seeded defect: the link is not watched during a hunt.
TickLivenessNotHunting ==
  /\ pc = "live"
  /\ pc' = "idle"
  /\ IF session /\ connected /\ heard /\ quiet >= Silent /\ ~hunting
     THEN connected' = FALSE /\ lost' = TRUE
     ELSE UNCHANGED <<connected, lost>>
  /\ UNCHANGED <<board, wire, session, heard, quiet, resend, kickoff, hunting, scene, job,
                 resets>>

\* recon_app_liveness_tick()
TickLiveness ==
  /\ pc = "live"
  /\ pc' = "idle"
  /\ IF session /\ connected /\ heard /\ quiet >= Silent
     THEN connected' = FALSE /\ lost' = TRUE
     ELSE UNCHANGED <<connected, lost>>
  /\ UNCHANGED <<board, wire, session, heard, quiet, resend, kickoff, hunting, scene, job,
                 resets>>

\* recon_survey_tick(): a table dump, never asked for during a hunt.
SurveyPoll ==
  /\ Idle /\ session /\ ~hunting /\ up
  /\ Line("other")
  /\ UNCHANGED <<board, session, link, resend, kickoff, hunting, scene, pc, job, resets>>

-----------------------------------------------------------------------------
(* The scenes, on the same thread.  `pc` names the point a handler has     *)
(* reached when the other parties may act in the middle of it.             *)

\* scan_session_start() with no session: `ver`, `scan`, `band`, `gps`, to a board that
\* answers with its banner; the acknowledgements in the same burst are folded into it.
\* esp_connected is the caller's to reset.
Opened ==
  /\ session' = TRUE
  /\ lost' = FALSE /\ heard' = FALSE /\ quiet' = 0 /\ kickoff' = "none"
  /\ IF up THEN Obeys("wifi", TRUE) /\ Line("banner") ELSE UNCHANGED <<board, wire>>
  /\ UNCHANGED <<resend, resets>>

\* Onto a screen: where the GUI thread is, and what lies below.
Shows(s, at) == screen' = s /\ pc' = at

\* The Flock list or the map, from the Main Menu.
EnterScan ==
  /\ Idle /\ screen = "menu"
  /\ Opened /\ Shows("detect", "fresh") /\ under' = "menu"
  /\ UNCHANGED <<connected, hunting, back, job>>

\* ... whose on_enter then clears what the last session left, and kicks the scan off.
KickFresh ==
  /\ pc = "fresh"
  /\ pc' = "idle" /\ kickoff' = "flockcombo"
  /\ connected' = FALSE
  /\ Obeys("combo", FALSE)
  /\ UNCHANGED <<lost, heard, quiet, wire, session, resend, hunting, scene, job, resets>>

EnterPreflight ==
  /\ Idle /\ screen = "menu"
  /\ connected' = FALSE
  /\ Opened /\ Shows("preflight", "kick")
  /\ UNCHANGED <<hunting, under, back, job>>

Kick ==
  /\ pc = "kick"
  /\ pc' = "idle" /\ kickoff' = "flockcombo"
  /\ Obeys("combo", FALSE)
  /\ UNCHANGED <<link, wire, session, resend, hunting, scene, job, resets>>

OpenDetail ==
  /\ Idle /\ screen = "detect"
  /\ Shows("detail", "idle")
  /\ UNCHANGED <<board, wire, session, link, resend, kickoff, hunting, under, back, job,
                 resets>>

OpenPicker ==
  /\ Idle /\ screen = "menu"
  /\ Shows("picker", "idle")
  /\ UNCHANGED <<board, wire, session, link, resend, kickoff, hunting, under, back, job,
                 resets>>

\* Back onto a scan screen whose session is live: the kickoff, every time.
BackTo(s) ==
  /\ Shows(s, "idle")
  /\ kickoff' = "flockcombo"
  /\ Obeys("combo", FALSE)
  /\ UNCHANGED <<wire, session, link, resend, hunting, under, back, job, resets>>

BackToList == Idle /\ screen = "detail" /\ BackTo("detect")

BackToPreflight == Idle /\ screen = "detect" /\ under = "preflight" /\ BackTo("preflight")

\* A marked target picked: the Locator over the session there is, or over a new one.
Pick ==
  /\ Idle /\ screen = "picker"
  /\ connected' = FALSE /\ hunting' = TRUE /\ back' = "picker"
  /\ IF session
     THEN /\ Shows("locator", "idle") /\ Obeys("locate", FALSE)
          /\ UNCHANGED <<wire, session, lost, heard, quiet, resend, kickoff, resets>>
     ELSE Opened /\ Shows("locator", "aim")
  /\ UNCHANGED <<under, job>>

Aim ==
  /\ pc = "aim"
  /\ pc' = "idle"
  /\ Obeys("locate", FALSE)
  /\ UNCHANGED <<wire, session, link, resend, kickoff, hunting, scene, job, resets>>

\* Lock In on the detection on screen.
LockIn ==
  /\ Idle /\ screen = "detail"
  /\ connected' = FALSE /\ hunting' = TRUE /\ back' = "detail"
  /\ Shows("locator", "idle") /\ Obeys("locate", FALSE)
  /\ UNCHANGED <<wire, session, lost, heard, quiet, resend, kickoff, under, job, resets>>

\* Seeded defect: the target is sent again only once the link is known to be lost.
RearmWhenLost ==
  /\ Idle /\ screen = "locator" /\ lost
  /\ Obeys("locate", FALSE)
  /\ UNCHANGED <<wire, session, link, resend, kickoff, hunting, scene, pc, job, resets>>

\* The Locator's tick: the target again, every five seconds.
Rearm ==
  /\ Idle /\ screen = "locator"
  /\ Obeys("locate", FALSE)
  /\ UNCHANGED <<wire, session, link, resend, kickoff, hunting, scene, pc, job, resets>>

\* The Locator's on_exit: `stop`, and the hunt is over; the link stays.
LeaveLocator ==
  /\ Idle /\ screen = "locator"
  /\ hunting' = FALSE
  /\ Shows(back, "idle") /\ Obeys("idle", FALSE)
  /\ UNCHANGED <<wire, session, link, resend, kickoff, under, back, job, resets>>

\* scan_session_stop(), up to its 350 ms wait: the survey is asked for a last time.
Drain(s, j) ==
  /\ Shows(s, "drain") /\ job' = j
  /\ IF up THEN Line("other") ELSE UNCHANGED wire
  /\ UNCHANGED <<board, session, link, resend, kickoff, hunting, under, back, resets>>

Leave ==
  /\ Idle
  /\ screen \in {"preflight", "picker"} \/ (screen = "detect" /\ under = "menu")
  /\ \/ session /\ Drain("menu", "menu")
     \/ /\ ~session /\ Shows("menu", "idle")
        /\ UNCHANGED <<board, wire, session, link, resend, kickoff, hunting, under, back,
                       job, resets>>

\* Preflight's Retry and Detect: the session is closed and opened anew.
Retry == Idle /\ screen = "preflight" /\ Drain("preflight", "retry")
DetectNow == Idle /\ screen = "preflight" /\ Drain("preflight", "detect")

\* ... and its end: `stop`, and the port is given back with what was unread.
CloseSession ==
  /\ pc = "drain"
  /\ session' = FALSE /\ rx' = <<>>
  /\ Obeys("idle", FALSE)
  /\ pc' = (IF job = "menu" THEN "idle" ELSE "reopen")
  /\ job' = (IF job = "menu" THEN "none" ELSE job)
  /\ UNCHANGED <<link, resend, kickoff, hunting, scene, resets, drops, deaf>>

Reopen ==
  /\ pc = "reopen"
  /\ Opened
  /\ IF job = "retry"
     THEN Shows("preflight", "kick") /\ connected' = FALSE /\ UNCHANGED under
     ELSE Shows("detect", "fresh") /\ under' = "preflight" /\ UNCHANGED connected
  /\ job' = "none"
  /\ UNCHANGED <<hunting, back>>

-----------------------------------------------------------------------------
Handler == KickFresh \/ Kick \/ Aim \/ CloseSession \/ Reopen

Next ==
  \/ Boot \/ Reset \/ Speak \/ Clock \/ Receive
  \/ TickResend \/ TickLiveness \/ SurveyPoll \/ Rearm
  \/ EnterScan \/ EnterPreflight \/ OpenDetail \/ OpenPicker \/ BackToList \/ BackToPreflight
  \/ Pick \/ LockIn \/ LeaveLocator \/ Leave \/ Retry \/ DetectNow
  \/ KickFresh \/ Kick \/ Aim \/ CloseSession \/ Reopen

Spec == Init /\ [][Next]_vars

\* The worker runs when it has something to read, time passes, a handler that has begun
\* ends, and the tick comes round every 250 ms whatever is pressed: it is disabled for
\* the length of a handler, over and over, so it is strong.
Fairness ==
  /\ WF_vars(Receive) /\ WF_vars(Clock)
  /\ WF_vars(Handler) /\ WF_vars(TickLiveness)
  /\ SF_vars(TickResend) /\ SF_vars(Rearm)

FairSpec == Spec /\ Fairness

=============================================================================
