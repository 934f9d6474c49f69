------------------------------ MODULE Readiness ------------------------------
(***************************************************************************)
(* Preflight: is a session without a hit empty, or broken?  The evidence a *)
(* board gives of itself, asked for again while it is missing, the         *)
(* session's frame counter with its base in the board's lifetime total,    *)
(* and the verdict.  A tick is a second; the worker applies a line as it   *)
(* arrives, and a line may be lost.                                        *)
(***************************************************************************)
EXTENDS Integers, FiniteSets

CONSTANTS
  Units,      \* boards: [proto, sig, test]; each "good", "bad" or "none"
  Patience,   \* RECON_PREFLIGHT_GRACE_MS
  Query,      \* between two rounds of questions
  MaxTotal,   \* frames a board captures before it is restarted
  Width,      \* what the counters are counted modulo
  MaxLost,    \* lines and heartbeats lost
  MaxBoots,   \* restarts, of the same board or another
  MaxScans

ASSUME ReadinessAssumption ==
  /\ {Patience, Query, MaxTotal, Width} \subseteq Nat \ {0} /\ MaxTotal < Width
  /\ MaxBoots \in Nat
  /\ \A u \in Units : {u.proto, u.sig, u.test} \subseteq {"good", "bad", "none"}

VARIABLES
  unit, total, pending,      \* the board, its lifetime total, what it has yet to say
  backend, screen, under,    \* "companion" or "generic"; the scene and the one below
  link_state,                \* "closed", "running", "busy"
  alive,                     \* esp_connected
  evidence,                  \* [proto, sig, test]: "none", "good" or "bad"
  frames, frames_base, rebase, reboots,
  elapsed, query,            \* since preflight_started_tick, preflight_last_query_tick
  rebooted, since, proved,   \* history: boots, frames and proofs of this session
  losses, boots, scans

air == <<unit, total, pending>>
counters == <<frames, frames_base, rebase, reboots>>
past == <<rebooted, since, proved>>
budget == <<losses, boots, scans>>
ready_vars == <<air, backend, screen, under, link_state, alive, evidence, counters,
                elapsed, query, past, budget>>

Layers == {"proto", "sig", "test"}
Nothing == [e \in Layers |-> "none"]

ReadyInit ==
  /\ unit \in Units /\ total = 0 /\ pending = {}
  /\ backend \in {"companion", "generic"} /\ screen = "menu" /\ under = "menu"
  /\ link_state = "closed" /\ alive = FALSE /\ evidence = Nothing
  /\ frames = 0 /\ frames_base = 0 /\ rebase = FALSE /\ reboots = 0
  /\ elapsed = 0 /\ query = 0
  /\ rebooted = 0 /\ since = 0 /\ proved = {}
  /\ losses = 0 /\ boots = 0 /\ scans = 0

-----------------------------------------------------------------------------
(* recon_preflight_evaluate().                                             *)

Listening == link_state = "running" /\ alive
Contradicted == \E e \in Layers : evidence[e] = "bad"
AllProved == \A e \in Layers : evidence[e] = "good"

(* Nothing that was read wrong is waited out; ready wants proof of every   *)
(* layer; a board too old to give it, but capturing, is limited.           *)
recon_preflight_evaluate ==
  IF link_state = "busy" THEN "failed"
  ELSE IF backend = "companion" /\ Contradicted THEN "failed"
  ELSE IF backend = "companion" /\ Listening /\ AllProved /\ frames > 0 THEN "ready"
  ELSE IF backend = "generic" /\ Listening THEN "limited"
  ELSE IF elapsed < Patience THEN "waiting"
  ELSE IF Listening /\ evidence.proto = "good" /\ frames > 0 THEN "limited" ELSE "failed"

Passes == recon_preflight_evaluate \in {"ready", "limited"}

-----------------------------------------------------------------------------
(* The board.                                                              *)

Capture ==
  /\ total < MaxTotal
  /\ total' = total + 1
  /\ since' = IF link_state = "running" /\ ~rebase THEN since + 1 ELSE since
  /\ UNCHANGED <<unit, pending, backend, screen, under, link_state, alive, evidence,
                 counters, elapsed, query, rebooted, proved, budget>>

(* It restarts, or another takes its place: the total starts over, and it  *)
(* says who it is.                                                         *)
Restart ==
  /\ boots < MaxBoots /\ boots' = boots + 1
  /\ unit' \in Units /\ total' = 0
  /\ pending' = {"proto", "sig"}
  /\ rebooted' = IF link_state = "running" /\ ~rebase THEN rebooted + 1 ELSE rebooted
  /\ UNCHANGED <<backend, screen, under, link_state, alive, evidence, counters,
                 elapsed, query, since, proved, losses, scans>>

(* recon_app_set_esp_proto(), _sig_revision(), _sigtest(): the last word   *)
(* of each kind counts.  An old board's banner has no version, and it      *)
(* answers no question it does not know.                                   *)
Learn(e) ==
  IF unit[e] = "none" THEN UNCHANGED <<evidence, proved>>
  ELSE /\ evidence' = [evidence EXCEPT ![e] = unit[e]]
       /\ proved' = IF unit[e] = "good" THEN proved \cup {e} ELSE proved \ {e}

(* A line of the companion's: part of its banner, or an answer.            *)
Say(e) ==
  /\ e \in pending /\ pending' = pending \ {e}
  /\ \/ /\ link_state = "running" /\ backend = "companion"
        /\ Learn(e) /\ alive' = TRUE /\ UNCHANGED losses
     \/ /\ link_state = "running" => losses < MaxLost
        /\ losses' = IF link_state = "running" THEN losses + 1 ELSE losses
        /\ UNCHANGED <<evidence, proved, alive>>
  /\ UNCHANGED <<unit, total, backend, screen, under, link_state, counters, elapsed, query,
                 rebooted, since, boots, scans>>

(* Seeded defect: a total that fell is taken for one that rose.            *)
StatusUnfallen ==
  LET base == IF rebase THEN total ELSE frames_base
  IN  /\ frames_base' = base
      /\ reboots' = reboots
      /\ frames' = (total - base) % Width

(* recon_app_set_esp_status(): the first total of a session is its base,   *)
(* and so is one below the base, which only a restart explains.            *)
recon_app_set_esp_status ==
  LET base == IF rebase THEN total ELSE frames_base
      fell == total < base
  IN  /\ frames_base' = IF fell THEN total ELSE base
      /\ reboots' = IF fell THEN reboots + 1 ELSE reboots
      /\ frames' = (total - frames_base') % Width

(* Once a second, from either kind of firmware; a banner comes first.      *)
Status ==
  /\ link_state = "running" /\ pending \cap {"proto", "sig"} = {}
  /\ alive' = TRUE
  /\ IF backend = "companion"
     THEN /\ recon_app_set_esp_status /\ rebase' = FALSE
          /\ proved' = IF frames' > 0 THEN proved \cup {"frames"} ELSE proved
     ELSE UNCHANGED <<counters, proved>>
  /\ UNCHANGED <<air, backend, screen, under, link_state, evidence, elapsed, query,
                 rebooted, since, budget>>

(* recon_app_liveness_tick(), of a link gone quiet for long enough.        *)
Silence ==
  /\ alive /\ link_state = "running" /\ losses < MaxLost
  /\ alive' = FALSE /\ losses' = losses + 1
  /\ UNCHANGED <<air, backend, screen, under, link_state, evidence, counters, elapsed, query,
                 past, boots, scans>>

-----------------------------------------------------------------------------
(* The scenes.                                                             *)

(* esp_link_send() does nothing on a port that was refused.                *)
AskBoard(questions) ==
  pending' =
    IF link_state' = "running" /\ backend = "companion" THEN pending \cup questions ELSE pending

(* A session opened: preflight_reset_health() before it, or what the       *)
(* detection scene clears after it.                                        *)
scan_session_start ==
  /\ scans < MaxScans /\ scans' = scans + 1
  /\ link_state' \in {"running", "busy"} /\ alive' = FALSE
  /\ frames' = 0 /\ reboots' = 0 /\ rebase' = TRUE
  /\ rebooted' = 0 /\ since' = 0
  /\ UNCHANGED <<frames_base, losses, boots>>

(* Seeded defect: what the last board proved is kept.                      *)
HealthKept == UNCHANGED evidence

preflight_reset_health == evidence' = Nothing

(* preflight_begin() from the menu, and again on Retry.                    *)
preflight_begin ==
  /\ screen \in {"menu", "preflight"}
  /\ screen' = "preflight"
  /\ scan_session_start /\ preflight_reset_health /\ proved' = {}
  /\ elapsed' = 0 /\ query' = 0
  /\ AskBoard({"test"})
  /\ UNCHANGED <<unit, total, backend, under>>

(* ... and on the way back from the list, whose session goes on.           *)
Return ==
  /\ screen = "flock" /\ under = "preflight"
  /\ screen' = "preflight" /\ under' = "menu"
  /\ elapsed' = 0 /\ query' = 0
  /\ UNCHANGED link_state /\ AskBoard({"test"})
  /\ UNCHANGED <<unit, total, backend, alive, evidence, counters, past, budget>>

(* Detect, which is there only on a verdict that passes, ends the session  *)
(* and the detection scene opens its own; or that scene from the menu.     *)
Detect ==
  /\ \/ screen = "preflight" /\ Passes
     \/ screen = "menu"
  /\ screen' = "flock" /\ under' = screen
  /\ scan_session_start
  /\ proved' = proved \ {"frames"}
  /\ UNCHANGED <<air, backend, evidence, elapsed, query>>

(* The main menu ends whatever session there is.                           *)
Menu ==
  /\ screen # "menu" /\ ~(screen = "flock" /\ under = "preflight")
  /\ screen' = "menu" /\ under' = "menu"
  /\ link_state' = "closed"
  /\ UNCHANGED <<air, backend, alive, evidence, counters, elapsed, query, past, budget>>

(* Seeded defect: a board is asked once.                                   *)
QueriesOnce == {}

(* What is asked again: everything, while anything is missing.             *)
Queries ==
  IF backend = "companion" /\ \E e \in Layers : evidence[e] = "none"
  THEN Layers ELSE {}

(* The scene's tick.                                                       *)
Second ==
  /\ screen = "preflight" /\ (elapsed < Patience \/ Queries # {})
  /\ elapsed' = IF elapsed < Patience THEN elapsed + 1 ELSE elapsed
  /\ UNCHANGED link_state
  /\ IF query + 1 >= Query /\ Queries # {}
     THEN AskBoard(Queries) /\ query' = 0
     ELSE UNCHANGED pending /\ query' = IF query < Query THEN query + 1 ELSE query
  /\ UNCHANGED <<unit, total, backend, screen, under, alive, evidence, counters,
                 past, budget>>

ReadyNext ==
  \/ Capture \/ Restart \/ (\E e \in Layers : Say(e)) \/ Status \/ Silence
  \/ preflight_begin \/ Return \/ Detect \/ Menu \/ Second

ReadySpec ==
  /\ ReadyInit /\ [][ReadyNext]_ready_vars
  /\ \A e \in Layers : WF_ready_vars(Say(e))
  /\ WF_ready_vars(Status) /\ WF_ready_vars(Second)
=============================================================================
