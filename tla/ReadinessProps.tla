--------------------------- MODULE ReadinessProps ---------------------------
(***************************************************************************)
(* What the readiness screen and the session's counters may claim.         *)
(***************************************************************************)
EXTENDS Readiness

(* The screen's evidence and counters keep their shape.                    *)
ReadyTypeOK ==
  /\ link_state \in {"closed", "running", "busy"} /\ screen \in {"menu", "preflight", "flock"}
  /\ evidence \in [Layers -> {"none", "good", "bad"}]
  /\ frames \in 0..(Width - 1) /\ reboots \in 0..MaxBoots /\ total \in 0..MaxTotal
  /\ pending \subseteq Layers
  /\ elapsed \in 0..Patience /\ query \in 0..Query

(* READY rests on proofs received since the health was last reset, of      *)
(* every layer, and on frames captured in this very session: nothing of an *)
(* earlier board's, or of the session before a retry, is left in it.       *)
(* (preflight.c:31)                                                        *)
ReadyIsProved ==
  recon_preflight_evaluate = "ready" => proved = {"proto", "sig", "test", "frames"}

(* The count on the screen never exceeds what the boards captured since    *)
(* the session's first status line, however often they restarted, and a    *)
(* reboot that is shown did happen.  (recon_app.c:413)                     *)
CountIsHonest == link_state = "running" => frames <= since /\ reboots <= rebooted

(* A good board that captures is found ready in the end: a question or an  *)
(* answer that was lost is made up for.  What an earlier board contradicted *)
(* stands until Retry.  (recon_scene_preflight.c:365)                      *)
HealthyIsReady ==
  ~<>[](/\ screen = "preflight" /\ link_state = "running" /\ backend = "companion"
        /\ (\A e \in Layers : unit[e] = "good") /\ total > frames_base
        /\ ~Contradicted
        /\ recon_preflight_evaluate # "ready")
=============================================================================
