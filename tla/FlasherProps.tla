---------------------------- MODULE FlasherProps ----------------------------
(***************************************************************************)
(* What the firmware screen promises the chip, the card and the operator.  *)
(***************************************************************************)
EXTENDS Flasher

(* The screen keeps its shape.                                             *)
FlasherTypeOK ==
  /\ fw_op \in {"backup", "flash"} /\ page \in {"menu", "run"}
  /\ leaving \in {"no", "asked", "joining"} /\ thread \in {"none", "alive", "ended"}
  /\ at \in {"none", "alloc", "connect", "sync", "begin", "erase", "block", "unlock", "create",
             "chunk", "remove", "free", "end"}
  /\ tried \in 0..(Attempts + Tries) /\ moved \in 0..Blocks
  /\ chip \in {"old", "erased", "partial", "garbled", "image"}
  /\ image \in {"none", "partial", "whole"}
  /\ md5 \in {"none", "match", "mismatch", "unanswered"}

(* The worker runs code that lives in the plugin, in the memory the tables *)
(* gave up: the one stays and the others stay away as long as it runs,     *)
(* whenever Back was pressed.  (recon_scene_firmware_run.c:322)            *)
PluginOutlivesWorker == thread = "alive" => plugin /\ ~tables

(* DONE says what happened: a backup is whole, a flash has every block on  *)
(* the chip, and what the chip was able to contradict was not reported as  *)
(* done.  (esp_flasher.c:315)                                              *)
DoneIsTrue ==
  fw_ok =>
    IF fw_op = "backup" THEN image = "whole"
    ELSE chip = "image" \/ (chip = "garbled" /\ md5 = "unanswered")
=============================================================================
