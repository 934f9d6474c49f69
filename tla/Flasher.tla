------------------------------- MODULE Flasher -------------------------------
(***************************************************************************)
(* The firmware screen: a plugin mapped into the memory the detection      *)
(* tables give up, a worker thread that runs the plugin's code against the *)
(* ESP's ROM loader, and the GUI thread that may be asked to leave at any  *)
(* moment.  A lack of heap that halts the Flipper is not modelled.         *)
(***************************************************************************)
EXTENDS Integers

CONSTANTS
  Attempts,   \* sync attempts of one connect
  Blocks,     \* blocks of an image, chunks of a backup
  Tries       \* reads of one chunk before it is given up

ASSUME FlasherAssumption == {Attempts, Blocks, Tries} \subseteq Nat \ {0}

VARIABLES
  fw_op, plugin, tables,     \* "backup" or "flash"; g_fw_plugin; the tables are held
  page, leaving,             \* "menu" or "run"; how far on_exit has got
  thread, at,                \* fw_thread; where its worker is
  fw_running, fw_writing, fw_ok,
  s_abort,
  tried, moved, result,      \* attempts or reads so far; blocks done; what the call returns
  chip, image,               \* what the flash holds; the backup's file
  md5                        \* "none", "match", "mismatch", "unanswered"

worker == <<at, tried, moved, result, chip, image, md5>>
flasher_vars == <<fw_op, plugin, tables, page, leaving, thread, fw_running, fw_writing, fw_ok,
                  s_abort, worker>>

FlasherInit ==
  /\ fw_op = "backup" /\ plugin = FALSE /\ tables = TRUE
  /\ page = "menu" /\ leaving = "no"
  /\ thread = "none" /\ at = "none"
  /\ fw_running = FALSE /\ fw_writing = FALSE /\ fw_ok = FALSE /\ s_abort = FALSE
  /\ tried = 0 /\ moved = 0 /\ result = FALSE
  /\ chip = "old" /\ image = "none" /\ md5 = "none"

-----------------------------------------------------------------------------
(* The GUI thread.                                                         *)

(* plugin_host_load(): the one file, in any of the places it may be, with  *)
(* an entry point.                                                         *)
plugin_host_load == plugin' \in BOOLEAN

(* recon_scene_firmware_run_on_enter(): the tables go first.  Without the  *)
(* memory or the plugin the screen says so and no thread is started.       *)
Enter ==
  /\ page = "menu"
  /\ page' = "run" /\ tables' = FALSE
  /\ fw_op' \in {"backup", "flash"}
  /\ plugin_host_load
  /\ fw_running' = plugin' /\ fw_ok' = FALSE
  /\ fw_writing' = (fw_writing /\ ~plugin')
  /\ thread' = IF plugin' THEN "alive" ELSE "none"
  /\ at' = IF plugin' THEN "alloc" ELSE "none"
  /\ s_abort' = FALSE
  /\ tried' = 0 /\ moved' = 0 /\ result' = FALSE /\ md5' = "none" /\ image' = "none"
  /\ UNCHANGED <<leaving, chip>>

(* A press of Back while flash is being written is swallowed.              *)
Back ==
  /\ page = "run" /\ leaving = "no" /\ ~(fw_running /\ fw_writing)
  /\ leaving' = "asked"
  /\ UNCHANGED <<fw_op, plugin, tables, page, thread, fw_running, fw_writing, fw_ok, s_abort,
                 worker>>

(* recon_scene_firmware_run_on_exit(), up to the join ...                  *)
Abort ==
  /\ leaving = "asked"
  /\ leaving' = "joining"
  /\ s_abort' = (s_abort \/ thread # "none")
  /\ UNCHANGED <<fw_op, plugin, tables, page, thread, fw_running, fw_writing, fw_ok,
                 worker>>

(* Seeded defect: the plugin is unmapped and the tables come back while    *)
(* the worker is still to be joined.                                       *)
LeaveUnjoined ==
  /\ leaving = "joining"
  /\ leaving' = "no" /\ page' = "menu"
  /\ thread' = thread /\ plugin' = FALSE /\ tables' = TRUE
  /\ UNCHANGED <<fw_op, fw_running, fw_writing, fw_ok, s_abort, worker>>

(* ... and from there on.                                                  *)
Leave ==
  /\ leaving = "joining" /\ thread # "alive"
  /\ leaving' = "no" /\ page' = "menu"
  /\ thread' = "none" /\ plugin' = FALSE /\ tables' = TRUE
  /\ UNCHANGED <<fw_op, fw_running, fw_writing, fw_ok, s_abort, worker>>

-----------------------------------------------------------------------------
(* fw_worker().                                                            *)

Gui == <<fw_op, plugin, tables, page, leaving>>
Worker(a) == thread = "alive" /\ at = a
Told == <<thread, fw_running, fw_ok, fw_writing, s_abort>>

(* esp_flasher_alloc(): the UART may be taken.  The abort flag is cleared. *)
esp_flasher_alloc ==
  /\ Worker("alloc")
  /\ \/ s_abort' = FALSE /\ at' = "connect"
     \/ UNCHANGED s_abort /\ at' = "end"
  /\ UNCHANGED <<Gui, thread, fw_running, fw_ok, fw_writing, tried, moved, result, chip, image,
                 md5>>

(* esp_flasher_connect(): the flag is looked at before an attempt ...      *)
Connect ==
  /\ Worker("connect")
  /\ at' = IF s_abort THEN "free" ELSE "sync"
  /\ UNCHANGED <<Gui, Told, tried, moved, result, chip, image, md5>>

(* ... which synchronises, and for a flash may change the rate, or does    *)
(* not; a rate the ESP refuses ends it.                                    *)
Sync ==
  /\ Worker("sync")
  /\ \/ at' = (IF fw_op = "backup" THEN "create" ELSE "begin") /\ tried' = 0
     \/ fw_op = "flash" /\ at' = "free" /\ UNCHANGED tried
     \/ /\ tried' = tried + 1
        /\ at' = IF tried' = Attempts THEN "free" ELSE "connect"
  /\ UNCHANGED <<Gui, Told, moved, result, chip, image, md5>>

(* Back is locked from here to the end of the write.                       *)
BeginWrite ==
  /\ Worker("begin")
  /\ fw_writing' = TRUE /\ at' = "erase"
  /\ UNCHANGED <<Gui, thread, fw_running, fw_ok, s_abort, tried, moved, result, chip, image, md5>>

(* esp_flasher_flash_file(): the image opened and the chip erased, or an   *)
(* answer to the erase that never came.                                    *)
Erase ==
  /\ Worker("erase")
  /\ \/ at' = "unlock" /\ chip' \in {chip, "erased"}
     \/ at' = "block" /\ chip' = "erased"
  /\ UNCHANGED <<Gui, Told, tried, moved, result, image, md5>>

(* One block: the flag, a card that reads short and a write the ESP does   *)
(* not acknowledge each end it.  What was acknowledged may still be wrong  *)
(* on the chip.                                                            *)
Block ==
  /\ Worker("block") /\ moved < Blocks
  /\ \/ at' = "unlock" /\ UNCHANGED <<moved, chip>>
     \/ /\ ~s_abort /\ moved' = moved + 1
        /\ chip' \in IF chip = "garbled" THEN {"garbled"} ELSE {"partial", "garbled"}
        /\ UNCHANGED at
  /\ UNCHANGED <<Gui, Told, tried, result, image, md5>>

(* Seeded defect: any answer to the MD5 will do.                           *)
VerifyAny ==
  /\ Worker("block") /\ moved = Blocks
  /\ chip' = IF chip = "partial" THEN "image" ELSE chip
  /\ md5' \in {"unanswered", IF chip = "garbled" THEN "mismatch" ELSE "match"}
  /\ result' = TRUE
  /\ at' = "unlock"
  /\ UNCHANGED <<Gui, Told, tried, moved, image>>

(* The MD5 of what is on the chip, which not every ROM answers; only a     *)
(* mismatch fails the flash.                                               *)
Verify ==
  /\ Worker("block") /\ moved = Blocks
  /\ chip' = IF chip = "partial" THEN "image" ELSE chip
  /\ md5' \in {"unanswered", IF chip = "garbled" THEN "mismatch" ELSE "match"}
  /\ result' = (md5' # "mismatch")
  /\ at' = "unlock"
  /\ UNCHANGED <<Gui, Told, tried, moved, image>>

Unlock ==
  /\ Worker("unlock")
  /\ fw_writing' = FALSE /\ at' = "free"
  /\ UNCHANGED <<Gui, thread, fw_running, fw_ok, s_abort, tried, moved, result, chip, image, md5>>

(* esp_flasher_backup(): the flash's size asked and the file created.      *)
Create ==
  /\ Worker("create")
  /\ \/ at' = "free" /\ UNCHANGED image
     \/ at' = "chunk" /\ image' = "partial"
  /\ UNCHANGED <<Gui, Told, tried, moved, result, chip, md5>>

(* One chunk, with its retries: the flag, a card that does not take it and *)
(* a read that fails to the last end it.                                   *)
Chunk ==
  /\ Worker("chunk") /\ moved < Blocks
  /\ \/ at' = "remove" /\ UNCHANGED <<tried, moved, image>>
     \/ /\ ~s_abort /\ moved' = moved + 1 /\ tried' = 0
        /\ image' = IF moved' = Blocks THEN "whole" ELSE image
        /\ UNCHANGED at
     \/ /\ ~s_abort /\ tried' = tried + 1
        /\ at' = IF tried' = Tries THEN "remove" ELSE at
        /\ UNCHANGED <<moved, image>>
  /\ UNCHANGED <<Gui, Told, result, chip, md5>>

BackedUp ==
  /\ Worker("chunk") /\ moved = Blocks
  /\ result' = TRUE /\ at' = "free"
  /\ UNCHANGED <<Gui, Told, tried, moved, chip, image, md5>>

(* A partial image is deleted, if the card lets it be.                     *)
Discard ==
  /\ Worker("remove")
  /\ image' \in {"none", "partial"} /\ at' = "free"
  /\ UNCHANGED <<Gui, Told, tried, moved, result, chip, md5>>

(* esp_flasher_free(), and the worker's last words.                        *)
Free ==
  /\ Worker("free") /\ at' = "end"
  /\ UNCHANGED <<Gui, Told, tried, moved, result, chip, image, md5>>

End ==
  /\ Worker("end")
  /\ fw_ok' = result /\ fw_running' = FALSE
  /\ thread' = "ended" /\ at' = "none"
  /\ UNCHANGED <<Gui, fw_writing, s_abort, tried, moved, result, chip, image, md5>>

fw_worker ==
  \/ esp_flasher_alloc \/ Connect \/ Sync \/ BeginWrite \/ Erase \/ Block \/ Verify \/ Unlock
  \/ Create \/ Chunk \/ BackedUp \/ Discard \/ Free \/ End

on_exit == Abort \/ Leave

FlasherNext == Enter \/ Back \/ on_exit \/ fw_worker

FlasherSpec == FlasherInit /\ [][FlasherNext]_flasher_vars
=============================================================================
