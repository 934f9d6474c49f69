----------------------------- MODULE SurveyCard -----------------------------
(***************************************************************************)
(* What becomes of a survey: the snapshot rewritten while a session runs   *)
(* and when it ends, the log with a group of rows for each session, and    *)
(* the ranked list whose rows can be taught.                               *)
(***************************************************************************)
EXTENDS Integers, SequencesExt

CONSTANTS
  SurveyRows,        \* rows the companion may report: [mac, fp, rssi, count]
  GenericShapes,     \* fingerprints every phone shares
  UINT16_MAX,        \* a count's greatest value
  LogMax,            \* RECON_SURVEY_LOG_MAX, in sessions
  MaxHeard,          \* rows of a session
  MaxSessions,
  MaxBadWrites       \* writes refused or cut short, by the card or the battery

ASSUME CardAssumption ==
  /\ UINT16_MAX \in Nat /\ LogMax \in Nat \ {0}
  /\ MaxHeard \in Nat /\ MaxSessions \in Nat /\ MaxBadWrites \in Nat
  /\ \A r \in SurveyRows : r.rssi \in -128..127 /\ r.count \in 1..UINT16_MAX

VARIABLES
  at_scene,      \* "menu", "scan", "survey" or "detail"; a session runs in "scan" only
  rows_heard,    \* app->survey
  session,       \* survey_session_epoch
  autosaved,     \* survey_last_autosave: "never", "lately" or "long ago"
  survey_csv,    \* [session, how many rows], NoFile or CutFile
  survey_log,    \* groups [session, how many rows, torn]
  survey_log_old,
  survey_menu_idx,
  on_screen,     \* the address the detail screen was drawn with
  filed,         \* the sessions whose group was begun, in order
  bad_writes

card_vars ==
  <<at_scene, rows_heard, session, autosaved, survey_csv, survey_log, survey_log_old,
    survey_menu_idx, on_screen, filed, bad_writes>>
on_card == <<survey_csv, survey_log, survey_log_old, filed, bad_writes>>
shown == <<survey_menu_idx, on_screen>>

NoFile == [session |-> 0, rows |-> 0]
CutFile == [session |-> -1, rows |-> 0]

CardInit ==
  /\ at_scene = "menu" /\ rows_heard = <<>> /\ session = 0 /\ autosaved = "never"
  /\ survey_csv = NoFile /\ survey_log = <<>> /\ survey_log_old = <<>>
  /\ survey_menu_idx = 0 /\ on_screen = "none"
  /\ filed = <<>> /\ bad_writes = 0

-----------------------------------------------------------------------------
(* The session.                                                            *)

StartSession ==
  /\ at_scene = "menu" /\ session < MaxSessions
  /\ at_scene' = "scan" /\ session' = session + 1 /\ rows_heard' = <<>>
  /\ UNCHANGED <<autosaved, on_card, shown>>

(* A row from a dump: a new one, or what is now known of an old one.       *)
RowArrives(r) ==
  /\ at_scene = "scan"
  /\ LET own == {i \in DOMAIN rows_heard : rows_heard[i].mac = r.mac} IN
     \/ own = {} /\ Len(rows_heard) < MaxHeard /\ rows_heard' = Append(rows_heard, r)
     \/ \E i \in own :
          rows_heard[i].count < r.count /\ rows_heard' = [rows_heard EXCEPT ![i] = r]
  /\ UNCHANGED <<at_scene, session, autosaved, on_card, shown>>

(* RECON_SURVEY_AUTOSAVE_MS have passed.                                   *)
AutosaveDue ==
  /\ autosaved = "lately" /\ autosaved' = "long ago"
  /\ UNCHANGED <<at_scene, rows_heard, session, on_card, shown>>

Snapshot == [session |-> session, rows |-> Len(rows_heard)]

(* The file is truncated, then written; neither result is looked at.       *)
WriteSnapshot ==
  \/ survey_csv' = Snapshot /\ UNCHANGED bad_writes
  \/ /\ bad_writes < MaxBadWrites /\ bad_writes' = bad_writes + 1
     /\ survey_csv' \in {survey_csv, CutFile}

(* Before any row there is nothing to save; the first tick with rows only  *)
(* starts the clock, which no session resets.                              *)
recon_survey_autosave_tick ==
  /\ at_scene = "scan" /\ rows_heard # <<>> /\ autosaved # "lately"
  /\ autosaved' = "lately"
  /\ IF autosaved = "never" THEN UNCHANGED <<survey_csv, bad_writes>> ELSE WriteSnapshot
  /\ UNCHANGED <<at_scene, rows_heard, session, survey_log, survey_log_old, filed, shown>>

(* A full log becomes the old one before it is added to.  The old one is   *)
(* removed first, and where either step fails the log goes on growing.     *)
Rotations ==
  IF Len(survey_log) < LogMax
    THEN {[log |-> survey_log, old |-> survey_log_old, bad |-> 0]}
    ELSE {[log |-> <<>>, old |-> survey_log, bad |-> 0],
          [log |-> survey_log, old |-> <<>>, bad |-> 1],
          [log |-> survey_log, old |-> survey_log_old, bad |-> 1]}

(* A group cut short ends inside a line, which the next group continues,   *)
(* losing its first row.                                                   *)
Group(log) ==
  [session |-> session, torn |-> FALSE,
   rows |-> Len(rows_heard) - (IF log # <<>> /\ Last(log).torn THEN 1 ELSE 0)]
TornGroup == [session |-> session, torn |-> TRUE, rows |-> 0]

recon_survey_log_append(bad) ==
  IF rows_heard = <<>> THEN UNCHANGED <<survey_log, survey_log_old, filed>> /\ bad_writes' = bad
  ELSE \E r \in Rotations :
    /\ survey_log_old' = r.old
    /\ \/ survey_log' = Append(r.log, Group(r.log)) /\ bad_writes' = bad + r.bad
       \/ survey_log' = Append(r.log, TornGroup) /\ bad_writes' = bad + r.bad + 1
       \/ survey_log' = r.log /\ bad_writes' = bad + r.bad + 1
    /\ filed' = IF survey_log' = r.log THEN filed ELSE Append(filed, session)
    /\ bad_writes' <= MaxBadWrites

(* scan_session_stop(), on entry to the main menu: the snapshot, rows or   *)
(* none, then the log.                                                     *)
StopSession ==
  /\ at_scene = "scan"
  /\ at_scene' = "menu"
  /\ \/ survey_csv' = Snapshot /\ recon_survey_log_append(bad_writes)
     \/ /\ bad_writes < MaxBadWrites
        /\ survey_csv' \in {survey_csv, CutFile}
        /\ recon_survey_log_append(bad_writes + 1)
  /\ UNCHANGED <<rows_heard, session, autosaved, shown>>

(* The battery dies, between writes or in one.                             *)
CardPowerLoss ==
  /\ bad_writes < MaxBadWrites
  /\ \/ /\ survey_csv' \in {survey_csv} \cup {c \in {CutFile} : at_scene = "scan"}
        /\ bad_writes' = bad_writes + 1
        /\ UNCHANGED <<survey_log, survey_log_old, filed>>
     \/ /\ at_scene = "scan"
        /\ survey_csv' = Snapshot
        /\ recon_survey_log_append(bad_writes + 1)
  /\ at_scene' = "menu" /\ rows_heard' = <<>> /\ autosaved' = "never" /\ survey_menu_idx' = 0
  /\ on_screen' = "none"
  /\ UNCHANGED session

(* The operator leaves the app and comes back, or the flasher has needed   *)
(* the room of the tables.                                                 *)
TablesGone ==
  /\ at_scene = "menu" /\ rows_heard # <<>> /\ rows_heard' = <<>>
  /\ autosaved' \in {autosaved, "never"}
  /\ UNCHANGED <<at_scene, session, on_card, shown>>

-----------------------------------------------------------------------------
(* The ranked list.                                                        *)

GenericRow(r) == r.fp \in GenericShapes
Rotating(rows, i) ==
  /\ rows[i].fp # 0
  /\ \E j \in DOMAIN rows : rows[j].fp = rows[i].fp /\ rows[j].mac # rows[i].mac

(* Seeded defect: the scale is set by whatever was heard most.             *)
BusiestOfAll(rows) ==
  LET counts == {0} \cup {rows[i].count : i \in DOMAIN rows}
  IN  CHOOSE c \in counts : \A d \in counts : d <= c

(* The count that sets the scale: no commodity shape's.                    *)
Busiest(rows) ==
  LET counts == {0} \cup {rows[i].count : i \in {k \in DOMAIN rows : ~GenericRow(rows[k])}}
  IN  CHOOSE c \in counts : \A d \in counts : d <= c

(* Out of 100: 45 for persistence, 35 for closeness between -90 and -55    *)
(* dBm, 20 for one shape on several addresses.                             *)
Score(rows, i) ==
  LET r == rows[i]
      persistence == (r.count * 45) \div Busiest(rows)
      above == r.rssi + 90
      closeness == IF above <= 0 THEN 0 ELSE IF above > 35 THEN 35 ELSE above
  IN  IF GenericRow(r) THEN 0
      ELSE persistence + closeness + (IF Rotating(rows, i) THEN 20 ELSE 0)

(* The better score goes first, and of equal ones the earlier in the table. *)
Ahead(rows, i, k) ==
  Score(rows, i) > Score(rows, k) \/ (Score(rows, i) = Score(rows, k) /\ i < k)

(* The list's places, each with the position in the table of the row that  *)
(* has as many rows ahead of it.                                           *)
survey_rank(rows) ==
  [place \in 1..Cardinality(DOMAIN rows) |->
     CHOOSE i \in DOMAIN rows :
       Cardinality({k \in DOMAIN rows : Ahead(rows, k, i)}) = place - 1]

OpenSurvey ==
  /\ at_scene = "menu" /\ at_scene' = "survey"
  /\ UNCHANGED <<rows_heard, session, autosaved, on_card, shown>>

(* survey_detail_row(): the row by its index, unless it is gone.           *)
RowShown(i) == IF i \in DOMAIN rows_heard THEN rows_heard[i].mac ELSE "none"

(* The item's place in the list gives its place in the table.              *)
PickRow ==
  /\ at_scene = "survey"
  /\ \E k \in DOMAIN rows_heard :
       /\ survey_menu_idx' = survey_rank(rows_heard)[k]
       /\ on_screen' = RowShown(survey_menu_idx')
  /\ at_scene' = "detail"
  /\ UNCHANGED <<rows_heard, session, autosaved, on_card>>

SurveyBack ==
  /\ at_scene \in {"survey", "detail"}
  /\ at_scene' = IF at_scene = "detail" THEN "survey" ELSE "menu"
  /\ survey_menu_idx' = 0 /\ on_screen' = "none"
  /\ UNCHANGED <<rows_heard, session, autosaved, on_card>>

CardNext ==
  \/ StartSession \/ (\E r \in SurveyRows : RowArrives(r)) \/ AutosaveDue
  \/ recon_survey_autosave_tick \/ StopSession \/ CardPowerLoss \/ TablesGone
  \/ OpenSurvey \/ PickRow \/ SurveyBack

CardSpec == CardInit /\ [][CardNext]_card_vars

-----------------------------------------------------------------------------
(* What the files and the list promise.                                    *)

Filings == survey_log_old \o survey_log

(* The log's groups are in the order of the outings and no outing has two, *)
(* although its rows stay in memory after it and the snapshot of the same  *)
(* rows is repeated; and the last LogMax groups begun are still there,     *)
(* whatever a rotation met.  (recon_app.c:904, recon_app_i.h:116)          *)
EachOutingOnce ==
  /\ \A i, k \in DOMAIN Filings : i < k => Filings[i].session < Filings[k].session
  /\ \A k \in DOMAIN filed : Len(filed) - k < LogMax =>
       \E i \in DOMAIN Filings : Filings[i].session = filed[k]

(* Between sessions the snapshot is of the last one, with rows or without, *)
(* unless the card or the battery failed.  (recon_app.c:856)               *)
SnapshotIsTheLast ==
  bad_writes = 0 /\ at_scene # "scan" => survey_csv.session = session

(* The row that would be taught is the one that was drawn: the detail      *)
(* screen is reached through the main menu, where the session has ended.   *)
(* (recon_scene_survey_detail.c:60)                                        *)
RowIsTheOneShown == at_scene = "detail" => RowShown(survey_menu_idx) = on_screen

(* Which of two rows a list shows first.                                   *)
Above(list, i, k) ==
  \E a, b \in DOMAIN list : a < b /\ list[a] = i /\ list[b] = k

(* Every row has one place in the list; a commodity shape, however often   *)
(* and close it was heard, does not change the order of the others, and    *)
(* ranks above none that scored.  (survey_rank.c:59)                       *)
CommodityChangesNothing ==
  LET order == survey_rank(rows_heard)
      own == {i \in DOMAIN rows_heard : ~GenericRow(rows_heard[i])}
      without == survey_rank(Restrict(rows_heard, own))
  IN  /\ \A i \in DOMAIN rows_heard : \E a \in DOMAIN order : order[a] = i
      /\ \A i, k \in own : Above(order, i, k) <=> Above(without, i, k)
      /\ \A i, k \in DOMAIN rows_heard :
           GenericRow(rows_heard[i]) /\ Above(order, i, k) => Score(rows_heard, k) = 0

SurveyIsKept ==
  EachOutingOnce /\ SnapshotIsTheLast /\ RowIsTheOneShown /\ CommodityChangesNothing
=============================================================================
