------------------------------ MODULE AirSurvey ------------------------------
(***************************************************************************)
(* The probe survey from the air to the app: the companion's row table,    *)
(* written by the Wi-Fi task while loop() prints it, the SV lines, the     *)
(* app's copy, with its gate on running totals.                            *)
(***************************************************************************)
EXTENDS Integers, Sequences, FiniteSets

CONSTANTS
  Probers, Wanted,     \* transmitters; those pinned or whose probe shape was learned
  BoardRows, AppRows,  \* SURVEY_MAX, RECON_SURVEY_MAX
  MaxCount,            \* where a row's running total saturates
  MaxTornLines,        \* lines printed while their row was being written
  MaxCycles,           \* the board's power cycles
  MaxOutings           \* sessions started after the first

(* A transmitter is loud on its own channel and leaks into the next ones.  *)
Sightings == {[rssi |-> 2, ch |-> "home"], [rssi |-> 1, ch |-> "fringe"]}

ASSUME SurveyAssumption ==
  /\ Wanted \subseteq Probers /\ IsFiniteSet(Probers) /\ "none" \notin Probers
  /\ BoardRows \in Nat \ {0} /\ AppRows \in Nat \ {0} /\ MaxCount \in Nat \ {0}

NoSighting == [mac |-> "none"]

VARIABLES
  g_survey,   \* a row or NoSighting in each slot
  writing,    \* the slot whose channel the Wi-Fi task has yet to write, or 0
  cursor,     \* the slot survey_dump() prints next, or 0
  sv_line,    \* the SV line on its way, or NoSighting
  survey,     \* app->survey
  unsaid,     \* of the wanted, those heard since their last line was printed
  news,       \* ... as the line on its way has it
  said,       \* the device the last step reported, or "none"
  live,       \* a session runs
  torn_lines, cycles, outings

surveyed == <<g_survey, writing, cursor>>
survey_vars == <<surveyed, sv_line, survey, unsaid, news, said, live, torn_lines, cycles, outings>>

Slots == 1..BoardRows
Used(t) == {i \in DOMAIN t : t[i] # NoSighting}
Holding(t, m) == {i \in Used(t) : t[i].mac = m}
Least(S) == CHOOSE i \in S : \A j \in S : i <= j

(* The first of the rows seen least often.                                 *)
Weakest(t) ==
  Least({i \in Used(t) : \A j \in Used(t) : t[i].count <= t[j].count})

SurveyInit ==
  /\ g_survey = [i \in Slots |-> NoSighting]
  /\ writing = 0 /\ cursor = 0 /\ sv_line = NoSighting
  /\ survey = <<>> /\ unsaid = {} /\ news = FALSE /\ said = "none"
  /\ live = TRUE
  /\ torn_lines = 0 /\ cycles = 0 /\ outings = 0

-----------------------------------------------------------------------------
(* The board.                                                              *)

Bumped(r) == [r EXCEPT !.count = IF @ < MaxCount THEN @ + 1 ELSE @]

(* Where a new transmitter goes: a free slot, or the least seen row's.     *)
Place ==
  LET free == Slots \ Used(g_survey)
  IN  IF free # {} THEN Least(free) ELSE Weakest(g_survey)

(* survey_note() in the Wi-Fi task.  A known row's signal and channel move *)
(* together, on a stronger sighting only, and are two stores.              *)
survey_note ==
  /\ writing = 0
  /\ \E m \in Probers, s \in Sightings :
       /\ LET known == Holding(g_survey, m)
              i == IF known # {} THEN Least(known) ELSE Place
          IN  IF known = {}
              THEN /\ g_survey' = [g_survey EXCEPT ![i] =
                         [mac |-> m, rssi |-> s.rssi, ch |-> s.ch, count |-> 1]]
                   /\ UNCHANGED writing
              ELSE IF s.rssi > g_survey[i].rssi
              THEN /\ g_survey' =
                        [g_survey EXCEPT ![i] = [Bumped(g_survey[i]) EXCEPT !.rssi = s.rssi]]
                   /\ writing' = i
              ELSE /\ g_survey' = [g_survey EXCEPT ![i] = Bumped(g_survey[i])]
                   /\ UNCHANGED writing
       /\ unsaid' = unsaid \cup ({m} \cap Wanted)
  /\ said' = "none"
  /\ UNCHANGED <<cursor, sv_line, survey, news, live, torn_lines, cycles, outings>>

(* The second store of a louder sighting.                                  *)
NoteChannel ==
  /\ writing # 0
  /\ g_survey' = [g_survey EXCEPT ![writing].ch = "home"]
  /\ writing' = 0
  /\ said' = "none"
  /\ UNCHANGED <<cursor, sv_line, survey, unsaid, news, live, torn_lines, cycles, outings>>

(* The "survey" command: the poll's, and the one a session ends with.      *)
survey_dump ==
  /\ live /\ cursor = 0
  /\ cursor' = 1
  /\ said' = "none"
  /\ UNCHANGED <<g_survey, writing, sv_line, survey, unsaid, news, live, torn_lines, cycles,
                 outings>>

(* One row printed, in table order, nothing holding the writer off.        *)
DumpRow ==
  /\ cursor # 0 /\ sv_line = NoSighting
  /\ IF cursor = writing THEN torn_lines < MaxTornLines /\ torn_lines' = torn_lines + 1
     ELSE UNCHANGED torn_lines
  /\ sv_line' = g_survey[cursor]
  /\ news' = (g_survey[cursor].mac \in unsaid)
  /\ unsaid' = unsaid \ {g_survey[cursor].mac}
  /\ cursor' = IF cursor = BoardRows THEN 0 ELSE cursor + 1
  /\ said' = "none"
  /\ UNCHANGED <<g_survey, writing, survey, live, cycles, outings>>

(* The board loses its supply, and with it every total and a dump half     *)
(* printed.                                                                *)
BoardReset ==
  /\ cycles < MaxCycles
  /\ g_survey' = [i \in Slots |-> NoSighting]
  /\ writing' = 0 /\ cursor' = 0
  /\ cycles' = cycles + 1
  /\ said' = "none"
  /\ UNCHANGED <<sv_line, survey, unsaid, news, live, torn_lines, outings>>

-----------------------------------------------------------------------------
(* The app.                                                                *)

(* The row a line goes to: its own, a new one, or the least seen one if    *)
(* the line has been seen more; 0 if none of them.                         *)
RowFor(l) ==
  LET known == Holding(survey, l.mac)
      victim == Weakest(survey)
  IN  IF known # {} THEN Least(known)
      ELSE IF Len(survey) < AppRows THEN Len(survey) + 1
      ELSE IF survey[victim].count < l.count THEN victim ELSE 0

Blank(m) == [mac |-> m, rssi |-> 0, ch |-> "none", count |-> 0]

(* Seeded defect: the channel is taken from every line.                    *)
SurveyMergeChannel(e, l) ==
  [e EXCEPT !.count = l.count,
            !.rssi = IF l.rssi > e.rssi \/ e.rssi = 0 THEN l.rssi ELSE @,
            !.ch = l.ch]

(* The board's total is taken as it is; the channel comes with the signal, *)
(* a zero signal being one never set.                                      *)
SurveyMerge(e, l) ==
  LET louder == l.rssi > e.rssi \/ e.rssi = 0
  IN  [e EXCEPT !.count = l.count,
                !.rssi = IF louder THEN l.rssi ELSE @,
                !.ch = IF louder THEN l.ch ELSE @]

(* Seeded defect: every dump announces its rows again.                     *)
HeardEveryDump(l) == TRUE

(* A row the app knows is worth a report only if its total has gone up.    *)
HeardAgain(l) ==
  \A i \in Holding(survey, l.mac) : l.count > survey[i].count

(* recon_app_survey_add().  A wanted device is reported even when no row   *)
(* could be found for it.                                                  *)
recon_app_survey_add ==
  /\ sv_line # NoSighting /\ live
  /\ LET l == sv_line
         i == RowFor(l)
         e == IF Holding(survey, l.mac) # {} THEN survey[i] ELSE Blank(l.mac)
     IN  /\ survey' = IF i = 0 THEN survey
                   ELSE IF i > Len(survey) THEN Append(survey, SurveyMerge(e, l))
                   ELSE [survey EXCEPT ![i] = SurveyMerge(e, l)]
         /\ said' = IF l.mac \in Wanted /\ HeardAgain(l) THEN l.mac ELSE "none"
  /\ sv_line' = NoSighting /\ news' = FALSE
  /\ UNCHANGED <<surveyed, unsaid, live, torn_lines, cycles, outings>>

(* A line lost on the way.                                                 *)
SurveyLineLost ==
  /\ sv_line # NoSighting
  /\ sv_line' = NoSighting /\ news' = FALSE /\ said' = "none"
  /\ unsaid' = IF news THEN unsaid \cup {sv_line.mac} ELSE unsaid
  /\ UNCHANGED <<surveyed, survey, live, torn_lines, cycles, outings>>

(* scan_session_stop(): one more dump, drained for a while.                *)
survey_stop ==
  /\ live /\ cursor = 0
  /\ live' = FALSE
  /\ sv_line' = NoSighting /\ news' = FALSE /\ said' = "none"
  /\ UNCHANGED <<surveyed, survey, unsaid, torn_lines, cycles, outings>>

(* scan_session_start() clears both copies: one outing, one survey.        *)
survey_start ==
  /\ ~live /\ outings < MaxOutings
  /\ live' = TRUE /\ outings' = outings + 1
  /\ survey' = <<>> /\ said' = "none"
  /\ g_survey' = [i \in Slots |-> NoSighting] /\ writing' = 0 /\ cursor' = 0
  /\ unsaid' = {}
  /\ UNCHANGED <<sv_line, news, torn_lines, cycles>>

(* The app or its battery dies.                                            *)
SurveyCrash ==
  /\ live /\ outings < MaxOutings
  /\ live' = FALSE
  /\ survey' = <<>> /\ sv_line' = NoSighting /\ news' = FALSE /\ said' = "none" /\ cursor' = 0
  /\ UNCHANGED <<g_survey, writing, unsaid, torn_lines, cycles, outings>>

SurveyNext ==
  \/ survey_note \/ NoteChannel \/ survey_dump \/ DumpRow \/ BoardReset
  \/ recon_app_survey_add \/ SurveyLineLost \/ survey_stop \/ survey_start \/ SurveyCrash

SurveySpec == SurveyInit /\ [][SurveyNext]_survey_vars
=============================================================================
