------------------------- MODULE CompanionLinkProofs -------------------------
(***************************************************************************)
(* What is proved of CompanionLink for every silence window, buffer, and   *)
(* number of resets and lost lines: its type, that a link shown as up is   *)
(* watched, that a lost one is silent, and that no tick ends a hunt.       *)
(***************************************************************************)
EXTENDS CompanionLinkProps, SequenceTheorems, TLAPS

-----------------------------------------------------------------------------
\* What a line sent does to the wire: the buffer keeps its bound.
LEMMA LineType ==
  ASSUME TypeOK, NEW l \in {"banner", "other"}, Line(l)
  PROVE  /\ rx' \in Seq({"banner", "other"}) /\ Len(rx') <= Buffer
         /\ drops' \in 0..MaxDrops /\ deaf' \in BOOLEAN
<1>1. CASE rx' = Append(rx, l) /\ Len(rx) < Buffer /\ deaf' = (deaf /\ l # "banner")
           /\ UNCHANGED drops
  <2>1. rx' \in Seq({"banner", "other"}) /\ Len(rx') = Len(rx) + 1
    BY <1>1 DEF TypeOK, Flags, Counts
  <2>2. Len(rx') <= Buffer
    BY <1>1, <2>1, BufferAssumption DEF TypeOK, Flags, Counts
  <2> QED BY <1>1, <2>1, <2>2 DEF TypeOK, Flags, Counts
<1>2. CASE UNCHANGED rx
  <2>1. drops' \in 0..MaxDrops
    BY BoundsAssumption DEF TypeOK, Flags, Counts, Line
  <2> QED BY <1>2, <2>1 DEF TypeOK, Flags, Counts, Line
<1> QED BY <1>1, <1>2 DEF Line

\* The same for a line that is sent only while the port is open.
LEMMA SaysType ==
  ASSUME TypeOK, NEW l \in {"banner", "other"}, Says(l)
  PROVE  /\ rx' \in Seq({"banner", "other"}) /\ Len(rx') <= Buffer
         /\ drops' \in 0..MaxDrops /\ deaf' \in BOOLEAN
BY LineType DEF Says, TypeOK, Flags, Counts, wire

\* The empty wire.
LEMMA EmptyWire == <<>> \in Seq({"banner", "other"}) /\ Len(<<>>) <= Buffer
BY BufferAssumption

\* A line taken in leaves a shorter wire.
LEMMA TailType ==
  ASSUME TypeOK, rx # <<>>
  PROVE  Tail(rx) \in Seq({"banner", "other"}) /\ Len(Tail(rx)) <= Buffer
<1>1. Tail(rx) \in Seq({"banner", "other"}) /\ Len(Tail(rx)) = Len(rx) - 1
  BY DEF TypeOK, Flags, Counts
<1> QED BY <1>1, BufferAssumption DEF TypeOK, Flags, Counts

-----------------------------------------------------------------------------
\* Every step keeps the flags in their sets.
LEMMA FlagsStep ==
  ASSUME TypeOK, [Next]_vars
  PROVE  Flags'
<1>1. CASE Boot
  BY <1>1, SaysType DEF TypeOK, Flags, Boot, Says, wire, link, scene
<1>2. CASE Reset
  BY <1>2 DEF TypeOK, Flags, Reset, wire, link, scene
<1>3. CASE Speak
  BY <1>3, SaysType DEF TypeOK, Flags, Speak, Says, wire, link, scene
<1>4. CASE Clock
  BY <1>4 DEF TypeOK, Flags, Clock, wire, scene
<1>5. CASE Receive
  BY <1>5 DEF TypeOK, Flags, Receive, board, scene
<1>6. CASE TickResend
  BY <1>6, LineType DEF TypeOK, Flags, TickResend, TickUnchanged, Retasked, Obeys, Idle,
       board, wire, link, scene
<1>7. CASE TickLiveness
  BY <1>7 DEF TypeOK, Flags, TickLiveness, board, wire, scene
<1>8. CASE SurveyPoll
  BY <1>8, LineType DEF TypeOK, Flags, SurveyPoll, Idle, board, link, scene
<1>9. CASE Rearm
  BY <1>9 DEF TypeOK, Flags, Rearm, Idle, Obeys, wire, link, scene
<1>10. CASE EnterScan
  BY <1>10, LineType DEF TypeOK, Flags, EnterScan, Idle, Opened, Obeys, Shows, board,
       wire
<1>11. CASE EnterPreflight
  BY <1>11, LineType DEF TypeOK, Flags, EnterPreflight, Idle, Opened, Obeys, Shows,
       board, wire
<1>12. CASE OpenDetail
  BY <1>12 DEF TypeOK, Flags, OpenDetail, Idle, Shows, board, wire, link
<1>13. CASE OpenPicker
  BY <1>13 DEF TypeOK, Flags, OpenPicker, Idle, Shows, board, wire, link
<1>14. CASE BackToList
  BY <1>14 DEF TypeOK, Flags, BackToList, Idle, BackTo, Shows, Obeys, wire, link
<1>15. CASE BackToPreflight
  BY <1>15 DEF TypeOK, Flags, BackToPreflight, Idle, BackTo, Shows, Obeys, wire, link
<1>16. CASE Pick
  BY <1>16, LineType DEF TypeOK, Flags, Pick, Idle, Shows, Obeys, Opened, board, wire
<1>17. CASE LockIn
  BY <1>17 DEF TypeOK, Flags, LockIn, Idle, Shows, Obeys, wire
<1>18. CASE LeaveLocator
  BY <1>18 DEF TypeOK, Flags, LeaveLocator, Idle, Shows, Obeys, wire, link
<1>19. CASE Leave
  BY <1>19, LineType DEF TypeOK, Flags, Leave, Idle, Drain, Shows, board, wire, link
<1>20. CASE Retry
  BY <1>20, LineType DEF TypeOK, Flags, Retry, Idle, Drain, Shows, board, wire, link
<1>21. CASE DetectNow
  BY <1>21, LineType DEF TypeOK, Flags, DetectNow, Idle, Drain, Shows, board, wire, link
<1>22. CASE KickFresh
  BY <1>22 DEF TypeOK, Flags, KickFresh, Obeys, wire, scene
<1>23. CASE Kick
  BY <1>23 DEF TypeOK, Flags, Kick, Obeys, wire, link, scene
<1>24. CASE Aim
  BY <1>24 DEF TypeOK, Flags, Aim, Obeys, wire, link, scene
<1>25. CASE CloseSession
  BY <1>25 DEF TypeOK, Flags, CloseSession, Obeys, link, scene
<1>26. CASE Reopen
  BY <1>26, LineType DEF TypeOK, Flags, Reopen, Opened, Obeys, Shows, board, wire
<1>27. CASE UNCHANGED vars
  BY <1>27 DEF TypeOK, Flags, vars
<1> QED BY <1>1, <1>2, <1>3, <1>4, <1>5, <1>6, <1>7, <1>8, <1>9, <1>10, <1>11, <1>12,
       <1>13, <1>14, <1>15, <1>16, <1>17, <1>18, <1>19, <1>20, <1>21, <1>22, <1>23,
       <1>24, <1>25, <1>26, <1>27 DEF Next

\* Every step keeps the names in their sets.
LEMMA NamesStep ==
  ASSUME TypeOK, [Next]_vars
  PROVE  Names'
<1>1. CASE Boot
  BY <1>1 DEF TypeOK, Names, Modes, Scanning, Screens, Places, Boot, Says, wire, link,
       scene
<1>2. CASE Reset
  BY <1>2 DEF TypeOK, Names, Modes, Scanning, Screens, Places, Reset, wire, link, scene
<1>3. CASE Speak
  BY <1>3 DEF TypeOK, Names, Modes, Scanning, Screens, Places, Speak, Says, wire, link,
       scene
<1>4. CASE Clock
  BY <1>4 DEF TypeOK, Names, Modes, Scanning, Screens, Places, Clock, wire, scene
<1>5. CASE Receive
  BY <1>5 DEF TypeOK, Names, Modes, Scanning, Screens, Places, Receive, board, scene
<1>6. CASE TickResend
  BY <1>6 DEF TypeOK, Names, Modes, Scanning, Screens, Places, TickResend,
       TickUnchanged, Retasked, Obeys, Idle, board, wire, link, scene
<1>7. CASE TickLiveness
  BY <1>7 DEF TypeOK, Names, Modes, Scanning, Screens, Places, TickLiveness, board,
       wire, scene
<1>8. CASE SurveyPoll
  BY <1>8 DEF TypeOK, Names, Modes, Scanning, Screens, Places, SurveyPoll, Idle, board,
       link, scene
<1>9. CASE Rearm
  BY <1>9 DEF TypeOK, Names, Modes, Scanning, Screens, Places, Rearm, Idle, Obeys, wire,
       link, scene
<1>10. CASE EnterScan
  BY <1>10 DEF TypeOK, Names, Modes, Scanning, Screens, Places, EnterScan, Idle, Opened,
       Obeys, Shows, board, wire
<1>11. CASE EnterPreflight
  BY <1>11 DEF TypeOK, Names, Modes, Scanning, Screens, Places, EnterPreflight, Idle,
       Opened, Obeys, Shows, board, wire
<1>12. CASE OpenDetail
  BY <1>12 DEF TypeOK, Names, Modes, Scanning, Screens, Places, OpenDetail, Idle, Shows,
       board, wire, link
<1>13. CASE OpenPicker
  BY <1>13 DEF TypeOK, Names, Modes, Scanning, Screens, Places, OpenPicker, Idle, Shows,
       board, wire, link
<1>14. CASE BackToList
  BY <1>14 DEF TypeOK, Names, Modes, Scanning, Screens, Places, BackToList, Idle,
       BackTo, Shows, Obeys, wire, link
<1>15. CASE BackToPreflight
  BY <1>15 DEF TypeOK, Names, Modes, Scanning, Screens, Places, BackToPreflight, Idle,
       BackTo, Shows, Obeys, wire, link
<1>16. CASE Pick
  BY <1>16 DEF TypeOK, Names, Modes, Scanning, Screens, Places, Pick, Idle, Shows,
       Obeys, Opened, board, wire
<1>17. CASE LockIn
  BY <1>17 DEF TypeOK, Names, Modes, Scanning, Screens, Places, LockIn, Idle, Shows,
       Obeys, wire
<1>18. CASE LeaveLocator
  BY <1>18 DEF TypeOK, Names, Modes, Scanning, Screens, Places, LeaveLocator, Idle,
       Shows, Obeys, wire, link
<1>19. CASE Leave
  BY <1>19 DEF TypeOK, Names, Modes, Scanning, Screens, Places, Leave, Idle, Drain,
       Shows, board, wire, link
<1>20. CASE Retry
  BY <1>20 DEF TypeOK, Names, Modes, Scanning, Screens, Places, Retry, Idle, Drain,
       Shows, board, wire, link
<1>21. CASE DetectNow
  BY <1>21 DEF TypeOK, Names, Modes, Scanning, Screens, Places, DetectNow, Idle, Drain,
       Shows, board, wire, link
<1>22. CASE KickFresh
  BY <1>22 DEF TypeOK, Names, Modes, Scanning, Screens, Places, KickFresh, Obeys, wire,
       scene
<1>23. CASE Kick
  BY <1>23 DEF TypeOK, Names, Modes, Scanning, Screens, Places, Kick, Obeys, wire, link,
       scene
<1>24. CASE Aim
  BY <1>24 DEF TypeOK, Names, Modes, Scanning, Screens, Places, Aim, Obeys, wire, link,
       scene
<1>25. CASE CloseSession
  BY <1>25 DEF TypeOK, Names, Modes, Scanning, Screens, Places, CloseSession, Obeys,
       link, scene
<1>26. CASE Reopen
  BY <1>26 DEF TypeOK, Names, Modes, Scanning, Screens, Places, Reopen, Opened, Obeys,
       Shows, board, wire
<1>27. CASE UNCHANGED vars
  BY <1>27 DEF TypeOK, Names, Modes, Scanning, Screens, Places, vars
<1> QED BY <1>1, <1>2, <1>3, <1>4, <1>5, <1>6, <1>7, <1>8, <1>9, <1>10, <1>11, <1>12,
       <1>13, <1>14, <1>15, <1>16, <1>17, <1>18, <1>19, <1>20, <1>21, <1>22, <1>23,
       <1>24, <1>25, <1>26, <1>27 DEF Next

\* Every step keeps the numbers in their sets.
LEMMA CountsStep ==
  ASSUME TypeOK, [Next]_vars
  PROVE  Counts'
<1>1. CASE Boot
  BY <1>1, SaysType DEF TypeOK, Counts, Boot, Says, wire, link, scene
<1>2. CASE Reset
  BY <1>2, BoundsAssumption DEF TypeOK, Counts, Reset, wire, link, scene
<1>3. CASE Speak
  BY <1>3, SaysType DEF TypeOK, Counts, Speak, Says, wire, link, scene
<1>4. CASE Clock
  BY <1>4, SilentAssumption DEF TypeOK, Counts, Clock, wire, scene
<1>5. CASE Receive
  BY <1>5, TailType, SilentAssumption DEF TypeOK, Counts, Receive, board, scene
<1>6. CASE TickResend
  BY <1>6, LineType DEF TypeOK, Counts, TickResend, TickUnchanged, Retasked, Obeys,
       Idle, board, wire, link, scene
<1>7. CASE TickLiveness
  BY <1>7 DEF TypeOK, Counts, TickLiveness, board, wire, scene
<1>8. CASE SurveyPoll
  BY <1>8, LineType DEF TypeOK, Counts, SurveyPoll, Idle, board, link, scene
<1>9. CASE Rearm
  BY <1>9 DEF TypeOK, Counts, Rearm, Idle, Obeys, wire, link, scene
<1>10. CASE EnterScan
  BY <1>10, LineType, SilentAssumption DEF TypeOK, Counts, EnterScan, Idle, Opened,
       Obeys, Shows, board, wire
<1>11. CASE EnterPreflight
  BY <1>11, LineType, SilentAssumption DEF TypeOK, Counts, EnterPreflight, Idle, Opened,
       Obeys, Shows, board, wire
<1>12. CASE OpenDetail
  BY <1>12 DEF TypeOK, Counts, OpenDetail, Idle, Shows, board, wire, link
<1>13. CASE OpenPicker
  BY <1>13 DEF TypeOK, Counts, OpenPicker, Idle, Shows, board, wire, link
<1>14. CASE BackToList
  BY <1>14 DEF TypeOK, Counts, BackToList, Idle, BackTo, Shows, Obeys, wire, link
<1>15. CASE BackToPreflight
  BY <1>15 DEF TypeOK, Counts, BackToPreflight, Idle, BackTo, Shows, Obeys, wire, link
<1>16. CASE Pick
  BY <1>16, LineType, SilentAssumption DEF TypeOK, Counts, Pick, Idle, Shows, Obeys,
       Opened, board, wire
<1>17. CASE LockIn
  BY <1>17 DEF TypeOK, Counts, LockIn, Idle, Shows, Obeys, wire
<1>18. CASE LeaveLocator
  BY <1>18 DEF TypeOK, Counts, LeaveLocator, Idle, Shows, Obeys, wire, link
<1>19. CASE Leave
  BY <1>19, LineType DEF TypeOK, Counts, Leave, Idle, Drain, Shows, board, wire, link
<1>20. CASE Retry
  BY <1>20, LineType DEF TypeOK, Counts, Retry, Idle, Drain, Shows, board, wire, link
<1>21. CASE DetectNow
  BY <1>21, LineType DEF TypeOK, Counts, DetectNow, Idle, Drain, Shows, board, wire,
       link
<1>22. CASE KickFresh
  BY <1>22 DEF TypeOK, Counts, KickFresh, Obeys, wire, scene
<1>23. CASE Kick
  BY <1>23 DEF TypeOK, Counts, Kick, Obeys, wire, link, scene
<1>24. CASE Aim
  BY <1>24 DEF TypeOK, Counts, Aim, Obeys, wire, link, scene
<1>25. CASE CloseSession
  BY <1>25, EmptyWire DEF TypeOK, Counts, CloseSession, Obeys, link, scene
<1>26. CASE Reopen
  BY <1>26, LineType, SilentAssumption DEF TypeOK, Counts, Reopen, Opened, Obeys, Shows,
       board, wire
<1>27. CASE UNCHANGED vars
  BY <1>27 DEF TypeOK, Counts, vars
<1> QED BY <1>1, <1>2, <1>3, <1>4, <1>5, <1>6, <1>7, <1>8, <1>9, <1>10, <1>11, <1>12,
       <1>13, <1>14, <1>15, <1>16, <1>17, <1>18, <1>19, <1>20, <1>21, <1>22, <1>23,
       <1>24, <1>25, <1>26, <1>27 DEF Next


\* THEOREM: the type invariant holds whatever the window, the buffer and the bounds.
THEOREM TypeCorrect == Spec => []TypeOK
<1>1. Init => TypeOK
  <2> SUFFICES ASSUME Init
               PROVE  TypeOK
    OBVIOUS
  <2>1. Flags
    BY DEF Init, Flags
  <2>2. Names
    BY DEF Init, Names, Modes, Scanning, Screens, Places
  <2>3. Counts
    BY EmptyWire, SilentAssumption, BoundsAssumption DEF Init, Counts
  <2> QED BY <2>1, <2>2, <2>3 DEF TypeOK
<1>2. TypeOK /\ [Next]_vars => TypeOK'
  BY FlagsStep, NamesStep, CountsStep DEF TypeOK
<1> QED BY <1>1, <1>2, PTL DEF Spec

-----------------------------------------------------------------------------
\* locate_kind follows the Locator, and a handler's place its scene.
LEMMA PlacedStep ==
  ASSUME TypeOK, Placed, [Next]_vars
  PROVE  Placed'
<1>1. CASE Boot
  BY <1>1 DEF Placed, TypeOK, Flags, Boot, Says, wire, link, scene
<1>2. CASE Reset
  BY <1>2 DEF Placed, TypeOK, Flags, Reset, wire, link, scene
<1>3. CASE Speak
  BY <1>3 DEF Placed, TypeOK, Flags, Speak, Says, wire, link, scene
<1>4. CASE Clock
  BY <1>4 DEF Placed, TypeOK, Flags, Clock, wire, scene
<1>5. CASE Receive
  BY <1>5 DEF Placed, TypeOK, Flags, Receive, board, scene
<1>6. CASE TickResend
  BY <1>6 DEF Placed, TypeOK, Flags, TickResend, TickUnchanged, Retasked, Obeys, Idle,
       board, wire, link, scene
<1>7. CASE TickLiveness
  BY <1>7 DEF Placed, TypeOK, Flags, TickLiveness, board, wire, scene
<1>8. CASE SurveyPoll
  BY <1>8 DEF Placed, TypeOK, Flags, SurveyPoll, Idle, board, link, scene
<1>9. CASE Rearm
  BY <1>9 DEF Placed, TypeOK, Flags, Rearm, Idle, Obeys, wire, link, scene
<1>10. CASE EnterScan
  BY <1>10 DEF Placed, TypeOK, Flags, EnterScan, Idle, Opened, Obeys, Shows, board, wire
<1>11. CASE EnterPreflight
  BY <1>11 DEF Placed, TypeOK, Flags, EnterPreflight, Idle, Opened, Obeys, Shows, board,
       wire
<1>12. CASE OpenDetail
  BY <1>12 DEF Placed, TypeOK, Flags, OpenDetail, Idle, Shows, board, wire, link
<1>13. CASE OpenPicker
  BY <1>13 DEF Placed, TypeOK, Flags, OpenPicker, Idle, Shows, board, wire, link
<1>14. CASE BackToList
  BY <1>14 DEF Placed, TypeOK, Flags, BackToList, Idle, BackTo, Shows, Obeys, wire, link
<1>15. CASE BackToPreflight
  BY <1>15 DEF Placed, TypeOK, Flags, BackToPreflight, Idle, BackTo, Shows, Obeys, wire,
       link
<1>16. CASE Pick
  BY <1>16 DEF Placed, TypeOK, Flags, Pick, Idle, Shows, Obeys, Opened, board, wire
<1>17. CASE LockIn
  BY <1>17 DEF Placed, TypeOK, Flags, LockIn, Idle, Shows, Obeys, wire
<1>18. CASE LeaveLocator
  BY <1>18 DEF Placed, TypeOK, Flags, LeaveLocator, Idle, Shows, Obeys, wire, link
<1>19. CASE Leave
  BY <1>19 DEF Placed, TypeOK, Flags, Leave, Idle, Drain, Shows, board, wire, link
<1>20. CASE Retry
  BY <1>20 DEF Placed, TypeOK, Flags, Retry, Idle, Drain, Shows, board, wire, link
<1>21. CASE DetectNow
  BY <1>21 DEF Placed, TypeOK, Flags, DetectNow, Idle, Drain, Shows, board, wire, link
<1>22. CASE KickFresh
  BY <1>22 DEF Placed, TypeOK, Flags, KickFresh, Obeys, wire, scene
<1>23. CASE Kick
  BY <1>23 DEF Placed, TypeOK, Flags, Kick, Obeys, wire, link, scene
<1>24. CASE Aim
  BY <1>24 DEF Placed, TypeOK, Flags, Aim, Obeys, wire, link, scene
<1>25. CASE CloseSession
  BY <1>25 DEF Placed, TypeOK, Flags, CloseSession, Obeys, link, scene
<1>26. CASE Reopen
  BY <1>26 DEF Placed, TypeOK, Flags, Reopen, Opened, Obeys, Shows, board, wire
<1>27. CASE UNCHANGED vars
  BY <1>27 DEF Placed, TypeOK, Flags, vars
<1> QED BY <1>1, <1>2, <1>3, <1>4, <1>5, <1>6, <1>7, <1>8, <1>9, <1>10, <1>11, <1>12,
       <1>13, <1>14, <1>15, <1>16, <1>17, <1>18, <1>19, <1>20, <1>21, <1>22, <1>23,
       <1>24, <1>25, <1>26, <1>27 DEF Next

\* THEOREM: locate_kind is set exactly while the Locator is on screen.
THEOREM HuntIsOnScreen == Spec => []Placed
<1>1. Init => Placed
  BY DEF Init, Placed
<1> QED BY <1>1, TypeCorrect, PlacedStep, PTL DEF Spec

-----------------------------------------------------------------------------
\* What the header says of the link, and the clock behind it.
LinkShown == HeartbeatWatched /\ LostMeansSilent

LEMMA LinkStep ==
  ASSUME TypeOK, LinkShown, [Next]_vars
  PROVE  LinkShown'
<1>1. CASE Boot
  BY <1>1 DEF LinkShown, HeartbeatWatched, LostMeansSilent, TypeOK, Flags, Counts, Boot,
       Says, wire, link, scene
<1>2. CASE Reset
  BY <1>2 DEF LinkShown, HeartbeatWatched, LostMeansSilent, TypeOK, Flags, Counts,
       Reset, wire, link, scene
<1>3. CASE Speak
  BY <1>3 DEF LinkShown, HeartbeatWatched, LostMeansSilent, TypeOK, Flags, Counts,
       Speak, Says, wire, link, scene
<1>4. CASE Clock
  BY <1>4 DEF LinkShown, HeartbeatWatched, LostMeansSilent, TypeOK, Flags, Counts,
       Clock, wire, scene
<1>5. CASE Receive
  BY <1>5 DEF LinkShown, HeartbeatWatched, LostMeansSilent, TypeOK, Flags, Counts,
       Receive, board, scene
<1>6. CASE TickResend
  BY <1>6 DEF LinkShown, HeartbeatWatched, LostMeansSilent, TypeOK, Flags, Counts,
       TickResend, TickUnchanged, Retasked, Obeys, Idle, board, wire, link, scene
<1>7. CASE TickLiveness
  <2>1. quiet >= Silent => quiet = Silent
    BY SilentAssumption DEF TypeOK, Counts
  <2>2. UNCHANGED <<session, heard, quiet>>
    BY <1>7 DEF TickLiveness
  <2>3. CASE session /\ connected /\ heard /\ quiet >= Silent
    <3>1. connected' = FALSE
      BY <1>7, <2>3 DEF TickLiveness
    <3>2. quiet' = Silent
      BY <2>1, <2>2, <2>3
    <3> QED BY <3>1, <3>2 DEF LinkShown, HeartbeatWatched, LostMeansSilent
  <2>4. CASE ~(session /\ connected /\ heard /\ quiet >= Silent)
    <3>1. UNCHANGED <<connected, lost>> /\ pc = "live" /\ pc' = "idle"
      BY <1>7, <2>4 DEF TickLiveness
    <3> QED BY <2>2, <3>1 DEF LinkShown, HeartbeatWatched, LostMeansSilent
  <2> QED BY <2>3, <2>4
<1>8. CASE SurveyPoll
  BY <1>8 DEF LinkShown, HeartbeatWatched, LostMeansSilent, TypeOK, Flags, Counts,
       SurveyPoll, Idle, board, link, scene
<1>9. CASE Rearm
  BY <1>9 DEF LinkShown, HeartbeatWatched, LostMeansSilent, TypeOK, Flags, Counts,
       Rearm, Idle, Obeys, wire, link, scene
<1>10. CASE EnterScan
  BY <1>10 DEF LinkShown, HeartbeatWatched, LostMeansSilent, TypeOK, Flags, Counts,
       EnterScan, Idle, Opened, Obeys, Shows, board, wire
<1>11. CASE EnterPreflight
  BY <1>11 DEF LinkShown, HeartbeatWatched, LostMeansSilent, TypeOK, Flags, Counts,
       EnterPreflight, Idle, Opened, Obeys, Shows, board, wire
<1>12. CASE OpenDetail
  BY <1>12 DEF LinkShown, HeartbeatWatched, LostMeansSilent, TypeOK, Flags, Counts,
       OpenDetail, Idle, Shows, board, wire, link
<1>13. CASE OpenPicker
  BY <1>13 DEF LinkShown, HeartbeatWatched, LostMeansSilent, TypeOK, Flags, Counts,
       OpenPicker, Idle, Shows, board, wire, link
<1>14. CASE BackToList
  BY <1>14 DEF LinkShown, HeartbeatWatched, LostMeansSilent, TypeOK, Flags, Counts,
       BackToList, Idle, BackTo, Shows, Obeys, wire, link
<1>15. CASE BackToPreflight
  BY <1>15 DEF LinkShown, HeartbeatWatched, LostMeansSilent, TypeOK, Flags, Counts,
       BackToPreflight, Idle, BackTo, Shows, Obeys, wire, link
<1>16. CASE Pick
  BY <1>16 DEF LinkShown, HeartbeatWatched, LostMeansSilent, TypeOK, Flags, Counts,
       Pick, Idle, Shows, Obeys, Opened, board, wire
<1>17. CASE LockIn
  BY <1>17 DEF LinkShown, HeartbeatWatched, LostMeansSilent, TypeOK, Flags, Counts,
       LockIn, Idle, Shows, Obeys, wire
<1>18. CASE LeaveLocator
  BY <1>18 DEF LinkShown, HeartbeatWatched, LostMeansSilent, TypeOK, Flags, Counts,
       LeaveLocator, Idle, Shows, Obeys, wire, link
<1>19. CASE Leave
  BY <1>19 DEF LinkShown, HeartbeatWatched, LostMeansSilent, TypeOK, Flags, Counts,
       Leave, Idle, Drain, Shows, board, wire, link
<1>20. CASE Retry
  BY <1>20 DEF LinkShown, HeartbeatWatched, LostMeansSilent, TypeOK, Flags, Counts,
       Retry, Idle, Drain, Shows, board, wire, link
<1>21. CASE DetectNow
  BY <1>21 DEF LinkShown, HeartbeatWatched, LostMeansSilent, TypeOK, Flags, Counts,
       DetectNow, Idle, Drain, Shows, board, wire, link
<1>22. CASE KickFresh
  BY <1>22 DEF LinkShown, HeartbeatWatched, LostMeansSilent, TypeOK, Flags, Counts,
       KickFresh, Obeys, wire, scene
<1>23. CASE Kick
  BY <1>23 DEF LinkShown, HeartbeatWatched, LostMeansSilent, TypeOK, Flags, Counts,
       Kick, Obeys, wire, link, scene
<1>24. CASE Aim
  BY <1>24 DEF LinkShown, HeartbeatWatched, LostMeansSilent, TypeOK, Flags, Counts, Aim,
       Obeys, wire, link, scene
<1>25. CASE CloseSession
  BY <1>25 DEF LinkShown, HeartbeatWatched, LostMeansSilent, TypeOK, Flags, Counts,
       CloseSession, Obeys, link, scene
<1>26. CASE Reopen
  BY <1>26 DEF LinkShown, HeartbeatWatched, LostMeansSilent, TypeOK, Flags, Counts,
       Reopen, Opened, Obeys, Shows, board, wire
<1>27. CASE UNCHANGED vars
  BY <1>27 DEF LinkShown, HeartbeatWatched, LostMeansSilent, TypeOK, Flags, Counts, vars
<1> QED BY <1>1, <1>2, <1>3, <1>4, <1>5, <1>6, <1>7, <1>8, <1>9, <1>10, <1>11, <1>12,
       <1>13, <1>14, <1>15, <1>16, <1>17, <1>18, <1>19, <1>20, <1>21, <1>22, <1>23,
       <1>24, <1>25, <1>26, <1>27 DEF Next

\* THEOREM: a link shown as up has its last line on record, so that silence will be seen.
THEOREM LinkIsWatched == Spec => []HeartbeatWatched
<1>1. Init => LinkShown
  BY DEF Init, LinkShown, HeartbeatWatched, LostMeansSilent
<1>2. LinkShown => HeartbeatWatched
  BY DEF LinkShown
<1> QED BY <1>1, <1>2, TypeCorrect, LinkStep, PTL DEF Spec

\* THEOREM: a link declared lost has been silent for the window and is not shown as up.
THEOREM LossIsSilent == Spec => []LostMeansSilent
<1>1. Init => LinkShown
  BY DEF Init, LinkShown, HeartbeatWatched, LostMeansSilent
<1>2. LinkShown => LostMeansSilent
  BY DEF LinkShown
<1> QED BY <1>1, <1>2, TypeCorrect, LinkStep, PTL DEF Spec

-----------------------------------------------------------------------------
\* A step taken while the Locator stays on screen leaves a board that is hunting at it:
\* the tick holds the configuration back because locate_kind is set (Placed).
LEMMA HuntStep ==
  ASSUME TypeOK, Placed, [Next]_vars,
         screen = "locator", screen' = "locator", mode = "locate", up, up'
  PROVE  mode' = "locate"
<1>1. CASE Boot
  BY <1>1 DEF Placed, TypeOK, Flags, Boot, Says, wire, link, scene
<1>2. CASE Reset
  BY <1>2 DEF Placed, TypeOK, Flags, Reset, wire, link, scene
<1>3. CASE Speak
  BY <1>3 DEF Placed, TypeOK, Flags, Speak, Says, wire, link, scene
<1>4. CASE Clock
  BY <1>4 DEF Placed, TypeOK, Flags, Clock, wire, scene
<1>5. CASE Receive
  BY <1>5 DEF Placed, TypeOK, Flags, Receive, board, scene
<1>6. CASE TickResend
  BY <1>6 DEF Placed, TypeOK, Flags, TickResend, TickUnchanged, Retasked, Obeys, Idle,
       board, wire, link, scene
<1>7. CASE TickLiveness
  BY <1>7 DEF Placed, TypeOK, Flags, TickLiveness, board, wire, scene
<1>8. CASE SurveyPoll
  BY <1>8 DEF Placed, TypeOK, Flags, SurveyPoll, Idle, board, link, scene
<1>9. CASE Rearm
  BY <1>9 DEF Placed, TypeOK, Flags, Rearm, Idle, Obeys, wire, link, scene
<1>10. CASE EnterScan
  BY <1>10 DEF Placed, TypeOK, Flags, EnterScan, Idle, Opened, Obeys, Shows, board, wire
<1>11. CASE EnterPreflight
  BY <1>11 DEF Placed, TypeOK, Flags, EnterPreflight, Idle, Opened, Obeys, Shows, board,
       wire
<1>12. CASE OpenDetail
  BY <1>12 DEF Placed, TypeOK, Flags, OpenDetail, Idle, Shows, board, wire, link
<1>13. CASE OpenPicker
  BY <1>13 DEF Placed, TypeOK, Flags, OpenPicker, Idle, Shows, board, wire, link
<1>14. CASE BackToList
  BY <1>14 DEF Placed, TypeOK, Flags, BackToList, Idle, BackTo, Shows, Obeys, wire, link
<1>15. CASE BackToPreflight
  BY <1>15 DEF Placed, TypeOK, Flags, BackToPreflight, Idle, BackTo, Shows, Obeys, wire,
       link
<1>16. CASE Pick
  BY <1>16 DEF Placed, TypeOK, Flags, Pick, Idle, Shows, Obeys, Opened, board, wire
<1>17. CASE LockIn
  BY <1>17 DEF Placed, TypeOK, Flags, LockIn, Idle, Shows, Obeys, wire
<1>18. CASE LeaveLocator
  BY <1>18 DEF Placed, TypeOK, Flags, LeaveLocator, Idle, Shows, Obeys, wire, link
<1>19. CASE Leave
  BY <1>19 DEF Placed, TypeOK, Flags, Leave, Idle, Drain, Shows, board, wire, link
<1>20. CASE Retry
  BY <1>20 DEF Placed, TypeOK, Flags, Retry, Idle, Drain, Shows, board, wire, link
<1>21. CASE DetectNow
  BY <1>21 DEF Placed, TypeOK, Flags, DetectNow, Idle, Drain, Shows, board, wire, link
<1>22. CASE KickFresh
  BY <1>22 DEF Placed, TypeOK, Flags, KickFresh, Obeys, wire, scene
<1>23. CASE Kick
  BY <1>23 DEF Placed, TypeOK, Flags, Kick, Obeys, wire, link, scene
<1>24. CASE Aim
  BY <1>24 DEF Placed, TypeOK, Flags, Aim, Obeys, wire, link, scene
<1>25. CASE CloseSession
  BY <1>25 DEF Placed, TypeOK, Flags, CloseSession, Obeys, link, scene
<1>26. CASE Reopen
  BY <1>26 DEF Placed, TypeOK, Flags, Reopen, Opened, Obeys, Shows, board, wire
<1>27. CASE UNCHANGED vars
  BY <1>27 DEF Placed, TypeOK, Flags, vars
<1> QED BY <1>1, <1>2, <1>3, <1>4, <1>5, <1>6, <1>7, <1>8, <1>9, <1>10, <1>11, <1>12,
       <1>13, <1>14, <1>15, <1>16, <1>17, <1>18, <1>19, <1>20, <1>21, <1>22, <1>23,
       <1>24, <1>25, <1>26, <1>27 DEF Next

\* THEOREM: nothing the app sends ends a hunt while the operator stays in the Locator.
THEOREM HuntStays == Spec => HuntUndisturbed
<1>1. TypeOK /\ Placed /\ [Next]_vars =>
      [screen = "locator" /\ screen' = "locator" /\ mode = "locate" /\ up /\ up'
       => mode' = "locate"]_vars
  BY HuntStep
<1> QED BY <1>1, TypeCorrect, HuntIsOnScreen, PTL DEF Spec, HuntUndisturbed

=============================================================================
