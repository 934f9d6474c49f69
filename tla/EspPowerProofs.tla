--------------------------- MODULE EspPowerProofs ---------------------------
(***************************************************************************)
(* What is proved of EspPower for every grace period and any number of     *)
(* faults and of the operator's switchings: its type, that the boost is    *)
(* never forgotten, that one attempt is one, that silence was listened to, *)
(* and that the operator's rail is left alone.                             *)
(***************************************************************************)
EXTENDS EspPowerProps, TLAPS

\* Why NothingLeftOn holds: the watchdog gives up a rail only when it saw it down, and
\* only Ask makes it the app's.
RailInv == NothingLeftOn /\ (pc = "drop" => rail # "app")

\* Why OneAttempt holds: a tick on its way to the charger has spent the attempt, and
\* the watchdog reports only a rail that was asked for.
AttemptInv ==
  /\ OneAttempt
  /\ pc \in {"probe", "look", "ask", "settle"} => attempted
  /\ pc = "drop" => ours

\* Why GraceIsListened holds: while the attempt is open the stamp is no older than the
\* unanswered time, and with the setting off there is no stamp.
GraceInv ==
  /\ attempted \/ wait <= unanswered + 1
  /\ auto \/ wait = 0
  /\ GraceIsListened

\* Why UsersRailStays holds: a rail the operator raised in sight of the tick is not the
\* app's to put down, and the tick is not about to ask for it.
UserInv ==
  rail = "user" /\ ~raced => ~ours /\ ~taken /\ pc \notin {"ask", "settle"}

-----------------------------------------------------------------------------

\* Every step keeps the flags in their sets.
LEMMA FlagsStep ==
  ASSUME TypeOK, [Next]_vars
  PROVE  Flags'
<1>1. CASE Watch
  BY <1>1 DEF TypeOK, Flags, Watch, scene, flags, local, world, history
<1>2. CASE Drop
  BY <1>2 DEF TypeOK, Flags, Drop, scene, local, world, history
<1>3. CASE Decide
  <2>1. \/ UNCHANGED <<attempted, yielded>>
        \/ Answered
        \/ attempted' = TRUE /\ UNCHANGED yielded
    BY <1>3, Zenon DEF Decide
  <2>2. attempted' \in BOOLEAN /\ yielded' \in BOOLEAN
    BY <2>1 DEF TypeOK, Flags, Answered
  <2>3. UNCHANGED <<ours, failed, scene, local, world>>
    BY <1>3 DEF Decide
  <2> QED BY <2>2, <2>3 DEF TypeOK, Flags, scene, local, world
<1>4. CASE Probe
  BY <1>4 DEF TypeOK, Flags, Probe, scene, flags, world, history
<1>5. CASE Look
  BY <1>5 DEF TypeOK, Flags, Look, scene, flags, local, world
<1>6. CASE Ask
  <2>1. granted' \in BOOLEAN
    BY <1>6, Zenon DEF Ask
  <2>2. UNCHANGED <<sawVbus, taken, scene, flags, vbus, own, raced, history>>
    BY <1>6 DEF Ask
  <2> QED BY <2>1, <2>2 DEF TypeOK, Flags, scene, flags, history
<1>7. CASE Settle
  BY <1>7 DEF TypeOK, Flags, Settle, scene, local, world, history
<1>8. CASE Release
  BY <1>8 DEF TypeOK, Flags, Release, world, history
<1>9. CASE Lower
  <2>1. taken' \in BOOLEAN
    BY <1>9, Zenon DEF Lower
  <2>2. UNCHANGED <<sawVbus, granted, scene, flags, vbus, own, raced, history>>
    BY <1>9 DEF Lower
  <2> QED BY <2>1, <2>2 DEF TypeOK, Flags, scene, flags, history
<1>10. CASE Open
  BY <1>10 DEF TypeOK, Flags, Open, flags, local, world, history
<1>11. CASE Close
  BY <1>11 DEF TypeOK, Flags, Close, flags, local, world, history
<1>12. CASE Forget
  BY <1>12 DEF TypeOK, Flags, Forget, flags, local, world, history
<1>13. CASE Toggle
  BY <1>13 DEF TypeOK, Flags, Toggle, flags, local, world, history
<1>14. CASE Hear
  BY <1>14 DEF TypeOK, Flags, Hear, flags, local, world, history
<1>15. CASE Period
  BY <1>15 DEF TypeOK, Flags, Period, scene, local, world
<1>16. CASE Cable
  BY <1>16 DEF TypeOK, Flags, Cable, scene, flags, local, history
<1>17. CASE Board
  BY <1>17 DEF TypeOK, Flags, Board, scene, flags, local, history
<1>18. CASE Fault
  BY <1>18 DEF TypeOK, Flags, Fault, scene, flags, local, history
<1>19. CASE Raise
  BY <1>19 DEF TypeOK, Flags, Raise, scene, flags, local, history
<1>20. CASE Cut
  BY <1>20 DEF TypeOK, Flags, Cut, scene, flags, local, history
<1>21. CASE UNCHANGED vars
  BY <1>21 DEF TypeOK, Flags, vars
<1> QED
  BY <1>1, <1>2, <1>3, <1>4, <1>5, <1>6, <1>7, <1>8, <1>9, <1>10, <1>11, <1>12, <1>13,
     <1>14, <1>15, <1>16, <1>17, <1>18, <1>19, <1>20, <1>21 DEF Next, Tick, World

\* Every step keeps the names in theirs.
LEMMA NamesStep ==
  ASSUME TypeOK, [Next]_vars
  PROVE  Names'
<1>1. CASE Watch
  BY <1>1 DEF TypeOK, Names, Ports, Places, Rails, Watch, scene, flags, local, world,
     history
<1>2. CASE Drop
  BY <1>2 DEF TypeOK, Names, Ports, Places, Rails, Drop, scene, local, world, history
<1>3. CASE Decide
  BY <1>3 DEF TypeOK, Names, Ports, Places, Rails, Decide, scene, local, world, Waited,
     Counted, Answered
<1>4. CASE Probe
  BY <1>4 DEF TypeOK, Names, Ports, Places, Rails, Probe, scene, flags, world, history
<1>5. CASE Look
  BY <1>5 DEF TypeOK, Names, Ports, Places, Rails, Look, scene, flags, local, world
<1>6. CASE Ask
  BY <1>6 DEF TypeOK, Names, Ports, Places, Rails, Ask, scene, flags, history
<1>7. CASE Settle
  BY <1>7 DEF TypeOK, Names, Ports, Places, Rails, Settle, scene, local, world, history
<1>8. CASE Release
  BY <1>8 DEF TypeOK, Names, Ports, Places, Rails, Release, world, history
<1>9. CASE Lower
  BY <1>9 DEF TypeOK, Names, Ports, Places, Rails, Lower, scene, flags, history
<1>10. CASE Open
  BY <1>10 DEF TypeOK, Names, Ports, Places, Rails, Open, flags, local, world, history
<1>11. CASE Close
  BY <1>11 DEF TypeOK, Names, Ports, Places, Rails, Close, flags, local, world, history
<1>12. CASE Forget
  BY <1>12 DEF TypeOK, Names, Ports, Places, Rails, Forget, flags, local, world, history
<1>13. CASE Toggle
  BY <1>13 DEF TypeOK, Names, Ports, Places, Rails, Toggle, flags, local, world, history
<1>14. CASE Hear
  BY <1>14 DEF TypeOK, Names, Ports, Places, Rails, Hear, flags, local, world, history
<1>15. CASE Period
  BY <1>15 DEF TypeOK, Names, Ports, Places, Rails, Period, scene, local, world
<1>16. CASE Cable
  BY <1>16 DEF TypeOK, Names, Ports, Places, Rails, Cable, scene, flags, local, history
<1>17. CASE Board
  BY <1>17 DEF TypeOK, Names, Ports, Places, Rails, Board, scene, flags, local, history
<1>18. CASE Fault
  BY <1>18 DEF TypeOK, Names, Ports, Places, Rails, Fault, scene, flags, local, history
<1>19. CASE Raise
  BY <1>19 DEF TypeOK, Names, Ports, Places, Rails, Raise, scene, flags, local, history
<1>20. CASE Cut
  BY <1>20 DEF TypeOK, Names, Ports, Places, Rails, Cut, scene, flags, local, history
<1>21. CASE UNCHANGED vars
  BY <1>21 DEF TypeOK, Names, Ports, Places, Rails, vars
<1> QED
  BY <1>1, <1>2, <1>3, <1>4, <1>5, <1>6, <1>7, <1>8, <1>9, <1>10, <1>11, <1>12, <1>13,
     <1>14, <1>15, <1>16, <1>17, <1>18, <1>19, <1>20, <1>21 DEF Next, Tick, World

\* Every step keeps the counts in theirs.
LEMMA CountsStep ==
  ASSUME TypeOK, [Next]_vars
  PROVE  Counts'
<1>1. CASE Watch
  BY <1>1, GraceAssumption, BoundsAssumption DEF TypeOK, Counts, Watch, scene, flags,
     local, world, history
<1>2. CASE Drop
  BY <1>2, GraceAssumption, BoundsAssumption DEF TypeOK, Counts, Drop, scene, local,
     world, history
<1>3. CASE Decide
  BY <1>3, GraceAssumption, BoundsAssumption DEF TypeOK, Counts, Decide, scene, local,
     world, Waited, Counted, Answered
<1>4. CASE Probe
  BY <1>4, GraceAssumption, BoundsAssumption DEF TypeOK, Counts, Probe, scene, flags,
     world, history
<1>5. CASE Look
  BY <1>5, GraceAssumption, BoundsAssumption DEF TypeOK, Counts, Look, scene, flags,
     local, world
<1>6. CASE Ask
  BY <1>6, GraceAssumption, BoundsAssumption DEF TypeOK, Counts, Ask, scene, flags,
     history
<1>7. CASE Settle
  BY <1>7, GraceAssumption, BoundsAssumption DEF TypeOK, Counts, Settle, scene, local,
     world, history
<1>8. CASE Release
  BY <1>8, GraceAssumption, BoundsAssumption DEF TypeOK, Counts, Release, world, history
<1>9. CASE Lower
  BY <1>9, GraceAssumption, BoundsAssumption DEF TypeOK, Counts, Lower, scene, flags,
     history
<1>10. CASE Open
  BY <1>10, GraceAssumption, BoundsAssumption DEF TypeOK, Counts, Open, flags, local,
     world, history
<1>11. CASE Close
  BY <1>11, GraceAssumption, BoundsAssumption DEF TypeOK, Counts, Close, flags, local,
     world, history
<1>12. CASE Forget
  BY <1>12, GraceAssumption, BoundsAssumption DEF TypeOK, Counts, Forget, flags, local,
     world, history
<1>13. CASE Toggle
  BY <1>13, GraceAssumption, BoundsAssumption DEF TypeOK, Counts, Toggle, flags, local,
     world, history
<1>14. CASE Hear
  BY <1>14, GraceAssumption, BoundsAssumption DEF TypeOK, Counts, Hear, flags, local,
     world, history
<1>15. CASE Period
  BY <1>15, GraceAssumption, BoundsAssumption DEF TypeOK, Counts, Period, scene, local,
     world
<1>16. CASE Cable
  BY <1>16, GraceAssumption, BoundsAssumption DEF TypeOK, Counts, Cable, scene, flags,
     local, history
<1>17. CASE Board
  BY <1>17, GraceAssumption, BoundsAssumption DEF TypeOK, Counts, Board, scene, flags,
     local, history
<1>18. CASE Fault
  BY <1>18, GraceAssumption, BoundsAssumption DEF TypeOK, Counts, Fault, scene, flags,
     local, history
<1>19. CASE Raise
  BY <1>19, GraceAssumption, BoundsAssumption DEF TypeOK, Counts, Raise, scene, flags,
     local, history
<1>20. CASE Cut
  BY <1>20, GraceAssumption, BoundsAssumption DEF TypeOK, Counts, Cut, scene, flags,
     local, history
<1>21. CASE UNCHANGED vars
  BY <1>21 DEF TypeOK, Counts, vars
<1> QED
  BY <1>1, <1>2, <1>3, <1>4, <1>5, <1>6, <1>7, <1>8, <1>9, <1>10, <1>11, <1>12, <1>13,
     <1>14, <1>15, <1>16, <1>17, <1>18, <1>19, <1>20, <1>21 DEF Next, Tick, World

\* The shape of the state, for all constants.
THEOREM TypeCorrect == Spec => []TypeOK
<1>1. Init => TypeOK
  <2>1. Init => Flags
    BY DEF Init, Flags
  <2>2. Init => Names
    BY DEF Init, Names, Ports, Rails, Places
  <2>3. Init => Counts
    BY GraceAssumption, BoundsAssumption DEF Init, Counts
  <2> QED BY <2>1, <2>2, <2>3 DEF TypeOK
<1>2. TypeOK /\ [Next]_vars => TypeOK'
  BY FlagsStep, NamesStep, CountsStep DEF TypeOK
<1> QED BY <1>1, <1>2, PTL DEF Spec

-----------------------------------------------------------------------------
\* Every step keeps account of who raised the rail.
LEMMA RailInvStep ==
  ASSUME TypeOK, RailInv, [Next]_vars
  PROVE  RailInv'
<1>1. CASE Watch
  BY <1>1 DEF TypeOK, Flags, Names, RailInv, NothingLeftOn, Rails, Watch, scene, flags,
     local, world, history
<1>2. CASE Drop
  BY <1>2 DEF TypeOK, Flags, Names, RailInv, NothingLeftOn, Rails, Drop, scene, local,
     world, history
<1>3. CASE Decide
  BY <1>3 DEF TypeOK, Flags, Names, RailInv, NothingLeftOn, Rails, Decide, scene,
     local, world, Waited, Counted, Answered
<1>4. CASE Probe
  BY <1>4 DEF TypeOK, Flags, Names, RailInv, NothingLeftOn, Rails, Probe, scene, flags,
     world, history
<1>5. CASE Look
  BY <1>5 DEF TypeOK, Flags, Names, RailInv, NothingLeftOn, Rails, Look, scene, flags,
     local, world
<1>6. CASE Ask
  BY <1>6 DEF TypeOK, Flags, Names, RailInv, NothingLeftOn, Rails, Ask, scene, flags,
     history
<1>7. CASE Settle
  BY <1>7 DEF TypeOK, Flags, Names, RailInv, NothingLeftOn, Rails, Settle, scene,
     local, world, history
<1>8. CASE Release
  BY <1>8 DEF TypeOK, Flags, Names, RailInv, NothingLeftOn, Rails, Release, world,
     history
<1>9. CASE Lower
  BY <1>9 DEF TypeOK, Flags, Names, RailInv, NothingLeftOn, Rails, Lower, scene, flags,
     history
<1>10. CASE Open
  BY <1>10 DEF TypeOK, Flags, Names, RailInv, NothingLeftOn, Rails, Open, flags, local,
     world, history
<1>11. CASE Close
  BY <1>11 DEF TypeOK, Flags, Names, RailInv, NothingLeftOn, Rails, Close, flags,
     local, world, history
<1>12. CASE Forget
  BY <1>12 DEF TypeOK, Flags, Names, RailInv, NothingLeftOn, Rails, Forget, flags,
     local, world, history
<1>13. CASE Toggle
  BY <1>13 DEF TypeOK, Flags, Names, RailInv, NothingLeftOn, Rails, Toggle, flags,
     local, world, history
<1>14. CASE Hear
  BY <1>14 DEF TypeOK, Flags, Names, RailInv, NothingLeftOn, Rails, Hear, flags, local,
     world, history
<1>15. CASE Period
  BY <1>15 DEF TypeOK, Flags, Names, RailInv, NothingLeftOn, Rails, Period, scene,
     local, world
<1>16. CASE Cable
  BY <1>16 DEF TypeOK, Flags, Names, RailInv, NothingLeftOn, Rails, Cable, scene,
     flags, local, history
<1>17. CASE Board
  BY <1>17 DEF TypeOK, Flags, Names, RailInv, NothingLeftOn, Rails, Board, scene,
     flags, local, history
<1>18. CASE Fault
  BY <1>18 DEF TypeOK, Flags, Names, RailInv, NothingLeftOn, Rails, Fault, scene,
     flags, local, history
<1>19. CASE Raise
  BY <1>19 DEF TypeOK, Flags, Names, RailInv, NothingLeftOn, Rails, Raise, scene,
     flags, local, history
<1>20. CASE Cut
  BY <1>20 DEF TypeOK, Flags, Names, RailInv, NothingLeftOn, Rails, Cut, scene, flags,
     local, history
<1>21. CASE UNCHANGED vars
  BY <1>21 DEF TypeOK, Flags, Names, RailInv, NothingLeftOn, Rails, vars
<1> QED
  BY <1>1, <1>2, <1>3, <1>4, <1>5, <1>6, <1>7, <1>8, <1>9, <1>10, <1>11, <1>12, <1>13,
     <1>14, <1>15, <1>16, <1>17, <1>18, <1>19, <1>20, <1>21 DEF Next, Tick, World

\* A boost of the app's own is one it will put down, up to the last step of its exit.
THEOREM NothingForgotten == Spec => []NothingLeftOn
<1>1. Init => RailInv
  BY DEF Init, RailInv, NothingLeftOn
<1>2. TypeOK /\ RailInv /\ [Next]_vars => RailInv'
  BY RailInvStep
<1>3. RailInv => NothingLeftOn
  BY DEF RailInv
<1> QED BY <1>1, <1>2, <1>3, TypeCorrect, PTL DEF Spec

-----------------------------------------------------------------------------
\* Every step keeps the attempt spent that is spent for good.
LEMMA AttemptInvStep ==
  ASSUME TypeOK, AttemptInv, [Next]_vars
  PROVE  AttemptInv'
<1>1. CASE Watch
  BY <1>1 DEF AttemptInv, OneAttempt, Watch, scene, flags, local, world, history
<1>2. CASE Drop
  BY <1>2 DEF AttemptInv, OneAttempt, Drop, scene, local, world, history
<1>3. CASE Decide
  <2>1. failed' = failed /\ ours' = ours
    BY <1>3 DEF Decide
  <2>2. CASE port = "closed" \/ ~auto \/ attempted
    <3>1. pc' = "idle" /\ attempted' = attempted /\ yielded' = yielded
      BY <1>3, <2>2, Zenon DEF Decide
    <3> QED BY <2>1, <3>1 DEF AttemptInv, OneAttempt
  <2>3. CASE port # "closed" /\ auto /\ ~attempted /\ connected
    <3>1. pc' = "idle" /\ attempted'
      BY <1>3, <2>3 DEF Decide, Answered
    <3> QED BY <3>1 DEF AttemptInv, OneAttempt
  <2>4. CASE port # "closed" /\ auto /\ ~attempted /\ ~connected
    <3>1. /\ yielded' = yielded
          /\ \/ pc' = "idle" /\ attempted' = attempted
             \/ pc' = "probe" /\ attempted' = TRUE
      BY <1>3, <2>4, Zenon DEF Decide
    <3>2. ~failed /\ ~ours /\ ~yielded
      BY <2>4 DEF AttemptInv, OneAttempt
    <3> QED BY <2>1, <3>1, <3>2 DEF AttemptInv, OneAttempt
  <2> QED BY <2>2, <2>3, <2>4
<1>4. CASE Probe
  BY <1>4 DEF AttemptInv, OneAttempt, Probe, scene, flags, world, history
<1>5. CASE Look
  BY <1>5 DEF AttemptInv, OneAttempt, Look, scene, flags, local, world
<1>6. CASE Ask
  BY <1>6 DEF AttemptInv, OneAttempt, Ask, scene, flags, history
<1>7. CASE Settle
  <2>1. attempted /\ ~failed /\ ~yielded /\ ~ours
    BY <1>7 DEF Settle, AttemptInv, OneAttempt
  <2>2. pc' = "idle" /\ yielded' = yielded
    BY <1>7 DEF Settle, history
  <2>3. CASE granted
    <3>1. attempted' = attempted
      BY <1>7, <2>3 DEF Settle
    <3> QED BY <2>1, <2>2, <3>1 DEF AttemptInv, OneAttempt
  <2>4. CASE ~granted /\ sawVbus
    <3>1. failed' = failed /\ ours' = ours
      BY <1>7, <2>4, Zenon DEF Settle
    <3> QED BY <2>1, <2>2, <3>1 DEF AttemptInv, OneAttempt
  <2>5. CASE ~granted /\ ~sawVbus
    <3>1. attempted' = attempted
      BY <1>7, <2>5 DEF Settle
    <3> QED BY <2>1, <2>2, <3>1 DEF AttemptInv, OneAttempt
  <2> QED BY <2>3, <2>4, <2>5
<1>8. CASE Release
  BY <1>8 DEF AttemptInv, OneAttempt, Release, world, history
<1>9. CASE Lower
  BY <1>9 DEF AttemptInv, OneAttempt, Lower, scene, flags, history
<1>10. CASE Open
  BY <1>10 DEF AttemptInv, OneAttempt, Open, flags, local, world, history
<1>11. CASE Close
  BY <1>11 DEF AttemptInv, OneAttempt, Close, flags, local, world, history
<1>12. CASE Forget
  BY <1>12 DEF AttemptInv, OneAttempt, Forget, flags, local, world, history
<1>13. CASE Toggle
  BY <1>13 DEF AttemptInv, OneAttempt, Toggle, flags, local, world, history
<1>14. CASE Hear
  BY <1>14 DEF AttemptInv, OneAttempt, Hear, flags, local, world, history
<1>15. CASE Period
  BY <1>15 DEF AttemptInv, OneAttempt, Period, scene, local, world
<1>16. CASE Cable
  BY <1>16 DEF AttemptInv, OneAttempt, Cable, scene, flags, local, history
<1>17. CASE Board
  BY <1>17 DEF AttemptInv, OneAttempt, Board, scene, flags, local, history
<1>18. CASE Fault
  BY <1>18 DEF AttemptInv, OneAttempt, Fault, scene, flags, local, history
<1>19. CASE Raise
  BY <1>19 DEF AttemptInv, OneAttempt, Raise, scene, flags, local, history
<1>20. CASE Cut
  BY <1>20 DEF AttemptInv, OneAttempt, Cut, scene, flags, local, history
<1>21. CASE UNCHANGED vars
  BY <1>21 DEF AttemptInv, OneAttempt, vars
<1> QED
  BY <1>1, <1>2, <1>3, <1>4, <1>5, <1>6, <1>7, <1>8, <1>9, <1>10, <1>11, <1>12, <1>13,
     <1>14, <1>15, <1>16, <1>17, <1>18, <1>19, <1>20, <1>21 DEF Next, Tick, World

\* No tick reaches for the charger after a fault, an answer, a rail found up, or success.
THEOREM AttemptIsFinal == Spec => []OneAttempt
<1>1. Init => AttemptInv
  BY DEF Init, AttemptInv, OneAttempt
<1>2. TypeOK /\ AttemptInv /\ [Next]_vars => AttemptInv'
  BY AttemptInvStep
<1>3. AttemptInv => OneAttempt
  BY DEF AttemptInv
<1> QED BY <1>1, <1>2, <1>3, TypeCorrect, PTL DEF Spec

-----------------------------------------------------------------------------
\* Every step keeps the stamp within the unanswered time.
LEMMA GraceInvStep ==
  ASSUME TypeOK, GraceInv, [Next]_vars
  PROVE  GraceInv'
<1>1. CASE Watch
  BY <1>1, GraceAssumption DEF TypeOK, Flags, Counts, GraceInv, GraceIsListened, Watch,
     scene, flags, local, world, history
<1>2. CASE Drop
  BY <1>2, GraceAssumption DEF TypeOK, Flags, Counts, GraceInv, GraceIsListened, Drop,
     scene, local, world, history
<1>3. CASE Decide
  BY <1>3, GraceAssumption DEF TypeOK, Flags, Counts, GraceInv, GraceIsListened,
     Decide, scene, local, world, Waited, Counted, Answered
<1>4. CASE Probe
  BY <1>4, GraceAssumption DEF TypeOK, Flags, Counts, GraceInv, GraceIsListened, Probe,
     scene, flags, world, history
<1>5. CASE Look
  BY <1>5, GraceAssumption DEF TypeOK, Flags, Counts, GraceInv, GraceIsListened, Look,
     scene, flags, local, world
<1>6. CASE Ask
  BY <1>6, GraceAssumption DEF TypeOK, Flags, Counts, GraceInv, GraceIsListened, Ask,
     scene, flags, history
<1>7. CASE Settle
  BY <1>7, GraceAssumption DEF TypeOK, Flags, Counts, GraceInv, GraceIsListened,
     Settle, scene, local, world, history
<1>8. CASE Release
  BY <1>8, GraceAssumption DEF TypeOK, Flags, Counts, GraceInv, GraceIsListened,
     Release, world, history
<1>9. CASE Lower
  BY <1>9, GraceAssumption DEF TypeOK, Flags, Counts, GraceInv, GraceIsListened, Lower,
     scene, flags, history
<1>10. CASE Open
  BY <1>10, GraceAssumption DEF TypeOK, Flags, Counts, GraceInv, GraceIsListened, Open,
     flags, local, world, history
<1>11. CASE Close
  BY <1>11, GraceAssumption DEF TypeOK, Flags, Counts, GraceInv, GraceIsListened,
     Close, flags, local, world, history
<1>12. CASE Forget
  BY <1>12, GraceAssumption DEF TypeOK, Flags, Counts, GraceInv, GraceIsListened,
     Forget, flags, local, world, history
<1>13. CASE Toggle
  BY <1>13, GraceAssumption DEF TypeOK, Flags, Counts, GraceInv, GraceIsListened,
     Toggle, flags, local, world, history
<1>14. CASE Hear
  BY <1>14, GraceAssumption DEF TypeOK, Flags, Counts, GraceInv, GraceIsListened, Hear,
     flags, local, world, history
<1>15. CASE Period
  BY <1>15, GraceAssumption DEF TypeOK, Flags, Counts, GraceInv, GraceIsListened,
     Period, scene, local, world
<1>16. CASE Cable
  BY <1>16, GraceAssumption DEF TypeOK, Flags, Counts, GraceInv, GraceIsListened,
     Cable, scene, flags, local, history
<1>17. CASE Board
  BY <1>17, GraceAssumption DEF TypeOK, Flags, Counts, GraceInv, GraceIsListened,
     Board, scene, flags, local, history
<1>18. CASE Fault
  BY <1>18, GraceAssumption DEF TypeOK, Flags, Counts, GraceInv, GraceIsListened,
     Fault, scene, flags, local, history
<1>19. CASE Raise
  BY <1>19, GraceAssumption DEF TypeOK, Flags, Counts, GraceInv, GraceIsListened,
     Raise, scene, flags, local, history
<1>20. CASE Cut
  BY <1>20, GraceAssumption DEF TypeOK, Flags, Counts, GraceInv, GraceIsListened, Cut,
     scene, flags, local, history
<1>21. CASE UNCHANGED vars
  BY <1>21 DEF TypeOK, Flags, Counts, GraceInv, GraceIsListened, vars
<1> QED
  BY <1>1, <1>2, <1>3, <1>4, <1>5, <1>6, <1>7, <1>8, <1>9, <1>10, <1>11, <1>12, <1>13,
     <1>14, <1>15, <1>16, <1>17, <1>18, <1>19, <1>20, <1>21 DEF Next, Tick, World

\* The boost is decided on after a whole grace period of unanswered listening.
THEOREM SilenceIsListened == Spec => []GraceIsListened
<1>1. Init => GraceInv
  BY GraceAssumption DEF Init, GraceInv, GraceIsListened
<1>2. TypeOK /\ GraceInv /\ [Next]_vars => GraceInv'
  BY GraceInvStep
<1>3. GraceInv => GraceIsListened
  BY DEF GraceInv
<1> QED BY <1>1, <1>2, <1>3, TypeCorrect, PTL DEF Spec

-----------------------------------------------------------------------------
\* Every step leaves the operator's rail to the operator.
LEMMA UserInvStep ==
  ASSUME TypeOK, UserInv, [Next]_vars
  PROVE  UserInv'
<1>1. CASE Watch
  BY <1>1 DEF TypeOK, Flags, UserInv, Watch, scene, flags, local, world, history
<1>2. CASE Drop
  BY <1>2 DEF TypeOK, Flags, UserInv, Drop, scene, local, world, history
<1>3. CASE Decide
  BY <1>3 DEF TypeOK, Flags, UserInv, Decide, scene, local, world, Waited, Counted,
     Answered
<1>4. CASE Probe
  BY <1>4 DEF TypeOK, Flags, UserInv, Probe, scene, flags, world, history
<1>5. CASE Look
  BY <1>5 DEF TypeOK, Flags, UserInv, Look, scene, flags, local, world
<1>6. CASE Ask
  BY <1>6 DEF TypeOK, Flags, UserInv, Ask, scene, flags, history
<1>7. CASE Settle
  BY <1>7 DEF TypeOK, Flags, UserInv, Settle, scene, local, world, history
<1>8. CASE Release
  BY <1>8 DEF TypeOK, Flags, UserInv, Release, world, history
<1>9. CASE Lower
  BY <1>9 DEF TypeOK, Flags, UserInv, Lower, scene, flags, history
<1>10. CASE Open
  BY <1>10 DEF TypeOK, Flags, UserInv, Open, flags, local, world, history
<1>11. CASE Close
  BY <1>11 DEF TypeOK, Flags, UserInv, Close, flags, local, world, history
<1>12. CASE Forget
  BY <1>12 DEF TypeOK, Flags, UserInv, Forget, flags, local, world, history
<1>13. CASE Toggle
  BY <1>13 DEF TypeOK, Flags, UserInv, Toggle, flags, local, world, history
<1>14. CASE Hear
  BY <1>14 DEF TypeOK, Flags, UserInv, Hear, flags, local, world, history
<1>15. CASE Period
  BY <1>15 DEF TypeOK, Flags, UserInv, Period, scene, local, world
<1>16. CASE Cable
  BY <1>16 DEF TypeOK, Flags, UserInv, Cable, scene, flags, local, history
<1>17. CASE Board
  BY <1>17 DEF TypeOK, Flags, UserInv, Board, scene, flags, local, history
<1>18. CASE Fault
  BY <1>18 DEF TypeOK, Flags, UserInv, Fault, scene, flags, local, history
<1>19. CASE Raise
  BY <1>19 DEF TypeOK, Flags, UserInv, Raise, scene, flags, local, history
<1>20. CASE Cut
  BY <1>20 DEF TypeOK, Flags, UserInv, Cut, scene, flags, local, history
<1>21. CASE UNCHANGED vars
  BY <1>21 DEF TypeOK, Flags, UserInv, vars
<1> QED
  BY <1>1, <1>2, <1>3, <1>4, <1>5, <1>6, <1>7, <1>8, <1>9, <1>10, <1>11, <1>12, <1>13,
     <1>14, <1>15, <1>16, <1>17, <1>18, <1>19, <1>20, <1>21 DEF Next, Tick, World

\* One step of the app leaves the rail up that the operator raised.
LEMMA RailLeftAlone ==
  ASSUME UserInv, [Next]_vars, rail = "user", ~raced, pc' # pc
  PROVE  rail' = "user"
<1>1. CASE Tick
  <2>1. ~Ask
    BY DEF Ask, UserInv
  <2> QED BY <1>1, <2>1 DEF Tick, Watch, Drop, Decide, Probe, Look, Settle, world
<1>2. CASE Release \/ Lower
  BY <1>2 DEF Release, Lower, UserInv, world
<1>3. CASE Open \/ Close \/ Forget \/ Toggle \/ Hear \/ World
  BY <1>3 DEF Open, Close, Forget, Toggle, Hear, World, Period, Cable, Board, Fault,
     Raise, Cut
<1> QED BY <1>1, <1>2, <1>3 DEF Next, vars

\* A rail the operator raised is left alone by every step of the app, to its exit.
THEOREM UsersRailKept == Spec => UsersRailStays
<1>1. Init => UserInv
  BY DEF Init, UserInv
<1>2. TypeOK /\ UserInv /\ [Next]_vars => UserInv'
  BY UserInvStep
<1>3. UserInv /\ [Next]_vars => [rail = "user" /\ ~raced /\ pc' # pc => rail' = "user"]_vars
  BY RailLeftAlone
<1> QED BY <1>1, <1>2, <1>3, TypeCorrect, PTL DEF Spec, UsersRailStays

=============================================================================
