---------------------------- MODULE EspPowerProps ----------------------------
(***************************************************************************)
(* What the 5 V feature promises the board, the battery and the operator.  *)
(***************************************************************************)
EXTENDS EspPower

Flags ==
  /\ connected \in BOOLEAN /\ auto \in BOOLEAN
  /\ attempted \in BOOLEAN /\ ours \in BOOLEAN /\ failed \in BOOLEAN
  /\ sawVbus \in BOOLEAN /\ granted \in BOOLEAN /\ taken \in BOOLEAN
  /\ vbus \in BOOLEAN /\ own \in BOOLEAN /\ yielded \in BOOLEAN /\ raced \in BOOLEAN

Names == port \in Ports /\ pc \in Places /\ rail \in Rails

Counts ==
  /\ wait \in 0..(Grace + 1) /\ unanswered \in 0..Grace
  /\ faults \in 0..MaxFaults /\ hands \in 0..MaxHands

\* The shape of the state; the stamp saturates one past the grace period.
TypeOK == Flags /\ Names /\ Counts

\* A boost the app raised is one it will switch off: there is no path on which it is up
\* and forgotten, and none on which it outlives the app ("leaving a boost converter
\* running after the app exits would flatten the battery").
NothingLeftOn ==
  rail = "app" =>
    \/ ours /\ pc \notin {"off", "gone"}
    \/ pc = "settle" /\ granted
    \/ pc = "off" /\ taken

\* "Retrying a boost that just faulted is how you cook a board", "nothing to do, ever,
\* this run": after a fault, after an answer, after finding the rail up, and while its own
\* is up, no tick reaches for the boost again, whatever the settings, scenes and cable do.
OneAttempt ==
  failed \/ yielded \/ ours => attempted /\ pc \notin {"probe", "look", "ask", "settle"}

\* The boost is decided on only after the whole grace period in which every tick found a
\* session and no answer: neither time on the menu nor time before an answer counts.
GraceIsListened == pc = "probe" => unanswered = Grace

\* A rail the operator raised is never turned off by the app, unless it was raised in the
\* gap the tick cannot see: "turning off a rail the user switched on for their own reasons
\* would be equally wrong".
UsersRailStays == [][rail = "user" /\ ~raced /\ pc' # pc => rail' = "user"]_vars

\* A board that stays silent on an open port is not left without power for good: on
\* battery, with the setting on, either the boost comes up or the operator is told.  A
\* cable that made the charger refuse is not held against it once pulled.
PowerArrives ==
  ~<>[](port = "open" /\ auto /\ ~vbus /\ ~connected /\ rail = "off" /\ ~failed /\ ~yielded)

=============================================================================
