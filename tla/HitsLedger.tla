------------------------------ MODULE HitsLedger ------------------------------
(***************************************************************************)
(* What the hit store promises, without files, rows or program counters:   *)
(* which devices the app holds, which the card would give back, and the    *)
(* pledge a save makes to the devices it found when it began.              *)
(*                                                                         *)
(* The promise is in two actions.  Settle: a save that completes keeps     *)
(* every device it pledged to.  Resume: what comes back is exactly what    *)
(* was kept, less the devices the operator excluded.  And in one word used *)
(* by all the others: while a completed save is on the card, nothing but   *)
(* the next completed save or the operator touches it.                     *)
(***************************************************************************)
CONSTANT Devices

VARIABLES
  held,     \* the devices in the table
  kept,     \* the devices the next launch would find on the card
  durable,  \* a completed save is on the card
  pledge,   \* what the save in progress has promised to keep
  banned,   \* the devices the operator excluded
  enabled   \* the operator wants detections saved

vars == <<held, kept, durable, pledge, banned, enabled>>

Init ==
  /\ held = {} /\ kept = {} /\ pledge = {} /\ banned = {}
  /\ durable = FALSE
  /\ enabled \in BOOLEAN

\* The card may be scribbled on only while no completed save is on it.
Untouched ==
  /\ kept' \in SUBSET Devices
  /\ durable => kept' = kept
  /\ durable' = durable

\* A device is seen; making room for it may cost one other.
Observe ==
  \E d \in Devices : \E lost \in held \cup {d} :
    /\ held' = (held \ {lost}) \cup {d}
    /\ pledge' = pledge \cap held'
    /\ UNCHANGED <<kept, durable, banned, enabled>>

Pledge ==
  /\ enabled
  /\ pledge' = held
  /\ Untouched /\ UNCHANGED <<held, banned, enabled>>

Settle ==
  /\ enabled
  /\ kept' \in SUBSET Devices /\ pledge \subseteq kept'
  /\ durable' = TRUE
  /\ UNCHANGED <<held, pledge, banned, enabled>>

\* A save ends, whether it settled or gave up; or it works on its own file.
Withdraw ==
  /\ pledge' \in {pledge, {}}
  /\ Untouched /\ UNCHANGED <<held, banned, enabled>>

\* The app, or the table's memory, goes away and comes back.
Suspend ==
  /\ held' = {} /\ pledge' = {}
  /\ Untouched /\ UNCHANGED <<banned, enabled>>

Resume ==
  /\ held = {}
  /\ held' = IF enabled THEN kept \ banned ELSE {}
  /\ UNCHANGED <<kept, durable, pledge, banned, enabled>>

(* What only the operator may do. *)

Delete ==
  /\ pledge = {}
  /\ \E d \in held : held' \in {held, held \ {d}}
  /\ UNCHANGED <<kept, durable, pledge, banned, enabled>>

Erase ==
  /\ pledge = {}
  /\ durable' = FALSE
  /\ kept' \in SUBSET Devices
  /\ held' \in SUBSET held
  /\ UNCHANGED <<pledge, banned, enabled>>

Ban ==
  /\ pledge = {}
  /\ \E d \in Devices : banned' = banned \cup {d} /\ held' = held \ banned'
  /\ UNCHANGED <<kept, durable, pledge, enabled>>

Unban == banned' = {} /\ UNCHANGED <<held, kept, durable, pledge, enabled>>

Switch ==
  /\ enabled' = ~enabled
  /\ durable' = FALSE
  /\ UNCHANGED <<held, kept, pledge, banned>>

Next ==
  \/ Observe \/ Pledge \/ Settle \/ Withdraw \/ Suspend \/ Resume
  \/ Delete \/ Erase \/ Ban \/ Unban \/ Switch

Spec == Init /\ [][Next]_vars

=============================================================================
