------------------------------ MODULE GpsSources ------------------------------
(***************************************************************************)
(* Where the position comes from, and how old it may be when a detection   *)
(* is tagged with it: a receiver on the Flipper's own UART, one on the     *)
(* companion whose sentences are relayed, or a phone over RPC.  A tick is  *)
(* one second; sentences travel in two pieces, head and tail.              *)
(***************************************************************************)
EXTENDS Integers, Sequences, FiniteSets

CONSTANTS
  Sources,   \* of "flipper", "board", "phone"
  Burst,     \* the sentences a receiver sends each second, in order
  RxCap,     \* pieces the receive buffer holds
  Stale,     \* RECON_GPS_STALE_MS, in ticks
  Hold,      \* the longest a drain of the buffer is put off
  Retry,     \* GPS_RPC_RETRY_MS, in ticks
  Levels     \* signal levels, each more than 6 dB above the one before

ASSUME GpsAssumption ==
  /\ {RxCap, Stale} \subseteq Nat \ {0} /\ {Hold, Retry} \subseteq Nat
  /\ Burst \in Seq({"GGA", "RMC", "GLL"}) /\ Levels \subseteq Nat \ {0}

VARIABLES
  gps_source, gps_open,        \* gps_source; a scan session is running
  gps_fix,                     \* gps_valid, ticks since gps_fix_tick, and since it was measured
  geotag,                      \* the level the detection was tagged at, 0 if it was not
  gps_rx, gps_line,            \* what was received; the piece of a sentence read so far
  relayed_lines,               \* sentences the companion has relayed
  receiver_says, burst_sent,   \* what the receiver says this second, the pieces sent of it
  unread_for,                  \* ticks since the last drain
  phone, asking,               \* app->gps_phone; the request whose outcome is to be recorded
  call,                        \* what the RPC thread has yet to record, "none" if nothing
  client, serving,             \* the phone: absent, willing or denying; streams to us
  retry                        \* ticks since the last request

receiver == <<receiver_says, burst_sent>>
stream == <<gps_rx, gps_line, relayed_lines, unread_for>>
rpc == <<phone, asking, call, client, serving, retry>>
gps_vars == <<gps_source, gps_open, gps_fix, geotag, receiver, stream, rpc>>

Old == Stale + Hold + 1
Capped(n, max) == IF n > max THEN max ELSE n
NoFix == [valid |-> FALSE, stamp |-> Old, born |-> Old]
NoPiece == [type |-> "none"]
Order == <<"GGA", "RMC", "GLL">>   \* satellites before position and course

GpsInit ==
  /\ gps_source \in Sources /\ gps_open = FALSE
  /\ gps_fix = NoFix /\ geotag = 0
  /\ gps_rx = <<>> /\ gps_line = NoPiece /\ relayed_lines = <<>> /\ unread_for = 0
  /\ receiver_says = "fix" /\ burst_sent = 0
  /\ phone = "off" /\ asking = "none" /\ call = "none"
  /\ client = "absent" /\ serving = FALSE /\ retry = 0

-----------------------------------------------------------------------------
(* gps_publish_fix(): a sane position is taken and stamped, a lost lock    *)
(* withdraws the last one, a garbled position is ignored.                  *)
gps_publish_fix(verdict, born) ==
  gps_fix' = CASE verdict = "fix" -> [valid |-> TRUE, stamp |-> 0, born |-> born]
           [] verdict = "lost" -> NoFix
           [] OTHER -> gps_fix

(* The receiver's side: piece by piece, a second's burst; what no longer   *)
(* fits is dropped.                                                        *)
Piece(i) ==
  [type |-> Burst[(i + 1) \div 2], part |-> IF i % 2 = 1 THEN "head" ELSE "tail",
   verdict |-> receiver_says, age |-> 0]

Emit ==
  /\ gps_source # "phone" /\ receiver_says # "silent" /\ burst_sent < 2 * Len(Burst)
  /\ burst_sent' = burst_sent + 1
  /\ gps_rx' = IF ~gps_open \/ Len(gps_rx) >= RxCap THEN gps_rx
               ELSE Append(gps_rx, Piece(burst_sent + 1))
  /\ UNCHANGED <<gps_source, gps_open, gps_fix, geotag, receiver_says, gps_line, relayed_lines,
                 unread_for, rpc>>

(* The sky, or the plug, changes between bursts.                           *)
Sky ==
  /\ gps_source # "phone" /\ burst_sent = 0
  /\ receiver_says' \in {"fix", "lost", "garbled", "silent"} \ {receiver_says}
  /\ UNCHANGED <<gps_source, gps_open, gps_fix, geotag, burst_sent, stream, rpc>>

(* What reading a piece leaves in the line buffer: a second head runs into *)
(* the first.  A line is a sentence if its pieces belong together; the     *)
(* checksum rejects the others.                                            *)
LineAfter(held, p) ==
  IF p.part = "tail" THEN NoPiece
  ELSE IF held = NoPiece THEN p ELSE [p EXCEPT !.verdict = "spoiled"]

Completed(held, p) ==
  p.part = "tail" /\ held = [p EXCEPT !.part = "head"]

(* The Flipper's own worker applies every sentence as it ends.             *)
gps_worker ==
  /\ gps_source = "flipper" /\ gps_rx # <<>>
  /\ gps_rx' = Tail(gps_rx) /\ gps_line' = LineAfter(gps_line, Head(gps_rx))
  /\ unread_for' = IF Len(gps_rx) = 1 THEN 0 ELSE unread_for
  /\ IF Completed(gps_line, Head(gps_rx))
     THEN gps_publish_fix(Head(gps_rx).verdict, Head(gps_rx).age)
     ELSE UNCHANGED gps_fix
  /\ UNCHANGED <<gps_source, gps_open, geotag, receiver, relayed_lines, rpc>>

(* gps_poll(): all that is buffered is read, and of each kind the newest   *)
(* sentence relayed, in a fixed order.  Relaying one uses the line buffer. *)
ReadAll[i \in 0..Len(gps_rx)] ==
  IF i = 0 THEN gps_line ELSE LineAfter(ReadAll[i - 1], gps_rx[i])

Ended == {i \in DOMAIN gps_rx : Completed(ReadAll[i - 1], gps_rx[i])}

NewestOf(t) ==
  LET S == {i \in Ended : gps_rx[i].type = t}
  IN  IF S = {} THEN <<>> ELSE <<gps_rx[CHOOSE i \in S : \A j \in S : j <= i]>>

Relayed == NewestOf(Order[1]) \o NewestOf(Order[2]) \o NewestOf(Order[3])

gps_poll ==
  /\ gps_source = "board" /\ gps_rx # <<>> /\ relayed_lines = <<>>
  /\ relayed_lines' = Relayed
  /\ gps_line' = IF Relayed = <<>> THEN ReadAll[Len(gps_rx)] ELSE NoPiece
  /\ gps_rx' = <<>> /\ unread_for' = 0
  /\ UNCHANGED <<gps_source, gps_open, gps_fix, geotag, receiver, rpc>>

(* A G line reaches the app, or is lost; only the selected source counts.  *)
Relay ==
  /\ relayed_lines # <<>>
  /\ relayed_lines' = Tail(relayed_lines)
  /\ \/ gps_publish_fix(Head(relayed_lines).verdict, Head(relayed_lines).age)
     \/ UNCHANGED gps_fix
  /\ UNCHANGED <<gps_source, gps_open, geotag, receiver, gps_rx, gps_line, unread_for, rpc>>

-----------------------------------------------------------------------------
(* The phone.  A request is made on the GUI thread, and its outcome        *)
(* recorded there; the phone answers on the RPC thread, the position first *)
(* and then the state, in two sections.                                    *)

Refusals == {"no_permission", "disabled", "no_fix"}

gps_rpc_request ==
  /\ asking' = IF client = "absent" THEN "no_client" ELSE "waiting"
  /\ serving' = (client = "willing")
  /\ retry' = 0

Record ==
  /\ asking # "none"
  /\ phone' = asking /\ asking' = "none"
  /\ UNCHANGED <<gps_source, gps_open, gps_fix, geotag, receiver, stream, call, client, serving,
                 retry>>

(* Seeded defect: only an absent phone is asked again.                     *)
TickAbsentOnly ==
  /\ gps_source = "phone" /\ gps_open /\ asking = "none"
  /\ phone = "no_client"
  /\ retry >= Retry
  /\ gps_rpc_request
  /\ UNCHANGED <<gps_source, gps_open, gps_fix, geotag, receiver, stream, phone, call, client>>

gps_rpc_tick ==
  /\ gps_source = "phone" /\ gps_open /\ asking = "none"
  /\ phone \notin Refusals \cup {"streaming", "unsupported", "off"}
  /\ retry >= Retry
  /\ gps_rpc_request
  /\ UNCHANGED <<gps_source, gps_open, gps_fix, geotag, receiver, stream, phone, call, client>>

(* A sample too coarse to use withdraws the fix like a refusal does.       *)
Sample ==
  /\ serving /\ call = "none"
  /\ \E c \in {"streaming", "coarse"} :
       /\ gps_publish_fix(IF c = "streaming" THEN "fix" ELSE "lost", 0)
       /\ call' = c
  /\ UNCHANGED <<gps_source, gps_open, geotag, receiver, stream, phone, asking, client, serving,
                 retry>>

Refuse ==
  /\ gps_source = "phone" /\ gps_open /\ client = "denies" /\ call = "none"
  /\ phone \notin Refusals
  /\ gps_publish_fix("lost", 0)
  /\ call' \in Refusals \cup {"error"}
  /\ UNCHANGED <<gps_source, gps_open, geotag, receiver, stream, phone, asking, client, serving,
                 retry>>

CallEnds ==
  /\ call # "none"
  /\ phone' = call /\ call' = "none"
  /\ UNCHANGED <<gps_source, gps_open, gps_fix, geotag, receiver, stream, asking, client, serving,
                 retry>>

(* The phone comes, goes, or changes its mind: a stream ends with it.      *)
Pairing ==
  /\ gps_source = "phone"
  /\ client' \in {"absent", "willing", "denies"} \ {client}
  /\ serving' = FALSE
  /\ UNCHANGED <<gps_source, gps_open, gps_fix, geotag, receiver, stream, phone, asking, call,
                 retry>>

-----------------------------------------------------------------------------
(* The Flipper's own worker begins and ends with an empty buffer.          *)
gps_link_start == gps_rx' = <<>> /\ gps_line' = NoPiece /\ unread_for' = 0
gps_link_stop == gps_link_start

(* The firmware may lack the service, or one of its calls: then the phone  *)
(* is not asked.                                                           *)
gps_rpc_start ==
  \/ gps_rpc_request /\ UNCHANGED phone
  \/ phone' = "unsupported" /\ UNCHANGED <<asking, serving, retry>>

(* The callback is taken back before the record is closed.                 *)
gps_rpc_stop ==
  /\ serving' = FALSE
  /\ phone' = IF phone = "unsupported" THEN phone ELSE "off"

scan_session_gps_start ==
  /\ ~gps_open /\ gps_open' = TRUE
  /\ gps_link_start /\ UNCHANGED relayed_lines
  /\ IF gps_source = "phone" THEN gps_rpc_start ELSE UNCHANGED <<phone, asking, serving, retry>>
  /\ UNCHANGED <<gps_source, gps_fix, geotag, receiver, call, client>>

(* scan_session_stop().  The fix stays until it expires.                   *)
scan_session_gps_stop ==
  /\ gps_open /\ asking = "none" /\ call = "none"
  /\ gps_open' = FALSE
  /\ gps_link_stop /\ relayed_lines' = <<>>
  /\ IF gps_source = "phone" THEN gps_rpc_stop ELSE UNCHANGED <<phone, serving>>
  /\ UNCHANGED <<gps_source, gps_fix, geotag, receiver, asking, call, client, retry>>

(* A sighting: the first, or a stronger one, takes the position there is.  *)
TagDue(level) == gps_fix.valid /\ (geotag = 0 \/ level > geotag)

Sight ==
  /\ gps_open
  /\ \E level \in Levels : TagDue(level) /\ geotag' = level
  /\ UNCHANGED <<gps_source, gps_open, gps_fix, receiver, stream, rpc>>

(* Seeded defect: a fix that was taken is kept until another comes.        *)
AgedNever(f) ==
  IF f.valid THEN [f EXCEPT !.stamp = Capped(@ + 1, Old), !.born = Capped(@ + 1, Old)] ELSE NoFix

(* recon_app_liveness_tick() sees to it that a silent source's fix goes.   *)
Aged(f) ==
  IF f.valid /\ f.stamp + 1 < Stale
  THEN [f EXCEPT !.stamp = @ + 1, !.born = Capped(@ + 1, Old)]
  ELSE NoFix

Older(p) == [p EXCEPT !.age = Capped(@ + 1, Old)]

GpsSecond ==
  /\ gps_source = "phone" \/ receiver_says = "silent" \/ burst_sent = 2 * Len(Burst)
  /\ gps_rx # <<>> => unread_for < Hold
  /\ relayed_lines = <<>>
  /\ gps_fix' = Aged(gps_fix)
  /\ gps_rx' = [i \in DOMAIN gps_rx |-> Older(gps_rx[i])]
  /\ gps_line' = IF gps_line = NoPiece THEN gps_line ELSE Older(gps_line)
  /\ unread_for' = IF gps_rx = <<>> THEN 0 ELSE unread_for + 1
  /\ burst_sent' = 0
  /\ retry' = Capped(retry + 1, Retry)
  /\ UNCHANGED <<gps_source, gps_open, geotag, receiver_says, relayed_lines, phone, asking, call,
                 client, serving>>

GpsApp == gps_worker \/ gps_poll \/ Relay \/ Record \/ gps_rpc_tick \/ CallEnds \/ Sample \/ Refuse

GpsNext ==
  \/ GpsApp \/ Emit \/ Sky \/ Pairing \/ scan_session_gps_start \/ scan_session_gps_stop
  \/ Sight \/ GpsSecond

GpsSpec == GpsInit /\ [][GpsNext]_gps_vars
=============================================================================
