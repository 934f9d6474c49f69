----------------------------- MODULE BoardFrames -----------------------------
(***************************************************************************)
(* promisc_cb(): what one management frame becomes on the companion.       *)
(* FrameRules says what it is worth; here a burst under many addresses is  *)
(* one line, floods are counted per status interval, and a hunt keeps its  *)
(* target's best signal.  A tick is half a second.                         *)
(***************************************************************************)
EXTENDS FrameRules, FiniteSets

CONSTANTS
  Addrs,        \* addresses
  Targets,      \* those that are hunted
  Streets,      \* [places -> the frames that may be on the air there]
  SeqNums, Gap,  \* 802.11 sequence numbers, SEQ_RUN_GAP
  Window,       \* PROBE_WINDOW_MS, in ticks
  Interval,     \* of the status line, in ticks
  Tracks,       \* PROBE_TRACK_N
  MaxRate,      \* where a track's count saturates
  ProbeFlood, BeaconFlood, Ring   \* PROBE_FLOOD_MIN, BEACON_FLOOD_MIN, BEACON_RING

ASSUME FramesAssumption ==
  /\ Targets \subseteq Addrs
  /\ {Window, Interval, Ring, ProbeFlood} \subseteq Nat
  /\ {Tracks, MaxRate} \subseteq Nat \ {0}
  /\ \A place \in DOMAIN Streets : \A f \in Streets[place] : f.ta \in Addrs /\ f.rssi \in 0..2

Modes == {"scan", "idle", "hunt"}

VARIABLES
  street, mode,
  target, best,     \* g_locate_mac and the best signal since the last LOC line
  run,              \* the burst being coalesced: fp, last, age
  tracks,           \* g_probe_track, most recently used first
  ring, probe_reqs, \* g_beacon_ring, g_probe_reqs
  da_due,           \* a DA line may go out again
  since,            \* ticks since the last status line
  line, told,       \* the detection line of the last step, or NoLine, and its ATK lines
  sent              \* ticks since each address's last probes

hunted == <<target, best>>
flood == <<ring, probe_reqs>>
frames_vars == <<street, mode, hunted, run, tracks, flood, da_due, since, line, told, sent>>

NoLine == [mac |-> "none"]
Greater(a, b) == IF a > b THEN a ELSE b
Lapsed == Window + 1

FramesInit ==
  /\ street \in DOMAIN Streets
  /\ mode = "scan" /\ target = "none" /\ best = 0
  /\ run = [fp |-> <<>>, last |-> 0, age |-> Lapsed]
  /\ tracks = <<>> /\ ring = {} /\ probe_reqs = 0
  /\ da_due = TRUE /\ since = 0 /\ line = NoLine /\ told = {}
  /\ sent = [a \in Addrs |-> <<>>]

-----------------------------------------------------------------------------
(* The probe rate of a transmitter: a window that starts over once it is   *)
(* too old, in a table that forgets the one not heard for longest.         *)

TrackOf(a) == {i \in DOMAIN tracks : tracks[i].mac = a}

\* Seeded defect: a new prober takes over the window of the one it displaces.
RatedInherited(a) ==
  IF TrackOf(a) = {}
  THEN IF Len(tracks) = Tracks
       THEN [tracks[Tracks] EXCEPT !.mac = a, !.count = Lesser(@ + 1, MaxRate)]
       ELSE [mac |-> a, count |-> 1, first |-> 0]
  ELSE LET t == tracks[CHOOSE i \in TrackOf(a) : TRUE]
       IN  IF t.first > Window THEN [t EXCEPT !.count = 1, !.first = 0]
           ELSE [t EXCEPT !.count = Lesser(@ + 1, MaxRate)]

Rated(a) ==
  IF TrackOf(a) = {} THEN [mac |-> a, count |-> 1, first |-> 0]
  ELSE LET t == tracks[CHOOSE i \in TrackOf(a) : TRUE]
       IN  IF t.first > Window THEN [t EXCEPT !.count = 1, !.first = 0]
           ELSE [t EXCEPT !.count = Lesser(@ + 1, MaxRate)]

(* The entry it is kept in: its own, the last one of a full table, or one  *)
(* that is free.                                                           *)
SlotOf(a) ==
  IF TrackOf(a) # {} THEN CHOOSE i \in TrackOf(a) : TRUE
  ELSE IF Len(tracks) = Tracks THEN Tracks ELSE Len(tracks) + 1

probe_rate_bump(a) ==
  <<Rated(a)>> \o SubSeq(tracks, 1, SlotOf(a) - 1) \o SubSeq(tracks, SlotOf(a) + 1, Len(tracks))

(* The same body, close behind the last one of its run.  The step is taken *)
(* in 16 bits although the sequence number has twelve.                     *)
Step16(seq) == (seq - run.last) % (16 * SeqNums)

InRun(f) ==
  /\ f.fp # <<>>
  /\ run.age < Lapsed /\ run.fp = f.fp
  /\ Step16(f.seq) \in 1..Gap

seq_run_duplicate(f) ==
  IF f.fp = <<>> THEN run ELSE [fp |-> f.fp, last |-> f.seq, age |-> 0]

(* Every BSSID once per interval, as far as the ring goes.                 *)
note_beacon_bssid(a) ==
  IF a \notin ring /\ Cardinality(ring) < Ring THEN ring \cup {a} ELSE ring

(* Any frame to or from the hunted device.                                 *)
Homed(f) ==
  IF mode = "hunt" /\ target \in {f.ta, f.ra} THEN Greater(best, f.rssi) ELSE best

Newest(s) == SubSeq(s, 1, Lesser(Len(s), MaxRate))

-----------------------------------------------------------------------------
(* Whether a line goes out: a repeated burst and an idle board keep quiet.  *)
Printed(f, rate) ==
  /\ mode = "scan"
  /\ Candidate(f, rate)
  /\ ~(f.kind = "probe" /\ InRun(f))

(* One management frame: counters and hunt, then the rate, the ladder and  *)
(* the coalescer.                                                          *)
Frame(f) ==
  LET rate == IF f.kind = "probe" THEN Rated(f.ta).count ELSE 0
      probe == f.kind = "probe"
      beacon == f.kind = "beacon"
  IN  /\ ring' = IF beacon THEN note_beacon_bssid(f.ta) ELSE ring
      /\ probe_reqs' = IF probe THEN Lesser(probe_reqs + 1, ProbeFlood) ELSE probe_reqs
      /\ best' = Homed(f)
      /\ da_due' = (da_due /\ f.kind # "deauth")
      /\ tracks' = IF probe THEN probe_rate_bump(f.ta) ELSE tracks
      /\ run' = IF probe /\ Candidate(f, rate) THEN seq_run_duplicate(f) ELSE run
      /\ sent' = IF probe THEN [sent EXCEPT ![f.ta] = Newest(<<0>> \o @)] ELSE sent
      /\ line' = IF Printed(f, rate) THEN Line(f, rate) ELSE NoLine
      /\ told' = {}
      /\ UNCHANGED <<street, mode, target, since>>

Hear == \E f \in Streets[street] : Frame(f)

(* The status line of a scanning board: the floods are told and their      *)
(* counters emptied.                                                       *)
Status ==
  /\ mode = "scan" /\ since = Interval
  /\ told' = (IF Cardinality(ring) >= BeaconFlood THEN {"beaconflood"} ELSE {}) \cup
             (IF probe_reqs >= ProbeFlood THEN {"probeflood"} ELSE {})
  /\ ring' = {} /\ probe_reqs' = 0 /\ since' = 0 /\ line' = NoLine
  /\ UNCHANGED <<street, mode, hunted, run, tracks, da_due, sent>>

(* The best signal of a hunt's interval, if there was one.                 *)
Loc ==
  /\ mode = "hunt" /\ best > 0
  /\ best' = 0 /\ line' = NoLine /\ told' = {}
  /\ UNCHANGED <<street, mode, target, run, tracks, flood, da_due, since, sent>>

(* A command stops the scan, starts it, or takes the radio for a hunt.     *)
Order(m) ==
  /\ mode' = m
  /\ IF m = "hunt" THEN target' \in Targets /\ best' = 0 ELSE UNCHANGED hunted
  /\ line' = NoLine /\ told' = {}
  /\ UNCHANGED <<street, run, tracks, flood, da_due, since, sent>>

Commands == \E m \in Modes \ {mode} : Order(m)

(* Ages grow; what is older than a window is at the end, and forgotten.    *)
Older(s) ==
  LET aged == [i \in DOMAIN s |-> s[i] + 1]
  IN  SubSeq(aged, 1, Cardinality({i \in DOMAIN s : aged[i] <= Window}))

(* A scanning board's status line is not held up.                          *)
Tick ==
  /\ mode = "scan" => since < Interval
  /\ since' = Lesser(since + 1, Interval)
  /\ run' = [run EXCEPT !.age = Lesser(@ + 1, Lapsed)]
  /\ tracks' = [i \in DOMAIN tracks |->
                  [tracks[i] EXCEPT !.first = Lesser(@ + 1, Lapsed)]]
  /\ sent' = [a \in Addrs |-> Older(sent[a])]
  /\ da_due' = TRUE /\ line' = NoLine /\ told' = {}
  /\ UNCHANGED <<street, mode, hunted, flood>>

FramesNext == Hear \/ Status \/ Loc \/ Commands \/ Tick

FramesSpec == FramesInit /\ [][FramesNext]_frames_vars
=============================================================================
