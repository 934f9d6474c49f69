------------------------------ MODULE FrameRules ------------------------------
(***************************************************************************)
(* What one management frame says to the companion by itself: the name and *)
(* the addresses decide a rung, the probe's body may match a signature,    *)
(* and the detection line names one of its two parties.                    *)
(***************************************************************************)
EXTENDS Integers, Sequences

CONSTANTS
  Tracked, Exclusive,  \* addresses of a camera prefix; of a competitor's
  Sustained            \* VENDOR_PROBE_SUSTAINED

Lesser(x, y) == IF x < y THEN x ELSE y

-----------------------------------------------------------------------------
(* What a frame says: its kind, ta and ra (transmitter and receiver), the  *)
(* signal, the name in it ("none", "empty", "nuls", "cut", "other",        *)
(* "likely", "unit"), and of a probe the skeleton fp (<<>> for none), the   *)
(* sequence number seq and its body.                                       *)

oui_match(a) == a \in Tracked
vendor_oui_match(a) == a \in Exclusive
Known(a) == oui_match(a) \/ vendor_oui_match(a)

(* Only these have tagged elements where the code looks for a name.        *)
Tagged(f) == f.kind \in {"beacon", "probe", "response"}

(* A name element that claims more bytes than there are was not found.     *)
Found(f) == Tagged(f) /\ f.name \notin {"none", "cut"}

ssid_score(f) ==
  IF ~Found(f) THEN 0
  ELSE IF f.name = "unit" THEN 3 ELSE IF f.name = "likely" THEN 2 ELSE 0

(* Only a beacon or a response hides a name: no bytes, or only NULs.       *)
Hidden(f) ==
  Found(f) /\ f.kind \in {"beacon", "response"} /\ f.name \in {"empty", "nuls"}

(* A probe request for nobody: the length is zero also when no element     *)
(* could be read.                                                          *)
Wildcard(f) == f.kind = "probe" /\ f.name \in {"none", "cut", "empty"}

(* The match is on the silent receiver, and the name is not its own.       *)
RxSide(f) == ~Known(f.ta) /\ Known(f.ra)

\* Seeded defect: a probe's name counts like a beacon's.
ScoreAnyFrame(f) == IF RxSide(f) THEN 0 ELSE ssid_score(f)

(* A probe request names the network it looks for, not its sender.         *)
Score(f) ==
  IF RxSide(f) THEN 0
  ELSE IF f.kind = "probe" THEN Lesser(ssid_score(f), 2) ELSE ssid_score(f)

(* The tagged elements in order: one that claims more bytes than are left  *)
(* ends the walk.                                                          *)
Whole(body) ==
  LET cuts == {i \in DOMAIN body : body[i].cut}
  IN  IF cuts = {} THEN body
      ELSE SubSeq(body, 1, (CHOOSE i \in cuts : \A j \in cuts : i <= j) - 1)

(* The printable signature: every element but the name, a vendor's with    *)
(* the start of its content, which stands for itself here; a known one is  *)
(* a run of elements somewhere inside it.                                  *)
ie_sig_string(body) ==
  LET shape(e) == IF e.tag = "vendor" THEN <<e.tag, e.content>> ELSE <<e.tag, "">>
      rest == SelectSeq(Whole(body), LAMBDA e : e.tag # "name")
  IN  [i \in DOMAIN rest |-> shape(rest[i])]

(* The two hashes stand for what they fold in: tag and length of all, the  *)
(* start of a vendor's; the second also the stable elements' contents, and *)
(* never the channel's.                                                    *)
ie_skeleton_hash(body) ==
  [i \in DOMAIN Whole(body) |->
     LET e == body[i] IN <<e.tag, IF e.tag = "vendor" THEN e.content ELSE "">>]

ie_content_is_stable(tag) == tag \in {"rates", "ht", "vht", "he"}

ie_content_hash(body) ==
  [i \in DOMAIN Whole(body) |->
     LET e == body[i]
     IN  <<e.tag, IF e.tag = "vendor" \/ ie_content_is_stable(e.tag) THEN e.content ELSE "">>]

FLOCK_SIG == <<<<"vendor", "mbo">>, <<"ht", "">>, <<"vht", "">>, <<"vendor", "wmm">>>>

flock_sig_match(sig) ==
  \E k \in 0..(Len(sig) - Len(FLOCK_SIG)) :
    SubSeq(sig, k + 1, k + Len(FLOCK_SIG)) = FLOCK_SIG

SigHit(f) == Wildcard(f) /\ flock_sig_match(ie_sig_string(f.body))

(* The ladder.                                                             *)
Conf(f, rate) ==
  IF Score(f) = 3 THEN 3
  ELSE IF \/ oui_match(f.ta) /\ f.kind = "probe"
          \/ oui_match(f.ra) /\ f.kind \in {"probe", "response"}
          \/ Score(f) = 2
          \/ vendor_oui_match(f.ta) /\ Wildcard(f) /\ rate >= Sustained
       THEN 2
  ELSE IF vendor_oui_match(f.ta) \/ vendor_oui_match(f.ra) THEN 1
  ELSE 0

Candidate(f, rate) == Conf(f, rate) > 0 \/ SigHit(f)

Reported(f) == IF RxSide(f) THEN f.ra ELSE f.ta

Class(a) == IF vendor_oui_match(a) THEN "gear" ELSE "camera"

(* What goes out: the name only if it is the reported device's own.        *)
Line(f, rate) ==
  [mac |-> Reported(f), conf |-> Conf(f, rate), kind |-> f.kind, ta |-> f.ta,
   name |-> IF RxSide(f) \/ ~Found(f) THEN "none" ELSE f.name,
   sig |-> SigHit(f), hid |-> Hidden(f), pr |-> rate, cls |-> Class(Reported(f))]
=============================================================================
