--------------------------- MODULE GpsSourcesProps ---------------------------
(***************************************************************************)
(* What a geotag may claim.                                                *)
(***************************************************************************)
EXTENDS GpsSources

(* The sources and the fix keep their shape.                               *)
GpsTypeOK ==
  /\ gps_source \in Sources /\ geotag \in Levels \cup {0}
  /\ gps_fix.valid \in BOOLEAN /\ gps_fix.stamp \in 0..Old /\ gps_fix.born \in 0..Old
  /\ Len(gps_rx) <= RxCap /\ Len(relayed_lines) <= Len(Order) /\ unread_for \in 0..Hold
  /\ phone \in Refusals \cup {"off", "unsupported", "no_client", "waiting", "streaming",
                          "coarse", "error"}

(* A detection is never tagged with a position older than the expiry and   *)
(* the longest time the companion leaves its receiver unread.              *)
TagIsRecent == [][geotag' # geotag => gps_fix.born <= Stale + Hold]_gps_vars

(* A scan that waits for a phone does not go on waiting for a willing one: *)
(* it is asked again and its answer recorded.  (gps_rpc.c:235)             *)
PhoneIsReached ==
  ~<>[](/\ gps_source = "phone" /\ gps_open /\ client = "willing"
        /\ phone \in {"waiting", "no_client", "error"})
=============================================================================
