----------------------------- MODULE OpenDroneId -----------------------------
(***************************************************************************)
(* The Remote ID decoder (open_drone_id.c): what one broadcast of an       *)
(* aircraft says.  It comes as single messages or as a pack of several,    *)
(* and only so many bytes of it may have arrived.                          *)
(***************************************************************************)
EXTENDS Integers, Sequences, SequencesExt

ODID_MESSAGE_SIZE == 25
PackHeader == 3
Unknown == "unknown"

odid_report_init == [used |-> FALSE, id |-> "", kind |-> Unknown, at |-> Unknown, pilot |-> Unknown]

(* No value is encoded as a real place; that and what is off the globe are *)
(* no position.                                                            *)
decode_latlon(p) == IF p \in {"zero", "offglobe"} THEN Unknown ELSE p

Taken(old, p) == IF decode_latlon(p) = Unknown THEN old ELSE decode_latlon(p)

(* One message.  An empty id does not displace one that was read; types    *)
(* that are not understood leave the report alone.                         *)
parse_one(rep, m) ==
  CASE m.type = "basic" ->
         [rep EXCEPT !.used = TRUE, !.kind = m.ua, !.id = IF m.id = "" THEN @ ELSE m.id]
    [] m.type = "location" -> [rep EXCEPT !.used = TRUE, !.at = Taken(@, m.at)]
    [] m.type = "system" -> [rep EXCEPT !.used = TRUE, !.pilot = Taken(@, m.at)]
    [] m.type = "operator" -> [rep EXCEPT !.used = TRUE]
    [] OTHER -> rep

(* A broadcast: its messages, whether they are packed, the number the pack *)
(* claims to hold, and how many bytes of it all there are.                 *)
Size(b) == (IF b.packed THEN PackHeader ELSE 0) + ODID_MESSAGE_SIZE * Len(b.msgs)

OdidComplete(b, len) == SubSeq(b.msgs, 1, len \div ODID_MESSAGE_SIZE)

(* A pack is read whole or not at all; loose messages as far as they go.   *)
odid_parse_messages(b, len) ==
  IF len < ODID_MESSAGE_SIZE THEN odid_report_init
  ELSE IF ~b.packed THEN FoldLeft(parse_one, odid_report_init, OdidComplete(b, len))
  ELSE IF b.claims \in 1..9 /\ PackHeader + ODID_MESSAGE_SIZE * b.claims <= len
       THEN FoldLeft(parse_one, odid_report_init, SubSeq(b.msgs, 1, b.claims))
       ELSE odid_report_init
=============================================================================
