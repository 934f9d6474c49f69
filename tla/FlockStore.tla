----------------------------- MODULE FlockStore -----------------------------
(***************************************************************************)
(* A row of hits.csv (flock_store.c): one record, one line, and the older  *)
(* lines that are still read.  A later version only appends columns, so    *)
(* their number is the version.                                            *)
(***************************************************************************)
EXTENDS FlockDb, OpenDroneId

FLOCK_STORE_COLS == 19
FLOCK_STORE_COLS_V3 == 16    \* without the Remote ID columns
FLOCK_STORE_COLS_V2 == 15    \* nor the label
FLOCK_STORE_COLS_V1 == 13    \* nor class and hidden
Versions == {FLOCK_STORE_COLS, FLOCK_STORE_COLS_V3, FLOCK_STORE_COLS_V2, FLOCK_STORE_COLS_V1}

(* Frame types, device classes as the file numbers them, the mark's bits.  *)
FLOCK_FTYPE_SET == {"P", "B", "R", "O", "F", "L", "S"}
Numbered == <<"alpr", "acoustic", "bodycam", "gear", "drone">>
FLOCK_STORE_MAX_DEV_CLASS == 4
Bit(b) == IF b THEN 1 ELSE 0

(* Text may hold a "control" character, which would end the line, or a     *)
(* "comma", which would add a column.  The first is written as a "space",  *)
(* the second in quotes.                                                   *)
Flattened(text) == IF text = "control" THEN "space" ELSE text
csv_field_escape(text) == IF text = "comma" THEN <<"quoted", text>> ELSE <<text>>
Escaped(text) == csv_field_escape(Flattened(text))

(* A text field as it is read: what was quoted is one field again.         *)
fs_next_field(f) == f[Len(f)]
WellFormed(f) == f \notin {<<"control">>, <<"comma">>}

-----------------------------------------------------------------------------
(* Seeded defect: the letter of a community signature is not in the set.   *)
LetterUnsigned(ftype) == IF ftype \in FLOCK_FTYPE_SET \ {"S"} THEN ftype ELSE ""

LetterOf(ftype) == IF ftype \in FLOCK_FTYPE_SET THEN ftype ELSE ""

(* A place takes two columns, empty where there is none.                   *)
flock_store_fmt_line(r) ==
  <<r.mac, Escaped(r.ssid), r.rssi, r.ch, LetterOf(r.ftype), r.conf, r.fp, r.at, r.at, r.heading,
    r.count, Bit(r.marked) + 2 * Bit(r.confirmed), r.epoch,
    (CHOOSE i \in DOMAIN Numbered : Numbered[i] = r.cls) - 1, Bit(r.hidden), Escaped(r.label),
    r.pilot, r.pilot, r.kind>>

(* What a line has no column for is what its version meant: a plate        *)
(* reader, its name not withheld, no label and no pilot.                   *)
Column(line, n, absent) == IF n <= Len(line) THEN line[n] ELSE absent

Readable(line) ==
  /\ Len(line) \in Versions
  /\ WellFormed(line[2]) /\ WellFormed(Column(line, 16, <<"">>))
  /\ line[3] \in -128..127 /\ line[4] \in 0..255
  /\ line[5] \in FLOCK_FTYPE_SET \cup {""}
  /\ line[6] \in Rungs /\ line[12] \in 0..3
  /\ Column(line, 14, 0) <= FLOCK_STORE_MAX_DEV_CLASS

(* The record in a line, if any; a fingerprint discredited since is        *)
(* dropped from it, and the row stays.                                     *)
flock_store_parse_line(line) ==
  IF ~Readable(line) THEN {}
  ELSE {[mac |-> line[1], ssid |-> fs_next_field(line[2]), rssi |-> line[3], ch |-> line[4],
         ftype |-> line[5], conf |-> line[6],
         fp |-> IF flock_ie_fp_is_generic(line[7]) THEN NoFp ELSE line[7],
         at |-> line[8], heading |-> line[10], count |-> line[11],
         marked |-> line[12] \in {1, 3}, confirmed |-> line[12] \in {2, 3}, epoch |-> line[13],
         cls |-> Numbered[Column(line, 14, 0) + 1], hidden |-> Column(line, 15, 0) = 1,
         label |-> fs_next_field(Column(line, 16, <<"">>)),
         pilot |-> Column(line, 17, Unknown), kind |-> Column(line, 19, Unknown)]}
=============================================================================
