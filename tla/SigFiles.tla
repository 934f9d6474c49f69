------------------------------ MODULE SigFiles ------------------------------
(***************************************************************************)
(* The signatures the operator adds (helpers/sig_db.c): signatures.json,   *)
(* written by hand, and learned.txt, to which the app appends a line for   *)
(* every fingerprint or address it is taught.  Both are read once, at      *)
(* launch, into the extras the matcher consults beside its own tables.     *)
(***************************************************************************)
EXTENDS SigLines

CONSTANTS
  Fingerprints,   \* the ones the operator may confirm
  Generic,        \* those of them every phone has (flock_ie_fp_is_generic)
  Pins,           \* addresses the operator may pin; "zero" and "ff" are none
  Cap,            \* SIG_MAX_IE_FPS, SIG_MAX_MACS (and the JSON tables' caps)
  Jsons,          \* signatures.json: what may be on the card
  MaxTears,       \* appends cut short
  MaxStarts

ASSUME FilesAssumption ==
  /\ Cap \in Nat /\ MaxTears \in Nat /\ MaxStarts \in Nat
  /\ "#" \notin Fingerprints \cup Pins
  /\ \A file \in Jsons :
       /\ file.root \in {"absent", "broken", "object"}
       /\ DOMAIN file.keys \subseteq Nat
       /\ \A i \in DOMAIN file.keys : IsFiniteSet(DOMAIN file.keys[i][2])

VARIABLES
  json,      \* [root, keys]: "absent", "broken" or an "object" of keys and arrays
  learned,   \* learned.txt: its lines, [text, ended] each
  extras,    \* what flock_db holds (flock_db_set_extras): the values of each table;
             \* <<>> while there is none
  taught,    \* values learned.txt was said to have taken
  owed,      \* those of them at the launch
  tears, starts

files_vars == <<json, learned, extras, taught, owed, tears, starts>>

Tables == {"ouis", "ssid_confirmed", "ssid_likely", "ie_fps", "macs"}
NoTable == [t \in Tables |-> {}]

-----------------------------------------------------------------------------
(* learned.txt.                                                            *)

sig_learned_append(value) ==
  /\ learned' = Written(learned, value, TRUE)
  /\ taught' = taught \cup {value}
  /\ UNCHANGED tears

(* Power goes or the card fills part way through it.                       *)
TornAppend(value) ==
  /\ tears < MaxTears
  /\ \/ learned' \in ShortOf(learned, value) /\ UNCHANGED taught
     \/ learned' \in BehindHeader(learned, value) /\ taught' = taught \cup {value}
  /\ tears' = tears + 1

Teach(value) ==
  /\ extras # <<>>
  /\ sig_learned_append(value) \/ TornAppend(value)
  /\ UNCHANGED <<json, extras, owed, starts>>

(* The hit menu's confirm: not for a row without a fingerprint, nor one    *)
(* that every phone shares, one known already or one too many.             *)
sig_db_learn_fp ==
  \E f \in Fingerprints \ Generic :
    LET have == sig_lines_read(learned, 8, Cap) IN
      /\ Fp(f) \notin Range(have) /\ Cardinality(DOMAIN have) < Cap
      /\ Teach(Fp(f))

(* A pin from the survey or the hit's page.                                *)
sig_db_learn_mac ==
  \E m \in Pins \ {"zero", "ff"} :
    LET have == sig_lines_read(learned, 12, Cap) IN
      /\ Mac(m) \notin Range(have) /\ Cardinality(DOMAIN have) < Cap
      /\ Teach(Mac(m))

(* Reports > Forget Learned deletes the file; the matcher keeps what it    *)
(* holds until the next launch.                                            *)
sig_db_forget_learned ==
  /\ extras # <<>>
  /\ learned' = <<>> /\ taught' = {}
  /\ UNCHANGED <<json, extras, owed, tears, starts>>

-----------------------------------------------------------------------------
(* signatures.json.  An array's entries are [ok, value]: an entry that is  *)
(* not a well-formed prefix, address, pattern or fingerprint is not ok.    *)

sig_parse_array(entries) ==
  [i \in FirstOf({k \in DOMAIN entries : entries[k].ok}, Cap) |-> entries[i].value]

(* The first array of a key that keeps anything stands; keys it does not   *)
(* know are passed over.  Nothing is kept of a table no array stands for.  *)
sig_parse_object(keys) ==
  LET kept(i) == sig_parse_array(keys[i][2])
      standing(t) == {i \in DOMAIN keys : keys[i][1] = t /\ DOMAIN kept(i) # {}}
  IN  [t \in Tables |-> IF standing(t) = {} THEN <<>> ELSE kept(Min(standing(t)))]

(* What was taught comes behind what was written by hand, in its room.     *)
Folded(table, taken_in) ==
  LET new == {i \in DOMAIN taken_in : taken_in[i] \notin Range(table)}
      room == Cap - Cardinality(DOMAIN table)
  IN  Range(table) \cup {taken_in[i] : i \in FirstOf(new, room)}

sig_merge_learned(db) ==
  [t \in Tables |->
     CASE t = "ie_fps" -> Folded(db[t], sig_lines_read(learned, 8, Cap))
       [] t = "macs" -> Folded(db[t], sig_lines_read(learned, 12, Cap))
       [] OTHER -> Range(db[t])]

(* A file that will not parse leaves the built-in tables alone, and takes  *)
(* what was taught with it; a file that is not there does not.             *)
sig_db_load ==
  CASE json.root = "broken" -> NoTable
    [] json.root = "absent" -> sig_merge_learned(sig_parse_object(<<>>))
    [] json.root = "object" -> sig_merge_learned(sig_parse_object(json.keys))

recon_app_alloc ==
  /\ extras = <<>> /\ starts < MaxStarts
  /\ extras' = <<sig_db_load>>
  /\ owed' = taught
  /\ starts' = starts + 1
  /\ UNCHANGED <<json, learned, taught, tears>>

(* An exit frees them, the matcher first; a power cut loses them.          *)
sig_db_free ==
  /\ extras # <<>>
  /\ extras' = <<>>
  /\ owed' = {}
  /\ UNCHANGED <<json, learned, taught, tears, starts>>

FilesInit ==
  /\ json \in Jsons
  /\ learned = <<>> /\ extras = <<>>
  /\ taught = {} /\ owed = {}
  /\ tears = 0 /\ starts = 0

FilesNext ==
  sig_db_learn_fp \/ sig_db_learn_mac \/ sig_db_forget_learned \/ recon_app_alloc \/ sig_db_free

FilesSpec == FilesInit /\ [][FilesNext]_files_vars

-----------------------------------------------------------------------------
(* What the operator taught the app is still known at the next launch.     *)

(* The file, the extras and what was taught keep their shape.              *)
FilesTypeOK ==
  /\ json \in Jsons
  /\ \A i \in DOMAIN learned : learned[i].ended \in BOOLEAN /\ learned[i].text # <<>>
  /\ \A i \in DOMAIN learned : ~learned[i].ended => i = Len(learned)
  /\ extras = <<>> \/ DOMAIN extras[1] = Tables
  /\ tears \in 0..MaxTears /\ starts \in 0..MaxStarts

(* There is room beside what was written by hand.                          *)
Roomy ==
  \A t \in {"ie_fps", "macs"} :
    Cardinality(DOMAIN sig_parse_object(json.keys)[t]) + Cardinality(owed) <= Cap

(* An append that was cut short costs at most one of the values the app    *)
(* said it had learned (the one written behind it); every other one is in  *)
(* the matcher from the next launch on.                                    *)
TearCostsOne ==
  extras # <<>> /\ json.root # "broken" /\ Roomy =>
    Cardinality(owed \ (extras[1].ie_fps \cup extras[1].macs)) <= tears
=============================================================================
