------------------------------ MODULE SigLines ------------------------------
(***************************************************************************)
(* The line files of helpers/sig_db.c: learned.txt and ignored.txt, to     *)
(* which the app appends a line for every fingerprint or address it is     *)
(* taught, or told to leave alone, under a header of comments.             *)
(*                                                                         *)
(* A value is what its hex digits spell: a sequence of <<whose, digits>>,  *)
(* so that the pieces of two torn lines read together are a value too.     *)
(* Comments are left out, but for a header that was cut.                   *)
(***************************************************************************)
EXTENDS Integers, FiniteSets, SequencesExt

Fp(f) == <<<<f, 8>>>>
Mac(m) == <<<<m, 12>>>>
CutHeader == <<<<"#", 0>>>>

(* The n least of a set of places, or all of them.                         *)
FirstOf(places, n) == {i \in places : Cardinality({k \in places : k < i}) < n}

(* How many digits a line has, at most 12 of them in each piece.           *)
Digits(text) == Cardinality({d \in (DOMAIN text) \X (1..12) : d[2] <= text[d[1]][2]})

(* 8 digits are a fingerprint, 12 an address; anything else is no value.   *)
sig_learned_parse_line(line) ==
  CASE line.text = <<>> \/ Head(line.text)[1] = "#" -> 0
    [] Digits(line.text) \in {8, 12} -> Digits(line.text)
    [] OTHER -> 0

(* The lines with a value of so many digits that none before them has.     *)
Firsts(file, digits) ==
  {i \in DOMAIN file : /\ sig_learned_parse_line(file[i]) = digits
                       /\ \A k \in 1..(i - 1) : file[k].text # file[i].text}

(* Seeded defect: reading stops at the first line that is no value.        *)
LinesReadToJunk(file, digits, room) ==
  LET readable == {i \in DOMAIN file : \A k \in 1..i : sig_learned_parse_line(file[k]) # 0}
  IN  [i \in FirstOf(Firsts(file, digits) \cap readable, room) |-> file[i].text]

(* Lines that are no value are skipped, repeats dropped, the rest taken up *)
(* to the caller's room; the last line need not have ended.  What was read *)
(* is the value of each line taken.                                        *)
sig_lines_read(file, digits, room) ==
  [i \in FirstOf(Firsts(file, digits), room) |-> file[i].text]

(* What is written begins where the file ends: in a line that was cut, if  *)
(* there is one.                                                           *)
Written(file, text, ended) ==
  IF file # <<>> /\ ~Last(file).ended
    THEN Append(Front(file), [text |-> Last(file).text \o text, ended |-> ended])
    ELSE Append(file, [text |-> text, ended |-> ended])

(* An append that is cut short: in the header of a new file, in the        *)
(* digits, or between the last digit and the line's end.                   *)
ShortOf(file, value) ==
  {Written(file, <<piece>>, FALSE) :
     piece \in {<<value[1][1], n>> : n \in {k \in {4, 8, 12} : k <= value[1][2]}}
               \cup {<<"#", 0>> : empty \in {file} \cap {<<>>}}}

(* What became of the header nobody asks: a line written whole behind half *)
(* a header is one the append answers for, and part of a comment.          *)
BehindHeader(file, value) ==
  {Written(Written(empty, CutHeader, FALSE), value, TRUE) : empty \in {file} \cap {<<>>}}
=============================================================================
