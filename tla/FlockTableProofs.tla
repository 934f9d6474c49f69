--------------------------- MODULE FlockTableProofs ---------------------------
(***************************************************************************)
(* What is proved of FlockTable for every set of devices, every capacity,  *)
(* every cooldown and any number of card faults: its type, that no address *)
(* ever has two rows, and that no device is announced twice.               *)
(***************************************************************************)
EXTENDS FlockTableProps, FlockRowsProofs

-----------------------------------------------------------------------------
(* Types of the pieces.                                                    *)

\* The rungs and clock readings in a row are numbers, so rows can be ranked.
LEMMA RowFacts ==
  \A r \in Row : r.conf \in Nat /\ r.epoch \in Nat /\ r.mac \in Devices
<1> SUFFICES ASSUME NEW r \in Row
             PROVE  r.conf \in Nat /\ r.epoch \in Nat /\ r.mac \in Devices
  OBVIOUS
<1>1. r.conf \in Confs \cup {0} /\ r.epoch \in Nat /\ r.mac \in Devices
  BY DEF Row
<1>2. \A c \in Confs : c \in Nat
  BY ConfsAssumption
<1>3. r.conf \in Nat
  BY <1>1, <1>2
<1> QED BY <1>1, <1>3

\* A merged sighting is a live row of the same device.
LEMMA MergedType ==
  ASSUME NEW old \in Row, NEW c \in Confs, NEW f \in Fps \cup {NoFp}, tick \in Nat
  PROVE  /\ Merged(old, c, f) \in Row
         /\ Merged(old, c, f).mac = old.mac
         /\ Merged(old, c, f).archived = FALSE
         /\ Merged(old, c, f).alerted = old.alerted
<1>1. (IF c > old.conf THEN c ELSE old.conf) \in Confs \cup {0}
  BY DEF Row
<1>2. (IF f # NoFp THEN f ELSE old.fp) \in Fps \cup {NoFp}
  BY DEF Row
<1>3. tick + 1 \in Nat
  OBVIOUS
<1>4. old \in [mac : Devices, conf : Confs \cup {0}, epoch : Nat, archived : BOOLEAN,
               alerted : BOOLEAN, fp : Fps \cup {NoFp}, noted : BOOLEAN]
  BY DEF Row
<1>5. FALSE \in BOOLEAN
  OBVIOUS
<1> DEFINE x == IF c > old.conf THEN c ELSE old.conf
           y == IF f # NoFp THEN f ELSE old.fp
<1>6. Merged(old, c, f) = [old EXCEPT !.conf = x, !.epoch = tick + 1, !.archived = FALSE, !.fp = y]
  BY <1>4 DEF Merged
<1>7. x \in Confs \cup {0} /\ y \in Fps \cup {NoFp}
  BY <1>1, <1>2
<1> HIDE DEF x, y
<1> QED BY <1>3, <1>4, <1>5, <1>6, <1>7 DEF Row

\* Announcing a row touches only its flag.
LEMMA AlertedType ==
  ASSUME NEW r \in Row, NEW b \in BOOLEAN
  PROVE  /\ [r EXCEPT !.alerted = @ \/ b] \in Row
         /\ [r EXCEPT !.alerted = @ \/ b].mac = r.mac
         /\ [r EXCEPT !.alerted = @ \/ b].archived = r.archived
         /\ [r EXCEPT !.alerted = @ \/ b].alerted = (r.alerted \/ b)
<1>1. r \in [mac : Devices, conf : Confs \cup {0}, epoch : Nat, archived : BOOLEAN,
             alerted : BOOLEAN, fp : Fps \cup {NoFp}, noted : BOOLEAN]
  BY DEF Row
<1> DEFINE v == r.alerted \/ b
<1>2. v \in BOOLEAN
  BY Zenon
<1>3. [r EXCEPT !.alerted = @ \/ b] = [r EXCEPT !.alerted = v]
  BY Zenon
<1> HIDE DEF v
<1>4. /\ [r EXCEPT !.alerted = v] \in Row
      /\ [r EXCEPT !.alerted = v].mac = r.mac
      /\ [r EXCEPT !.alerted = v].archived = r.archived
      /\ [r EXCEPT !.alerted = v].alerted = v
  BY <1>1, <1>2 DEF Row
<1> QED BY <1>3, <1>4 DEF v

-----------------------------------------------------------------------------
(* The lines of ignored.txt.                                               *)

\* A file of lines of which only the last may be unfinished.
FileOK(f) == f \in Seq(Lines) /\ \A i \in DOMAIN f : ~f[i].ended => i = Len(f)

\* What is written to it, whole or in part, is text.
LEMMA TextTypes ==
  /\ CutHeader \in Texts
  /\ \A d \in Devices : Mac(d) \in Texts
  /\ \A f \in Fps : Fp(f) \in Texts
  /\ \A v \in Texts, n \in Nat : v # <<>> => << <<v[1][1], n>> >> \in Texts
<1> DEFINE P == (Devices \cup Fps \cup {"#"}) \X Nat
<1>1. \A p \in P : <<p>> \in Texts
  BY DEF Texts
<1>2. /\ <<"#", 0>> \in P
      /\ \A d \in Devices : <<d, 12>> \in P
      /\ \A f \in Fps : <<f, 8>> \in P
  OBVIOUS
<1>3. \A v \in Texts, n \in Nat : v # <<>> => <<v[1][1], n>> \in P
  <2> SUFFICES ASSUME NEW v \in Seq(P), NEW n \in Nat, v # <<>> PROVE <<v[1][1], n>> \in P
    BY DEF Texts
  <2>1. v[1] \in P
    OBVIOUS
  <2> QED BY <2>1
<1> HIDE DEF P
<1> QED BY <1>1, <1>2, <1>3 DEF CutHeader, Mac, Fp

\* A write continues the last line or adds one.
LEMMA WrittenType ==
  ASSUME NEW f, FileOK(f), NEW text \in Texts, NEW ended \in BOOLEAN
  PROVE  FileOK(Written(f, text, ended))
<1>1. f \in Seq(Lines) /\ DOMAIN f = 1..Len(f) /\ Len(f) \in Nat
      /\ \A i \in DOMAIN f : f[i] \in Lines /\ (~f[i].ended => i = Len(f))
  BY DEF FileOK
<1>2. CASE f # <<>> /\ ~f[Len(f)].ended
  <2> DEFINE line == [text |-> f[Len(f)].text \o text, ended |-> ended]
             front == SubSeq(f, 1, Len(f) - 1)
  <2>1. f[Len(f)].text \in Texts
    BY <1>1, <1>2 DEF Lines
  <2>2. line \in Lines
    BY <2>1 DEF Lines, Texts
  <2> HIDE DEF line
  <2>3. front \in Seq(Lines) /\ Len(front) = Len(f) - 1
        /\ \A i \in 1..(Len(f) - 1) : front[i] = f[i]
    BY <1>1, <1>2
  <2> HIDE DEF front
  <2>4. Written(f, text, ended) = Append(front, line)
    BY <1>2 DEF Written, Last, Front, line, front
  <2>5. Append(front, line) \in Seq(Lines) /\ Len(Append(front, line)) = Len(f)
        /\ \A i \in 1..(Len(f) - 1) : Append(front, line)[i] = f[i]
    <3>1. Len(front) \in Nat /\ Len(front) + 1 = Len(f)
      BY <1>1, <2>3
    <3>2. /\ Append(front, line) \in Seq(Lines) /\ Len(Append(front, line)) = Len(front) + 1
          /\ \A i \in 1..Len(front) : Append(front, line)[i] = front[i]
      BY <2>2, <2>3
    <3> QED BY <2>3, <3>1, <3>2
  <2> QED BY <1>1, <2>4, <2>5 DEF FileOK
<1>3. CASE ~(f # <<>> /\ ~f[Len(f)].ended)
  <2> DEFINE line == [text |-> text, ended |-> ended]
  <2>1. line \in Lines
    BY Zenon DEF Lines
  <2> HIDE DEF line
  <2>2. Written(f, text, ended) = Append(f, line)
    BY <1>3 DEF Written, Last, line
  <2>3. \A i \in DOMAIN f : f[i].ended
    BY <1>1, <1>3
  <2>4. /\ Append(f, line) \in Seq(Lines) /\ Len(Append(f, line)) = Len(f) + 1
        /\ \A i \in 1..Len(f) : Append(f, line)[i] = f[i]
    BY <1>1, <2>1
  <2> QED BY <1>1, <2>2, <2>3, <2>4 DEF FileOK
<1> QED BY <1>2, <1>3

\* What is read of it is the text of its lines.
LEMMA ReadType ==
  ASSUME NEW f \in Seq(Lines), NEW digits, NEW room
  PROVE  Range(sig_lines_read(f, digits, room)) \subseteq Texts
<1>1. \A i \in DOMAIN f : f[i].text \in Texts
  <2>1. \A i \in DOMAIN f : f[i] \in Lines
    OBVIOUS
  <2>2. \A l \in Lines : l.text \in Texts
    BY DEF Lines
  <2> QED BY <2>1, <2>2
<1>2. FirstOf(Firsts(f, digits), room) \subseteq DOMAIN f
  BY DEF FirstOf, Firsts
<1> QED BY <1>1, <1>2 DEF sig_lines_read, Range

\* An append leaves a file of lines, whatever the card does.
LEMMA AppendType ==
  ASSUME TypeOK, NEW value \in Texts, value # <<>>, NEW answer, Appended(value, answer)
  PROVE  FileOK(file') /\ apart' \in BOOLEAN /\ faults' \in Nat
<1>1. FileOK(file) /\ apart \in BOOLEAN /\ faults \in Nat /\ faults + 1 \in Nat
  BY DEF TypeOK, FileOK
<1>2. FileOK(<<>>)
  BY DEF FileOK
<1>3. \A f \in BehindHeader(file, value) : FileOK(f)
  <2>1. FileOK(Written(<<>>, CutHeader, FALSE))
    BY <1>2, TextTypes, WrittenType
  <2>2. FileOK(Written(Written(<<>>, CutHeader, FALSE), value, TRUE))
    BY <2>1, WrittenType
  <2> QED BY <2>2 DEF BehindHeader
<1>4. \A f \in ShortOf(file, value) : FileOK(f)
  <2>1. \A n \in {k \in {4, 8, 12} : k <= value[1][2]} : << <<value[1][1], n>> >> \in Texts
    BY TextTypes
  <2>2. << <<"#", 0>> >> \in Texts
    BY TextTypes DEF CutHeader
  <2> QED BY <1>1, <2>1, <2>2, WrittenType DEF ShortOf
<1>5. FileOK(Written(file, value, TRUE))
  BY <1>1, WrittenType
<1> QED BY <1>1, <1>3, <1>4, <1>5 DEF Appended, Fault

-----------------------------------------------------------------------------
(* What a sighting does to the table, in one place.                        *)

\* The slot a sighting of d uses, the row it finds there and whether it alerts.
SlotOf(d) == SlotFor(table, d, Cap)
OldOf(d) == IF Has(table, d) THEN table[SlotOf(d)] ELSE Fresh(d)
FiresFor(d, c, f) == Crosses(OldOf(d), Merged(OldOf(d), c, f)) /\ CooledDown
NewOf(d, c, f) == [Merged(OldOf(d), c, f) EXCEPT !.alerted = @ \/ FiresFor(d, c, f)]

\* The row a sighting starts from is one of its device: the one it has, or a new one.
LEMMA OldRow ==
  ASSUME TypeOK, NEW d \in Devices, SlotOf(d) # 0
  PROVE  /\ OldOf(d) \in Row /\ OldOf(d).mac = d
         /\ SlotOf(d) \in DOMAIN table \cup {Len(table) + 1}
         /\ SlotOf(d) = Len(table) + 1 => Len(table) < Cap
         /\ Has(table, d) => SlotOf(d) \in DOMAIN table /\ table[SlotOf(d)] = OldOf(d)
         /\ ~Has(table, d) => ~OldOf(d).alerted
         /\ ~Has(table, d) /\ SlotOf(d) \in DOMAIN table => table[SlotOf(d)].archived
<1>1. table \in Seq(Row) /\ Len(table) <= Cap /\ Cap \in Nat
  BY LimitsAssumption DEF TypeOK
<1>2. \/ SlotOf(d) \in DOMAIN table /\ Has(table, d) /\ table[SlotOf(d)].mac = d
      \/ SlotOf(d) \in DOMAIN table /\ ~Has(table, d) /\ table[SlotOf(d)].archived
      \/ SlotOf(d) = Len(table) + 1 /\ Len(table) < Cap /\ ~Has(table, d)
  BY <1>1, RowFacts, SlotMeaning DEF SlotOf
<1>3. Fresh(d) \in Row /\ Fresh(d).mac = d /\ ~Fresh(d).alerted
  BY DEF Fresh, Row
<1>4. \A i \in DOMAIN table : table[i] \in Row
  BY <1>1
<1>5. DOMAIN table = 1 .. Len(table) /\ Len(table) + 1 \notin 1 .. Len(table)
  BY <1>1
<1> QED BY <1>2, <1>3, <1>4, <1>5 DEF OldOf

\* A sighting puts a live row of its device, announced if it alerts, in that slot.
LEMMA SightEffect ==
  ASSUME TypeOK, NEW d \in Devices, NEW c \in Confs, NEW f \in Fps \cup {NoFp},
         Sight(d, c, f)
  PROVE  /\ SlotOf(d) # 0
         /\ table' = PutRow(table, SlotOf(d), NewOf(d, c, f))
         /\ table' \in Seq(Row) /\ Len(table') <= Cap
         /\ NewOf(d, c, f) \in Row /\ NewOf(d, c, f).mac = d /\ ~NewOf(d, c, f).archived
         /\ NewOf(d, c, f).alerted = (OldOf(d).alerted \/ FiresFor(d, c, f))
         /\ told' = IF FiresFor(d, c, f) THEN [told EXCEPT ![d] = @ + 1] ELSE told
<1>1. /\ SlotOf(d) # 0
      /\ table' = PutRow(table, SlotOf(d), NewOf(d, c, f))
      /\ told' = IF FiresFor(d, c, f) THEN [told EXCEPT ![d] = @ + 1] ELSE told
  BY DEF Sight, SlotOf, OldOf, FiresFor, NewOf
<1>2. FiresFor(d, c, f) \in BOOLEAN
  BY Zenon DEF FiresFor, Crosses
<1>3. OldOf(d) \in Row /\ OldOf(d).mac = d
  BY <1>1, OldRow
<1>4. tick \in Nat /\ table \in Seq(Row) /\ Len(table) <= Cap
  BY DEF TypeOK
<1>5. /\ Merged(OldOf(d), c, f) \in Row
      /\ Merged(OldOf(d), c, f).mac = d
      /\ Merged(OldOf(d), c, f).archived = FALSE
      /\ Merged(OldOf(d), c, f).alerted = OldOf(d).alerted
  BY <1>3, <1>4, MergedType
<1>6. /\ NewOf(d, c, f) \in Row
      /\ NewOf(d, c, f).mac = Merged(OldOf(d), c, f).mac
      /\ NewOf(d, c, f).archived = Merged(OldOf(d), c, f).archived
      /\ NewOf(d, c, f).alerted = (Merged(OldOf(d), c, f).alerted \/ FiresFor(d, c, f))
  BY <1>2, <1>5, AlertedType DEF NewOf
<1>7. table' \in Seq(Row) /\ Len(table') <= Cap
  <2>1. /\ SlotOf(d) \in DOMAIN table \cup {Len(table) + 1}
        /\ SlotOf(d) = Len(table) + 1 => Len(table) < Cap
    BY <1>1, OldRow
  <2>2. /\ table' \in Seq(Row)
        /\ Len(table') = (IF SlotOf(d) = Len(table) + 1 THEN Len(table) + 1 ELSE Len(table))
    BY <1>1, <1>4, <1>6, <2>1, PutRowType
  <2> QED BY <1>4, <2>1, <2>2, LimitsAssumption
<1> QED BY <1>1, <1>5, <1>6, <1>7, Zenon

-----------------------------------------------------------------------------
(* The type invariant.                                                     *)

\* A sighting keeps the shape of the state.
LEMMA SightType ==
  ASSUME TypeOK, NEW d \in Devices, NEW c \in Confs, NEW f \in Fps \cup {NoFp},
         Sight(d, c, f)
  PROVE  TypeOK'
<1>1. table' \in Seq(Row) /\ Len(table') <= Cap
  BY SightEffect
<1>2. haveFired' \in BOOLEAN /\ pending' \in BOOLEAN
  BY Zenon DEF Sight
<1>3. lastAlert' \in Nat
  BY DEF Sight, TypeOK
<1>4. told' \in [Devices -> Nat]
  BY SightEffect DEF TypeOK
<1>5. excused' \subseteq Devices
  BY DEF Sight, TypeOK
<1>6. UNCHANGED <<tick, rung, lists, screen, excluding, presses, faults>>
  BY DEF Sight
<1> QED BY <1>1, <1>2, <1>3, <1>4, <1>5, <1>6
     DEF TypeOK, lists, screen, excluding, Idle

\* The empty table, and any table of restored rows, is a table.
LEMMA RestoredType ==
  ASSUME NEW t \in RestoredTables
  PROVE  /\ t \in Seq(Row) /\ Len(t) <= Cap
         /\ \A i, j \in DOMAIN t : t[i].mac = t[j].mac => i = j
<1>1. PICK n \in 0 .. Cap : /\ t \in [1 .. n -> Restored]
                            /\ \A i, j \in 1 .. n : t[i].mac = t[j].mac => i = j
  BY DEF RestoredTables
<1>2. Restored \subseteq Row
  <2>1. Confs \subseteq Confs \cup {0} /\ {0} \subseteq Nat
    OBVIOUS
  <2>2. {TRUE} \subseteq BOOLEAN /\ {FALSE} \subseteq BOOLEAN
    OBVIOUS
  <2> QED BY <2>1, <2>2 DEF Restored, Row
<1>3. t \in [1 .. n -> Row]
  BY <1>1, <1>2
<1>4. n \in Nat /\ n <= Cap
  BY <1>1, LimitsAssumption
<1>5. t \in Seq(Row) /\ Len(t) = n
  BY <1>3, <1>4
<1> QED BY <1>1, <1>3, <1>4, <1>5

\* Every launch starts in a well-formed state.
LEMMA InitType == Init => TypeOK
<1> SUFFICES ASSUME Init PROVE TypeOK
  OBVIOUS
<1>1. table \in Seq(Row) /\ Len(table) <= Cap
  BY RestoredType DEF Init
<1>2. target \in [mac : Devices \cup {NoFp}, fp : Fps \cup {NoFp}]
  BY DEF Init, NoTarget
<1>3. menu \in 0 .. Cap
  BY LimitsAssumption DEF Init
<1>4. Range(have.macs) = {} /\ Range(have.fps) = {} /\ file \in Seq(Lines) /\ DOMAIN file = {}
  BY DEF Init, NothingRead, Range
<1> QED BY <1>1, <1>2, <1>3, <1>4 DEF Init, TypeOK, Idle

\* The operator's actions keep the shape of the state.
LEMMA OperatorType ==
  ASSUME TypeOK, Operator
  PROVE  TypeOK'
<1> USE DEF alert, lists, screen, excluding, history, Idle
<1>0. presses + 1 \in Nat /\ faults + 1 \in Nat /\ 0 \in 0 .. Cap
  BY LimitsAssumption DEF TypeOK
<1>1. ASSUME NEW r \in Rungs, SetRung(r) PROVE TypeOK'
  <2>1. MacsOf(table) \subseteq Devices
    BY RowFacts DEF TypeOK, MacsOf
  <2> QED BY <1>0, <1>1, <2>1 DEF TypeOK, SetRung, Press
<1>2. ASSUME NEW i \in 1 .. Cap, MenuOpen(i) PROVE TypeOK'
  <2>1. table[i].mac \in Devices /\ i \in 0 .. Cap
    BY <1>2, RowFacts, LimitsAssumption DEF TypeOK, MenuOpen
  <2> QED BY <1>0, <1>2, <2>1 DEF TypeOK, MenuOpen, Press
<1>3. CASE MenuClose
  BY <1>0, <1>3 DEF TypeOK, MenuClose, MenuLeft
<1>4. CASE MenuEdit
  <2>1. table' \in Seq(Row) /\ Len(table') = Len(table)
    <3>1. table[menu] \in Row
      BY <1>4 DEF TypeOK, MenuEdit
    <3>2. (~table[menu].noted) \in BOOLEAN
      BY Zenon
    <3>3. [table[menu] EXCEPT !.noted = ~@] \in Row
      BY <3>1, <3>2 DEF Row
    <3>4. table' = [table EXCEPT ![menu] = [table[menu] EXCEPT !.noted = ~@]]
      BY <1>4 DEF MenuEdit
    <3> QED BY <1>4, <3>3, <3>4 DEF TypeOK, MenuEdit
  <2> QED BY <1>0, <1>4, <2>1 DEF TypeOK, MenuEdit, MenuLeft
<1>5. CASE MenuDelete
  <2>1. table' \in Seq(Row) /\ Len(table') = Len(table) - 1
    BY <1>5, CloseGapType DEF TypeOK, MenuDelete
  <2>2. Len(table') <= Cap
    BY <2>1, LimitsAssumption DEF TypeOK
  <2>3. told' \in [Devices -> Nat] /\ excused' \subseteq Devices
    BY <1>5 DEF TypeOK, MenuDelete, Dropped
  <2> QED BY <1>0, <1>5, <2>1, <2>2, <2>3 DEF TypeOK, MenuDelete, MenuLeft
<1>6. CASE MenuIgnore
  <2>1. table[menu] \in Row
    BY <1>6 DEF TypeOK, MenuIgnore
  <2>2. target' \in [mac : Devices \cup {NoFp}, fp : Fps \cup {NoFp}]
    BY <1>6, <2>1 DEF MenuIgnore, Row
  <2>3. target'.mac \in Devices
    BY <1>6, <2>1 DEF MenuIgnore, Row
  <2> QED BY <1>0, <1>6, <2>2, <2>3 DEF TypeOK, MenuIgnore, MenuLeft
<1>7. CASE ForgetIgnored
  <2>1. faults' \in Nat /\ apart' \in BOOLEAN
    BY <1>0, <1>7 DEF TypeOK, ForgetIgnored, Fault
  <2>2. file' \in Seq(Lines) /\ \A i \in DOMAIN file' : ~file'[i].ended => i = Len(file')
    <3>1. <<>> \in Seq(Lines) /\ \A i \in DOMAIN <<>> : FALSE
      OBVIOUS
    <3>2. file' = <<>> \/ UNCHANGED file
      BY <1>7 DEF ForgetIgnored
    <3> QED BY <3>1, <3>2 DEF TypeOK
  <2> QED BY <1>0, <1>7, <2>1, <2>2 DEF TypeOK, ForgetIgnored, Press
<1> QED BY <1>1, <1>2, <1>3, <1>4, <1>5, <1>6, <1>7 DEF Operator

\* The steps of an exclusion keep the shape of the state.
LEMMA ExclusionType ==
  ASSUME TypeOK, ReadIgnored \/ ListMac \/ ListFp \/ Reread \/ Purge
  PROVE  TypeOK'
<1> USE DEF alert, lists, screen, excluding, history, Idle, Meanwhile
<1>0. /\ faults + 1 \in Nat /\ file \in Seq(Lines)
      /\ NoTarget \in [mac : Devices \cup {NoFp}, fp : Fps \cup {NoFp}]
      /\ Range(NothingRead.macs) = {} /\ Range(NothingRead.fps) = {}
  BY DEF TypeOK, NoTarget, NothingRead, Range
<1>r. /\ Range(sig_db_ignored_read.macs) \subseteq Texts
      /\ Range(sig_db_ignored_read.fps) \subseteq Texts
  BY <1>0, ReadType DEF sig_db_ignored_read
<1>5. CASE ReadIgnored
  <2>1. faults' \in Nat
    BY <1>0, <1>5 DEF TypeOK, ReadIgnored, Fault
  <2>2. Range(have'.macs) \subseteq Texts /\ Range(have'.fps) \subseteq Texts
    BY <1>0, <1>r, <1>5 DEF ReadIgnored
  <2> QED BY <1>5, <2>1, <2>2 DEF TypeOK, ReadIgnored
<1>1. CASE ListMac
  <2>1. target.mac \in Devices /\ pc = "listMac"
    BY <1>1 DEF TypeOK, ListMac
  <2>2. FileOK(file') /\ apart' \in BOOLEAN /\ faults' \in Nat
    <3>1. Mac(target.mac) \in Texts /\ Mac(target.mac) # <<>>
      BY <2>1, TextTypes DEF Mac
    <3>2. CASE UNCHANGED <<file, faults, apart>>
      BY <3>2 DEF TypeOK, FileOK
    <3>3. CASE \E answer \in BOOLEAN : Appended(Mac(target.mac), answer)
      BY <3>1, <3>3, AppendType
    <3> QED BY <1>1, <3>2, <3>3 DEF ListMac
  <2>3. \/ Returned
        \/ pc' = "listFp" /\ UNCHANGED <<target, have>> /\ wrote' \in BOOLEAN
    BY <1>1 DEF ListMac
  <2>4. UNCHANGED <<ramMacs, ramFps, table, tick, rung, alert, screen, presses, history>>
    BY <1>1 DEF ListMac
  <2> QED BY <1>0, <2>1, <2>2, <2>3, <2>4 DEF TypeOK, Returned, FileOK
<1>2. CASE ListFp
  <2>1. target.mac \in Devices /\ pc = "listFp"
    BY <1>2 DEF TypeOK, ListFp
  <2>2. FileOK(file') /\ apart' \in BOOLEAN /\ faults' \in Nat
    <3>1. CASE UNCHANGED <<file, faults, apart>>
      BY <3>1 DEF TypeOK, FileOK
    <3>2. CASE target.fp \in Fps /\ \E answer \in BOOLEAN : Appended(Fp(target.fp), answer)
      <4>1. Fp(target.fp) \in Texts /\ Fp(target.fp) # <<>>
        BY <3>2, TextTypes DEF Fp
      <4> QED BY <3>2, <4>1, AppendType
    <3> QED BY <1>2, <3>1, <3>2 DEF ListFp
  <2>3. Returned \/ (pc' = "reread" /\ UNCHANGED <<target, have, wrote>>)
    BY <1>2 DEF ListFp, Enforce
  <2>4. UNCHANGED <<ramMacs, ramFps, table, tick, rung, alert, screen, presses, history>>
    BY <1>2 DEF ListFp
  <2> QED BY <1>0, <2>1, <2>2, <2>3, <2>4 DEF TypeOK, Returned, FileOK
<1>3. CASE Reread
  <2>1. ramMacs' \subseteq Texts /\ ramFps' \subseteq Texts
    BY <1>0, <1>r, <1>3 DEF Reread, GateTakes
  <2>2. apart' \in BOOLEAN /\ faults' \in Nat
    BY <1>0, <1>3 DEF Reread, Fault, TypeOK
  <2> QED BY <1>3, <2>1, <2>2 DEF TypeOK, Reread
<1>4. CASE Purge
  <2> DEFINE K == {i \in DOMAIN table : ~Excluded(table[i].mac, table[i].fp)}
  <2>1. table' \in Compactions(table, K)
    BY <1>4 DEF Purge
  <2>2. table' \in Seq(Row) /\ Len(table') <= Len(table)
    BY <2>1, CompactionType DEF TypeOK
  <2>3. Len(table') <= Cap
    BY <2>2, LimitsAssumption DEF TypeOK
  <2>4. told' \in [Devices -> Nat] /\ excused' \subseteq Devices
    BY <1>4 DEF TypeOK, Purge, Dropped
  <2>5. target' \in [mac : Devices \cup {NoFp}, fp : Fps \cup {NoFp}]
    BY <1>0, <1>4 DEF Purge, Returned
  <2> HIDE DEF K
  <2> QED BY <1>0, <1>4, <2>2, <2>3, <2>4, <2>5 DEF TypeOK, Purge, Returned
<1> QED BY <1>1, <1>2, <1>3, <1>4, <1>5

-----------------------------------------------------------------------------
(* The type invariant, and one alert and one row per device.               *)

\* Every step keeps the shape of the state.
LEMMA StepType == TypeOK /\ [Next]_vars => TypeOK'
<1> SUFFICES ASSUME TypeOK, [Next]_vars PROVE TypeOK'
  OBVIOUS
<1>1. CASE Worker
  <2>1. NoFp \in Fps \cup {NoFp} /\ TopConf \in Confs
    BY ConfsAssumption
  <2>2. ASSUME NEW d \in Devices \ Drones, NEW c \in Confs, NEW f \in Fps \cup {NoFp},
               ReportFlock(d, c, f)
        PROVE  TypeOK'
    BY <2>2, SightType DEF ReportFlock
  <2>3. ASSUME NEW d \in Drones, ReportRemoteId(d) PROVE TypeOK'
    BY <2>1, <2>3, SightType, DevicesAssumption DEF ReportRemoteId
  <2> QED BY <1>1, <2>2, <2>3 DEF Worker
<1>2. CASE Operator
  BY <1>2, OperatorType
<1>3. CASE ReadIgnored \/ ListMac \/ ListFp \/ Reread \/ Purge
  BY <1>3, ExclusionType
<1>4. CASE Tick
  BY <1>4 DEF TypeOK, Tick, alert, lists, screen, excluding, history, Idle
<1>5. CASE AlertTick
  BY <1>5 DEF TypeOK, AlertTick, lists, screen, excluding, history, Idle
<1>6. CASE UNCHANGED vars
  BY <1>6 DEF TypeOK, vars, Idle
<1> QED BY <1>1, <1>2, <1>3, <1>4, <1>5, <1>6 DEF Next

\* The table stays within its capacity and every row is well formed, whatever is
\* restored, reported, deleted, excluded or lost on the card.
THEOREM TypeCorrect == Spec => []TypeOK
<1> QED BY InitType, StepType, PTL DEF Spec

\* A device that has been announced has a live row that says so: an alert cannot
\* be forgotten without its row leaving the table.
Remembered ==
  \A d \in Devices : told[d] # 0 =>
    \E i \in Rows : table[i].mac = d /\ ~table[i].archived /\ table[i].alerted

\* The inductive invariant behind OneRowEach and OncePerDevice.
Sound == OneRowEach /\ OncePerDevice /\ Remembered

\* Nothing has been announced when a session starts.
LEMMA InitSound == Init => Sound
<1> SUFFICES ASSUME Init PROVE Sound
  OBVIOUS
<1>1. OneRowEach
  BY RestoredType DEF Init, OneRowEach, Rows
<1>2. \A d \in Devices : told[d] = 0
  BY DEF Init
<1> QED BY <1>1, <1>2 DEF Sound, OncePerDevice, Remembered

\* A step that keeps the rows and the announcements keeps the invariant.
LEMMA QuietSound ==
  ASSUME Sound, UNCHANGED <<table, told>>
  PROVE  Sound'
BY DEF Sound, OneRowEach, OncePerDevice, Remembered, Rows

\* A sighting never gives a device a second row or a second alert.
LEMMA SightSound ==
  ASSUME TypeOK, Sound, NEW d \in Devices, NEW c \in Confs, NEW f \in Fps \cup {NoFp},
         Sight(d, c, f)
  PROVE  Sound'
<1> DEFINE k == SlotOf(d)
           r == NewOf(d, c, f)
           old == OldOf(d)
           fires == FiresFor(d, c, f)
<1>1. /\ table' = PutRow(table, k, r) /\ r.mac = d /\ ~r.archived
      /\ r.alerted = (old.alerted \/ fires)
      /\ told' = IF fires THEN [told EXCEPT ![d] = @ + 1] ELSE told
      /\ k # 0 /\ r \in Row
  BY SightEffect
<1>2. /\ k \in DOMAIN table \cup {Len(table) + 1}
      /\ Has(table, d) => k \in DOMAIN table /\ table[k] = old
      /\ ~Has(table, d) => ~old.alerted
      /\ ~Has(table, d) /\ k \in DOMAIN table => table[k].archived
      /\ old.mac = d
  BY <1>1, OldRow
<1>3. table \in Seq(Row) /\ told \in [Devices -> Nat]
  BY DEF TypeOK
<1>4. fires => old.archived \/ ~old.alerted
  BY DEF FiresFor, Crosses
<1> HIDE DEF k, r, old, fires
<1>5. /\ DOMAIN table' = DOMAIN table \cup {k}
      /\ table'[k] = r
      /\ \A i \in DOMAIN table : i # k => table'[i] = table[i]
  <2>1. CASE k = Len(table) + 1
    BY <1>1, <1>3, <2>1 DEF PutRow
  <2>2. CASE k # Len(table) + 1
    BY <1>1, <1>2, <1>3, <2>2 DEF PutRow
  <2> QED BY <2>1, <2>2
<1>6. \A i \in DOMAIN table : table[i].mac = d => i = k
  <2>1. CASE Has(table, d)
    BY <1>2, <2>1 DEF Sound, OneRowEach, Rows
  <2>2. CASE ~Has(table, d)
    BY <2>2 DEF Has, RowsOf
  <2> QED BY <2>1, <2>2
<1>7. OneRowEach'
  BY <1>1, <1>5, <1>6 DEF Sound, OneRowEach, Rows
<1>8. fires => told[d] = 0
  <2> SUFFICES ASSUME told[d] # 0 PROVE ~fires
    OBVIOUS
  <2>1. PICK i \in DOMAIN table :
          table[i].mac = d /\ ~table[i].archived /\ table[i].alerted
    BY DEF Sound, Remembered, Rows
  <2>2. i = k /\ Has(table, d)
    BY <1>6, <2>1 DEF Has, RowsOf
  <2> QED BY <1>2, <1>4, <2>1, <2>2
<1>9. OncePerDevice'
  BY <1>1, <1>3, <1>8 DEF Sound, OncePerDevice
<1>10. Remembered'
  <2> SUFFICES ASSUME NEW e \in Devices, told'[e] # 0
               PROVE  \E i \in DOMAIN table' :
                        table'[i].mac = e /\ ~table'[i].archived /\ table'[i].alerted
    BY DEF Remembered, Rows
  <2>1. CASE e = d /\ fires
    BY <1>1, <1>5, <2>1
  <2>2. CASE ~(e = d /\ fires)
    <3>1. told[e] # 0
      BY <1>1, <1>3, <2>2
    <3>2. PICK i \in DOMAIN table :
            table[i].mac = e /\ ~table[i].archived /\ table[i].alerted
      BY <3>1 DEF Sound, Remembered, Rows
    <3>3. CASE i # k
      BY <1>5, <3>2, <3>3
    <3>4. CASE i = k
      <4>1. Has(table, d) /\ table[k] = old /\ e = d
        BY <1>2, <3>2, <3>4
      <4> QED BY <1>1, <1>5, <3>2, <3>4, <4>1
    <3> QED BY <3>3, <3>4
  <2> QED BY <2>1, <2>2
<1> QED BY <1>7, <1>9, <1>10 DEF Sound

\* Taking rows out never merges two of them, and what stays keeps its flags.
LEMMA RemovalSound ==
  ASSUME TypeOK, Sound, NEW e \in [DOMAIN table' -> DOMAIN table],
         \A a \in DOMAIN table' : table'[a] = table[e[a]],
         \A a, b \in DOMAIN table' : e[a] = e[b] => a = b,
         NEW gone, gone = MacsOf(table) \ MacsOf(table'),
         told' = [d \in Devices |-> IF d \in gone THEN 0 ELSE told[d]]
  PROVE  Sound'
<1>1. OneRowEach'
  BY DEF Sound, OneRowEach, Rows
<1>2. OncePerDevice'
  BY DEF Sound, OncePerDevice, TypeOK
<1>3. Remembered'
  <2> SUFFICES ASSUME NEW d \in Devices, told'[d] # 0
               PROVE  \E i \in DOMAIN table' :
                        table'[i].mac = d /\ ~table'[i].archived /\ table'[i].alerted
    BY DEF Remembered, Rows
  <2>1. d \notin gone /\ told[d] # 0
    OBVIOUS
  <2>2. PICK i \in DOMAIN table :
          table[i].mac = d /\ ~table[i].archived /\ table[i].alerted
    BY <2>1 DEF Sound, Remembered, Rows
  <2>3. d \in MacsOf(table')
    BY <2>1, <2>2 DEF MacsOf
  <2>4. PICK a \in DOMAIN table' : table'[a].mac = d
    BY <2>3 DEF MacsOf
  <2>5. e[a] = i
    BY <2>2, <2>4 DEF Sound, OneRowEach, Rows
  <2> QED BY <2>2, <2>4, <2>5
<1> QED BY <1>1, <1>2, <1>3 DEF Sound

\* Marking or confirming a row changes none of what the invariant reads.
LEMMA EditSound ==
  ASSUME TypeOK, Sound, MenuEdit
  PROVE  Sound'
<1>1. table \in Seq(Row) /\ menu \in DOMAIN table /\ UNCHANGED told
  BY DEF TypeOK, MenuEdit, history
<1>2. table' = [table EXCEPT ![menu] = [table[menu] EXCEPT !.noted = ~@]]
  BY DEF MenuEdit
<1>3. table[menu] \in Row
  BY <1>1
<1> DEFINE q == [table[menu] EXCEPT !.noted = ~@]
<1>4. /\ q.mac = table[menu].mac /\ q.archived = table[menu].archived
      /\ q.alerted = table[menu].alerted
  BY <1>3 DEF Row
<1>5. table' = [table EXCEPT ![menu] = q]
  BY <1>2
<1> HIDE DEF q
<1>6. /\ DOMAIN table' = DOMAIN table
      /\ \A i \in DOMAIN table : /\ table'[i].mac = table[i].mac
                                 /\ table'[i].archived = table[i].archived
                                 /\ table'[i].alerted = table[i].alerted
  BY <1>1, <1>4, <1>5
<1> QED BY <1>1, <1>6 DEF Sound, OneRowEach, OncePerDevice, Remembered, Rows

\* Deleting a row removes its device and no other.
LEMMA DeleteSound ==
  ASSUME TypeOK, Sound, MenuDelete
  PROVE  Sound'
<1> DEFINE e == [a \in 1 .. Len(table) - 1 |-> IF a < menu THEN a ELSE a + 1]
           gone == {table[menu].mac}
<1>1. /\ table \in Seq(Row) /\ menu \in DOMAIN table
      /\ table' = CloseGap(table, menu)
      /\ told' = [d \in Devices |-> IF d \in gone THEN 0 ELSE told[d]]
  BY DEF TypeOK, MenuDelete, Dropped
<1>2. DOMAIN table' = 1 .. Len(table) - 1 /\ DOMAIN table = 1 .. Len(table)
  BY <1>1 DEF CloseGap
<1>3. e \in [DOMAIN table' -> DOMAIN table]
  BY <1>1, <1>2
<1>4. \A a \in DOMAIN table' : table'[a] = table[e[a]] /\ e[a] # menu
  BY <1>1, <1>2 DEF CloseGap
<1>5. \A a, b \in DOMAIN table' : e[a] = e[b] => a = b
  BY <1>1, <1>2
<1>6. \A i \in DOMAIN table : i # menu => \E a \in DOMAIN table' : e[a] = i
  <2> SUFFICES ASSUME NEW i \in DOMAIN table, i # menu
               PROVE  \E a \in DOMAIN table' : e[a] = i
    OBVIOUS
  <2>1. CASE i < menu
    <3>1. i \in DOMAIN table' /\ e[i] = i
      BY <1>1, <1>2, <2>1
    <3> QED BY <3>1
  <2>2. CASE i > menu
    <3>1. i - 1 \in DOMAIN table' /\ e[i - 1] = i
      BY <1>1, <1>2, <2>2
    <3> QED BY <3>1
  <2> QED BY <1>1, <1>2, <2>1, <2>2
<1> HIDE DEF e
<1>7. gone = MacsOf(table) \ MacsOf(table')
  <2>1. table[menu].mac \in MacsOf(table) \ MacsOf(table')
    BY <1>1, <1>3, <1>4 DEF Sound, OneRowEach, Rows, MacsOf
  <2>2. \A i \in DOMAIN table : i # menu => table[i].mac \in MacsOf(table')
    BY <1>4, <1>6 DEF MacsOf
  <2> QED BY <2>1, <2>2 DEF MacsOf
<1> HIDE DEF gone
<1> QED BY <1>1, <1>3, <1>4, <1>5, <1>7, RemovalSound

\* A purge removes the excluded devices and no other.
LEMMA PurgeSound ==
  ASSUME TypeOK, Sound, Purge
  PROVE  Sound'
<1> DEFINE K == {i \in DOMAIN table : ~Excluded(table[i].mac, table[i].fp)}
           gone == MacsOf(table) \ MacsOf(table')
<1>1. /\ table \in Seq(Row) /\ table' \in Compactions(table, K)
      /\ told' = [d \in Devices |-> IF d \in gone THEN 0 ELSE told[d]]
  BY DEF TypeOK, Purge, Dropped
<1>2. K \in SUBSET DOMAIN table
  OBVIOUS
<1> HIDE DEF K, gone
<1>3. PICK e \in [DOMAIN table' -> K] :
        /\ \A a \in DOMAIN table' : table'[a] = table[e[a]]
        /\ \A a, b \in DOMAIN table' : e[a] = e[b] => a = b
  BY <1>1, <1>2, CompactionOrigin
<1>4. e \in [DOMAIN table' -> DOMAIN table]
  BY <1>2, <1>3
<1>5. gone = MacsOf(table) \ MacsOf(table')
  BY DEF gone
<1> QED BY <1>1, <1>3, <1>4, <1>5, RemovalSound

\* Every step keeps the invariant.
LEMMA StepSound == TypeOK /\ Sound /\ [Next]_vars => Sound'
<1> SUFFICES ASSUME TypeOK, Sound, [Next]_vars PROVE Sound'
  OBVIOUS
<1>1. CASE Worker
  <2>1. NoFp \in Fps \cup {NoFp} /\ TopConf \in Confs
    BY ConfsAssumption
  <2>2. ASSUME NEW d \in Devices \ Drones, NEW c \in Confs, NEW f \in Fps \cup {NoFp},
               ReportFlock(d, c, f)
        PROVE  Sound'
    BY <2>2, SightSound DEF ReportFlock
  <2>3. ASSUME NEW d \in Drones, ReportRemoteId(d) PROVE Sound'
    BY <2>1, <2>3, SightSound, DevicesAssumption DEF ReportRemoteId
  <2> QED BY <1>1, <2>2, <2>3 DEF Worker
<1>2. CASE MenuEdit
  BY <1>2, EditSound
<1>3. CASE MenuDelete
  BY <1>3, DeleteSound
<1>4. CASE Purge
  BY <1>4, PurgeSound
<1>5. CASE Operator /\ ~MenuEdit /\ ~MenuDelete
  <2>1. UNCHANGED <<table, told>>
    BY <1>5 DEF Operator, SetRung, MenuOpen, MenuClose, MenuIgnore, ForgetIgnored, history
  <2> QED BY <2>1, QuietSound
<1>6. CASE Tick \/ AlertTick \/ ReadIgnored \/ ListMac \/ ListFp \/ Reread \/ UNCHANGED vars
  <2>1. UNCHANGED <<table, told>>
    BY <1>6 DEF Tick, AlertTick, ReadIgnored, ListMac, ListFp, Meanwhile, Reread, vars, history
  <2> QED BY <2>1, QuietSound
<1> QED BY <1>1, <1>2, <1>3, <1>4, <1>5, <1>6 DEF Next

\* The invariant holds throughout a session.
LEMMA AlwaysSound == Spec => []Sound
<1> QED BY InitType, InitSound, StepType, StepSound, PTL DEF Spec

\* No address ever has two rows in a session, although the worker appends and
\* evicts between any two steps of the thread that deletes and compacts.
THEOREM NoSecondRow == Spec => []OneRowEach
<1>1. Sound => OneRowEach
  BY DEF Sound
<1> QED BY <1>1, AlwaysSound, PTL

\* flock_alert_should_fire_ex() announces no device twice while its row stays on
\* the list: whatever it is seen as, however the alert level is moved, whether or
\* not its row came from the card, and for every cooldown.
THEOREM NoSecondAlert == Spec => []OncePerDevice
<1>1. Sound => OncePerDevice
  BY DEF Sound
<1> QED BY <1>1, AlwaysSound, PTL

-----------------------------------------------------------------------------
(* Live rows stay, and an exclusion that is in force holds.                *)

\* A sighting writes one slot: its device's, a restored row's or a new one.
LEMMA SightShape ==
  ASSUME TypeOK, NEW d \in Devices, NEW c \in Confs, NEW f \in Fps \cup {NoFp},
         Sight(d, c, f)
  PROVE  /\ DOMAIN table' = DOMAIN table \cup {SlotOf(d)}
         /\ table'[SlotOf(d)] = NewOf(d, c, f)
         /\ \A i \in DOMAIN table : i # SlotOf(d) => table'[i] = table[i]
<1> DEFINE k == SlotOf(d)
           r == NewOf(d, c, f)
<1>1. table \in Seq(Row) /\ k # 0 /\ table' = PutRow(table, k, r) /\ r \in Row
  BY SightEffect DEF TypeOK
<1>2. k \in DOMAIN table \cup {Len(table) + 1}
  BY <1>1, OldRow
<1> HIDE DEF k, r
<1>3. CASE k = Len(table) + 1
  BY <1>1, <1>3 DEF PutRow, k, r
<1>4. CASE k # Len(table) + 1
  BY <1>1, <1>2, <1>4 DEF PutRow, k, r
<1> QED BY <1>3, <1>4

\* The devices that have a live row keep one.
LiveKept ==
  \A i \in Live : \E j \in DOMAIN table' :
    table'[j].mac = table[i].mac /\ ~table'[j].archived

\* The worker's handlers take no live row: the slot they write is the device's own,
\* a restored one or a new one.
LEMMA SightKeepsLive ==
  ASSUME TypeOK, NEW d \in Devices, NEW c \in Confs, NEW f \in Fps \cup {NoFp},
         Sight(d, c, f)
  PROVE  LiveKept
<1> DEFINE k == SlotOf(d)
           r == NewOf(d, c, f)
<1>1. r.mac = d /\ ~r.archived /\ k # 0
  BY SightEffect
<1>2. /\ DOMAIN table' = DOMAIN table \cup {k} /\ table'[k] = r
      /\ \A i \in DOMAIN table : i # k => table'[i] = table[i]
  BY SightShape
<1>3. /\ Has(table, d) => table[k] = OldOf(d) /\ OldOf(d).mac = d
      /\ ~Has(table, d) /\ k \in DOMAIN table => table[k].archived
  BY <1>1, OldRow
<1> HIDE DEF k, r
<1> SUFFICES ASSUME NEW i \in DOMAIN table, ~table[i].archived
             PROVE  \E j \in DOMAIN table' :
                      table'[j].mac = table[i].mac /\ ~table'[j].archived
  BY DEF LiveKept, Live, Rows
<1>4. CASE i # k
  BY <1>2, <1>4
<1>5. CASE i = k
  <2>1. table[k].mac = d
    BY <1>3, <1>5
  <2> QED BY <1>1, <1>2, <1>5, <2>1
<1> QED BY <1>4, <1>5

\* No step but a deletion and a purge takes the live row of a device.
LEMMA StepKeepsLive ==
  ASSUME TypeOK, [Next]_vars, ~MenuDelete, ~Purge
  PROVE  LiveKept
<1>1. CASE Worker
  <2>1. NoFp \in Fps \cup {NoFp} /\ TopConf \in Confs
    BY ConfsAssumption
  <2>2. ASSUME NEW d \in Devices \ Drones, NEW c \in Confs, NEW f \in Fps \cup {NoFp},
               ReportFlock(d, c, f)
        PROVE  LiveKept
    BY <2>2, SightKeepsLive DEF ReportFlock
  <2>3. ASSUME NEW d \in Drones, ReportRemoteId(d) PROVE LiveKept
    BY <2>1, <2>3, SightKeepsLive, DevicesAssumption DEF ReportRemoteId
  <2> QED BY <1>1, <2>2, <2>3 DEF Worker
<1>2. CASE MenuEdit
  <2>1. table \in Seq(Row) /\ menu \in DOMAIN table
    BY <1>2 DEF TypeOK, MenuEdit
  <2> DEFINE q == [table[menu] EXCEPT !.noted = ~@]
  <2>2. table' = [table EXCEPT ![menu] = q]
    BY <1>2 DEF MenuEdit
  <2>3. q.mac = table[menu].mac /\ q.archived = table[menu].archived
    BY <2>1 DEF Row
  <2> HIDE DEF q
  <2>4. /\ DOMAIN table' = DOMAIN table
        /\ \A i \in DOMAIN table :
             table'[i].mac = table[i].mac /\ table'[i].archived = table[i].archived
    BY <2>1, <2>2, <2>3
  <2> QED BY <2>4 DEF LiveKept, Live, Rows
<1>3. CASE Operator /\ ~MenuEdit
  <2>1. UNCHANGED table
    BY <1>3 DEF Operator, SetRung, MenuOpen, MenuClose, MenuIgnore, ForgetIgnored
  <2> QED BY <2>1 DEF LiveKept, Live, Rows
<1>4. CASE Tick \/ AlertTick \/ ReadIgnored \/ ListMac \/ ListFp \/ Reread \/ UNCHANGED vars
  <2>1. UNCHANGED table
    BY <1>4 DEF Tick, AlertTick, ReadIgnored, ListMac, ListFp, Meanwhile, Reread, vars
  <2> QED BY <2>1 DEF LiveKept, Live, Rows
<1> QED BY <1>1, <1>2, <1>3, <1>4 DEF Next

\* "A live entry is never evicted": for every capacity and any table the card gave
\* back, what the worker does to make room costs no device its live row.
THEOREM LiveRowsKept == Spec => LiveRowsStay
<1>1. TypeOK /\ [Next]_vars =>
        [~MenuDelete /\ ~Purge => \A i \in Live : \E j \in DOMAIN table' :
           table'[j].mac = table[i].mac /\ ~table'[j].archived]_vars
  BY StepKeepsLive DEF LiveKept
<1>2. Spec => [][Next]_vars
  BY DEF Spec
<1> QED BY <1>1, <1>2, TypeCorrect, PTL DEF LiveRowsStay

\* What is enforced is what can be read of the card.
Agreed ==
  /\ ramMacs = Range(sig_db_ignored_read.macs)
  /\ ramFps = Range(sig_db_ignored_read.fps)

\* The inductive invariant behind ExclusionsHold: outside an exclusion, and in one
\* that has written nothing, memory and card agree, unless the card kept them apart.
Enforced ==
  /\ NoExcludedRow
  /\ pc \in {"idle", "read", "listMac", "purge"} /\ ~apart => Agreed
  /\ pc = "listFp" /\ ~wrote /\ ~apart => Agreed

\* An empty file says nothing.
LEMMA NothingListed ==
  \A digits, room : Range(sig_lines_read(<<>>, digits, room)) = {}
<1>1. \A digits : Firsts(<<>>, digits) = {}
  BY DEF Firsts
<1>2. \A room : FirstOf({}, room) = {}
  BY DEF FirstOf
<1> QED BY <1>1, <1>2 DEF sig_lines_read, Range

\* An exclusion list that is empty excludes nothing.
LEMMA InitEnforced == Init => Enforced
<1> SUFFICES ASSUME Init PROVE Enforced
  OBVIOUS
<1>1. ramMacs = {} /\ ramFps = {} /\ file = <<>>
  BY DEF Init
<1> QED BY <1>1, NothingListed DEF Enforced, Agreed, sig_db_ignored_read, NoExcludedRow, Excluded

\* Rows are judged by their address and fingerprint: a table whose rows' were in
\* the old one, under lists no longer, has none that is excluded.
LEMMA RowsFromBefore ==
  ASSUME NoExcludedRow, pc # "purge", UNCHANGED <<ramMacs, ramFps>>,
         \A j \in DOMAIN table' : \E i \in DOMAIN table :
           table'[j].mac = table[i].mac /\ table'[j].fp = table[i].fp
  PROVE  NoExcludedRow'
BY DEF NoExcludedRow, Excluded, Rows

\* A report that passed the gate, and a Remote ID report, which has none, leave no
\* excluded row that is not a drone's.
LEMMA SightEnforced ==
  ASSUME TypeOK, Enforced, NEW d \in Devices, NEW c \in Confs, NEW f \in Fps \cup {NoFp},
         Sight(d, c, f), d \in Drones \/ ~Excluded(d, f)
  PROVE  Enforced'
<1> DEFINE k == SlotOf(d)
           r == NewOf(d, c, f)
           old == OldOf(d)
<1>1. UNCHANGED <<lists, excluding>>
  BY DEF Sight
<1>2. k # 0 /\ r.mac = d
  BY SightEffect
<1>3. /\ DOMAIN table' = DOMAIN table \cup {k} /\ table'[k] = r
      /\ \A i \in DOMAIN table : i # k => table'[i] = table[i]
  BY SightShape
<1>4. old \in Row
  BY <1>2, OldRow
<1>5. r.fp = IF f # NoFp THEN f ELSE old.fp
  <2>1. old \in [mac : Devices, conf : Confs \cup {0}, epoch : Nat, archived : BOOLEAN,
                 alerted : BOOLEAN, fp : Fps \cup {NoFp}, noted : BOOLEAN]
    BY <1>4 DEF Row
  <2> DEFINE m == Merged(old, c, f)
  <2>2. m.fp = IF f # NoFp THEN f ELSE old.fp
    BY <2>1 DEF Merged
  <2>3. r = [m EXCEPT !.alerted = @ \/ FiresFor(d, c, f)]
    BY DEF NewOf
  <2>4. m \in Row
    BY <1>4, MergedType DEF TypeOK
  <2>5. r.fp = m.fp
    <3>1. m \in [mac : Devices, conf : Confs \cup {0}, epoch : Nat, archived : BOOLEAN,
                 alerted : BOOLEAN, fp : Fps \cup {NoFp}, noted : BOOLEAN]
      BY <2>4 DEF Row
    <3> HIDE DEF m
    <3> QED BY <2>3, <3>1
  <2> QED BY <2>2, <2>5
<1>6. Has(table, d) => k \in DOMAIN table /\ table[k] = old /\ old.mac = d
  BY <1>2, OldRow
<1>7. ~Has(table, d) => old.fp = NoFp
  BY DEF OldOf, Fresh
<1> HIDE DEF k, r, old
<1>9. NoExcludedRow'
  <2> SUFFICES ASSUME pc # "purge", NEW j \in DOMAIN table'
               PROVE  table'[j].mac \in Drones \/ ~Excluded(table'[j].mac, table'[j].fp)
    BY <1>1 DEF NoExcludedRow, Excluded, Rows, lists, excluding
  <2>1. \A i \in DOMAIN table : table[i].mac \in Drones \/ ~Excluded(table[i].mac, table[i].fp)
    BY DEF Enforced, NoExcludedRow, Rows
  <2>2. CASE j # k
    BY <1>3, <2>1, <2>2
  <2>3. CASE j = k /\ d \in Drones
    BY <1>2, <1>3, <2>3
  <2>4. CASE j = k /\ d \notin Drones
    <3>1. Mac(d) \notin ramMacs /\ (f # NoFp => Fp(f) \notin ramFps)
      BY <2>4 DEF Excluded
    <3>2. CASE f # NoFp
      BY <1>2, <1>3, <1>5, <2>4, <3>1, <3>2 DEF Excluded
    <3>3. CASE f = NoFp /\ ~Has(table, d)
      BY <1>2, <1>3, <1>5, <1>7, <2>4, <3>1, <3>3 DEF Excluded
    <3>4. CASE f = NoFp /\ Has(table, d)
      BY <1>2, <1>3, <1>5, <1>6, <2>1, <2>4, <3>1, <3>4 DEF Excluded
    <3> QED BY <3>2, <3>3, <3>4
  <2> QED BY <2>2, <2>3, <2>4
<1> QED BY <1>1, <1>9 DEF Enforced, Agreed, sig_db_ignored_read, lists, excluding

\* An append that took nothing leaves what the file says, and one that left a piece
\* of a line behind is remembered.
LEMMA AppendEnforced ==
  ASSUME TypeOK, NEW value, NEW answer, Appended(value, answer), ~answer
  PROVE  UNCHANGED <<file, apart>> \/ apart'
BY DEF Appended

\* Every step keeps what is enforced, whatever the card refuses.
LEMMA StepEnforced ==
  ASSUME TypeOK, Enforced, [Next]_vars
  PROVE  Enforced'
<1>1. CASE Worker
  <2>1. NoFp \in Fps \cup {NoFp} /\ TopConf \in Confs
    BY ConfsAssumption
  <2>2. ASSUME NEW d \in Devices \ Drones, NEW c \in Confs, NEW f \in Fps \cup {NoFp},
               ReportFlock(d, c, f)
        PROVE  Enforced'
    BY <2>2, SightEnforced DEF ReportFlock
  <2>3. ASSUME NEW d \in Drones, ReportRemoteId(d) PROVE Enforced'
    BY <2>1, <2>3, SightEnforced, DevicesAssumption DEF ReportRemoteId
  <2> QED BY <1>1, <2>2, <2>3 DEF Worker
<1>2. CASE MenuEdit
  <2>1. table \in Seq(Row) /\ menu \in DOMAIN table /\ pc = "idle"
    BY <1>2 DEF TypeOK, MenuEdit, Idle
  <2> DEFINE q == [table[menu] EXCEPT !.noted = ~@]
  <2>2. table' = [table EXCEPT ![menu] = q] /\ UNCHANGED <<lists, excluding>>
    BY <1>2 DEF MenuEdit
  <2>3. q.mac = table[menu].mac /\ q.fp = table[menu].fp
    BY <2>1 DEF Row
  <2> HIDE DEF q
  <2>4. \A j \in DOMAIN table' : j \in DOMAIN table /\ table'[j].mac = table[j].mac
                                 /\ table'[j].fp = table[j].fp
    BY <2>1, <2>2, <2>3
  <2>5. NoExcludedRow'
    BY <2>1, <2>2, <2>4, RowsFromBefore DEF Enforced, lists
  <2> QED BY <2>2, <2>5 DEF Enforced, Agreed, sig_db_ignored_read, lists, excluding
<1>3. CASE MenuDelete
  <2>1. /\ table \in Seq(Row) /\ menu \in DOMAIN table /\ pc = "idle"
        /\ table' = CloseGap(table, menu) /\ UNCHANGED <<lists, excluding>>
    BY <1>3 DEF TypeOK, MenuDelete, Idle
  <2>2. \A j \in DOMAIN table' : \E i \in DOMAIN table : table'[j] = table[i]
    BY <2>1 DEF CloseGap
  <2>3. NoExcludedRow'
    BY <2>1, <2>2, RowsFromBefore DEF Enforced, lists
  <2> QED BY <2>1, <2>3 DEF Enforced, Agreed, sig_db_ignored_read, lists, excluding
<1>4. CASE Purge
  <2> DEFINE K == {i \in DOMAIN table : ~Excluded(table[i].mac, table[i].fp)}
  <2>1. /\ table \in Seq(Row) /\ table' \in Compactions(table, K) /\ pc = "purge"
        /\ UNCHANGED lists
    BY <1>4 DEF TypeOK, Purge
  <2>2. K \in SUBSET DOMAIN table /\ \A i \in K : ~Excluded(table[i].mac, table[i].fp)
    OBVIOUS
  <2> HIDE DEF K
  <2>3. PICK e \in [DOMAIN table' -> K] : \A a \in DOMAIN table' : table'[a] = table[e[a]]
    BY <2>1, <2>2, CompactionOrigin
  <2>4. \A a \in DOMAIN table' : ~Excluded(table'[a].mac, table'[a].fp)
    BY <2>2, <2>3
  <2>5. NoExcludedRow'
    BY <2>1, <2>4 DEF NoExcludedRow, Excluded, Rows, lists
  <2>6. pc' = "idle"
    BY <1>4 DEF Purge, Returned
  <2> QED BY <2>1, <2>5, <2>6 DEF Enforced, Agreed, sig_db_ignored_read, lists
<1>5. CASE ReadIgnored \/ ListMac \/ ListFp
  <2>1. NoExcludedRow'
    <3>1. UNCHANGED <<table, ramMacs, ramFps>> /\ pc # "purge"
      BY <1>5 DEF ReadIgnored, ListMac, ListFp, Meanwhile, lists
    <3> QED BY <3>1, RowsFromBefore DEF Enforced
  <2>2. CASE ReadIgnored
    BY <2>1, <2>2 DEF ReadIgnored, Enforced, Agreed, sig_db_ignored_read, lists
  <2>3. CASE ListMac
    <3>1. UNCHANGED <<ramMacs, ramFps>> /\ pc = "listMac"
      BY <2>3 DEF ListMac
    <3>2. \/ UNCHANGED <<file, apart>>
          \/ pc' = "listFp" /\ (~wrote' => UNCHANGED <<file, apart>> \/ apart')
      BY <2>3, AppendEnforced DEF ListMac
    <3>3. pc' \in {"listFp", "idle"}
      BY <2>3 DEF ListMac, Returned
    <3>4. Agreed /\ UNCHANGED file => Agreed'
      BY <3>1 DEF Agreed, sig_db_ignored_read
    <3> QED BY <2>1, <3>1, <3>2, <3>3, <3>4 DEF Enforced
  <2>4. CASE ListFp
    <3>1. UNCHANGED <<ramMacs, ramFps>> /\ pc = "listFp"
      BY <2>4 DEF ListFp
    <3>2. \/ pc' = "reread"
          \/ pc' = "idle" /\ ~wrote /\ (UNCHANGED <<file, apart>> \/ apart')
      BY <2>4, AppendEnforced DEF ListFp, Enforce, Returned
    <3>3. Agreed /\ UNCHANGED file => Agreed'
      BY <3>1 DEF Agreed, sig_db_ignored_read
    <3> QED BY <2>1, <3>1, <3>2, <3>3 DEF Enforced
  <2> QED BY <1>5, <2>2, <2>3, <2>4
<1>7. CASE Reread
  <2>1. pc' = "purge" /\ UNCHANGED file
    BY <1>7 DEF Reread
  <2>2. Agreed' \/ apart'
    BY <1>7, <2>1 DEF Reread, GateTakes, Agreed, sig_db_ignored_read
  <2> QED BY <2>1, <2>2 DEF Enforced, NoExcludedRow
<1>8. CASE ForgetIgnored
  <2>1. ramMacs' = {} /\ ramFps' = {} /\ UNCHANGED excluding
    BY <1>8 DEF ForgetIgnored
  <2>2. Agreed' \/ apart'
    <3>1. CASE file' = <<>>
      <4>1. Range(sig_db_ignored_read.macs)' = {} /\ Range(sig_db_ignored_read.fps)' = {}
        BY <3>1, NothingListed DEF sig_db_ignored_read
      <4> QED BY <2>1, <4>1 DEF Agreed
    <3> QED BY <1>8, <3>1 DEF ForgetIgnored
  <2>3. NoExcludedRow'
    BY <2>1 DEF NoExcludedRow, Excluded
  <2> QED BY <2>1, <2>2, <2>3 DEF Enforced, excluding
<1>9. CASE MenuIgnore
  <2>1. NoExcludedRow'
    BY <1>9 DEF MenuIgnore, lists, Idle, Enforced, NoExcludedRow, Excluded, Rows
  <2> QED BY <1>9, <2>1 DEF MenuIgnore, lists, Idle, Enforced, Agreed, sig_db_ignored_read
<1>10. CASE (\E r \in Rungs : SetRung(r)) \/ (\E i \in 1 .. Cap : MenuOpen(i)) \/ MenuClose
            \/ Tick \/ AlertTick \/ UNCHANGED vars
  <2>1. UNCHANGED <<table, lists, excluding>>
    BY <1>10 DEF SetRung, MenuOpen, MenuClose, Tick, AlertTick, vars, lists, excluding
  <2> QED BY <2>1 DEF lists, excluding, Enforced, Agreed, sig_db_ignored_read, NoExcludedRow,
                      Excluded, Rows
<1> QED BY <1>1, <1>2, <1>3, <1>4, <1>5, <1>7, <1>8, <1>9, <1>10 DEF Next, Operator

\* "It's mine: never alert" holds, for every list and every limit, while the worker
\* reports and whatever the card refuses: nothing that is enforced against stays on
\* the list, and what is enforced is what a restart would enforce, until the card
\* keeps a piece of a line, is not read back or does not delete the file.
THEOREM IgnoredStayIgnored == Spec => []ExclusionsHold
<1>1. Enforced => ExclusionsHold
  BY DEF Enforced, Agreed, ExclusionsHold, MemoryMatchesCard, Idle
<1>2. TypeOK /\ Enforced /\ [Next]_vars => Enforced'
  BY StepEnforced
<1> QED BY <1>1, <1>2, InitEnforced, InitType, StepType, PTL DEF Spec

\* A line that is one value and nothing else is read as that value.
LEMMA ValueIsRead ==
  ASSUME NEW line
  PROVE  /\ \A f \in Fps : line.text = Fp(f) => sig_learned_parse_line(line) = 8
         /\ \A d \in Devices : line.text = Mac(d) => sig_learned_parse_line(line) = 12
<1>1. ASSUME NEW x \in Devices \cup Fps, NEW n \in {8, 12}, line.text = << <<x, n>> >>
      PROVE  sig_learned_parse_line(line) = n
  <2>1. line.text # << >> /\ Head(line.text)[1] = x /\ x # "#"
    BY <1>1, TextsAssumption
  <2>2. {d \in (DOMAIN line.text) \X (1..12) : d[2] <= line.text[d[1]][2]} = {1} \X (1..n)
    <3>1. DOMAIN line.text = {1} /\ line.text[1][2] = n
      BY <1>1
    <3> QED BY <1>1, <3>1
  <2>3. Cardinality({1} \X (1..n)) = n
    <3> DEFINE one == {1}
               few == 1..n
    <3>1. IsFiniteSet(one) /\ Cardinality(one) = 1
      BY FS_Singleton
    <3>2. IsFiniteSet(few) /\ Cardinality(few) = n
      <4>1. n \in Nat /\ n - 1 + 1 = n /\ ~(1 > n) /\ 1 \in Int
        BY <1>1
      <4>2. IsFiniteSet(1..n) /\ Cardinality(1..n) = IF 1 > n THEN 0 ELSE n - 1 + 1
        BY <4>1, FS_Interval
      <4> QED BY <4>1, <4>2
    <3> HIDE DEF one, few
    <3>3. Cardinality(one \X few) = 1 * n
      BY <3>1, <3>2, FS_Product
    <3> QED BY <1>1, <3>3 DEF one, few
  <2>4. Digits(line.text) = n
    BY <2>2, <2>3 DEF Digits
  <2> QED BY <1>1, <2>1, <2>4 DEF sig_learned_parse_line
<1> QED BY <1>1 DEF Fp, Mac

\* Where there is room for all of the lines with a value, all of them are read.
LEMMA AllAreRead ==
  ASSUME NEW f \in Seq(Lines), NEW digits, NEW room \in Nat,
         Cardinality(Firsts(f, digits)) <= room
  PROVE  /\ DOMAIN sig_lines_read(f, digits, room) = Firsts(f, digits)
         /\ Range(sig_lines_read(f, digits, room)) = {f[i].text : i \in Firsts(f, digits)}
         /\ IsFiniteSet(Firsts(f, digits))
<1> DEFINE S == Firsts(f, digits)
<1>1. IsFiniteSet(S) /\ S \subseteq Nat /\ Cardinality(S) \in Nat
  <2>1. IsFiniteSet(1..Len(f)) /\ DOMAIN f = 1..Len(f)
    BY FS_Interval
  <2>2. IsFiniteSet(S) /\ S \subseteq Nat
    BY <2>1, FS_Subset DEF Firsts
  <2> QED BY <2>2, FS_CardinalityType
<1> HIDE DEF S
<1>2. ASSUME NEW i \in S
      PROVE  Cardinality({k \in S : k < i}) < room
  <2>1. IsFiniteSet(S \ {i}) /\ Cardinality(S \ {i}) = Cardinality(S) - 1
    BY <1>1, FS_RemoveElement
  <2>2. {k \in S : k < i} \subseteq S \ {i}
    BY <1>1
  <2>3. IsFiniteSet({k \in S : k < i})
        /\ Cardinality({k \in S : k < i}) <= Cardinality(S \ {i})
    BY <2>1, <2>2, FS_Subset
  <2>4. Cardinality({k \in S : k < i}) \in Nat
    BY <2>3, FS_CardinalityType
  <2> QED BY <1>1, <2>1, <2>3, <2>4 DEF S
<1>3. FirstOf(S, room) = S
  BY <1>2 DEF FirstOf
<1> QED BY <1>1, <1>3 DEF sig_lines_read, Range, S

\* A line that ends the file is read when no line before it says the same.
LEMMA LineAdded ==
  ASSUME NEW f \in Seq(Lines), NEW text \in Texts, NEW digits,
         sig_learned_parse_line([text |-> text, ended |-> TRUE]) = digits,
         text \notin {f[i].text : i \in Firsts(f, digits)}
  PROVE  LET line == [text |-> text, ended |-> TRUE]
         IN  Firsts(Append(f, line), digits) = Firsts(f, digits) \cup {Len(f) + 1}
<1> DEFINE line == [text |-> text, ended |-> TRUE]
           now == Append(f, line)
           n == Len(f)
<1>1. line \in Lines /\ line.text = text
  BY DEF Lines
<1>2. /\ n \in Nat /\ DOMAIN f = 1..n /\ DOMAIN now = 1..(n + 1)
      /\ now[n + 1] = line /\ \A i \in 1..n : now[i] = f[i]
  BY <1>1
<1> HIDE DEF line, now, n
<1>3. \A i \in 1..n : i \in Firsts(now, digits) <=> i \in Firsts(f, digits)
  <2> SUFFICES ASSUME NEW i \in 1..n
               PROVE  i \in Firsts(now, digits) <=> i \in Firsts(f, digits)
    OBVIOUS
  <2>1. \A k \in 1..(i - 1) : now[k] = f[k]
    BY <1>2
  <2> QED BY <1>2, <2>1 DEF Firsts
<1>4. n + 1 \in Firsts(now, digits)
  <2>1. ASSUME NEW k \in 1..n, f[k].text = text PROVE FALSE
    <3> DEFINE T == {j \in 1..n : f[j].text = text}
    <3>1. PICK j \in T : \A m \in T : j <= m
      <4>1. T \in SUBSET Nat /\ T # {}
        BY <1>2, <2>1
      <4> QED BY <4>1, NatMin
    <3>2. \A m \in 1..(j - 1) : f[m].text # f[j].text
      BY <1>2, <3>1
    <3>3. sig_learned_parse_line(f[j]) = digits
      BY <1>1, <3>1 DEF sig_learned_parse_line, line
    <3>4. j \in Firsts(f, digits)
      BY <1>2, <3>1, <3>2, <3>3 DEF Firsts
    <3> QED BY <3>1, <3>4
  <2>2. \A k \in 1..((n + 1) - 1) : now[k].text # now[n + 1].text
    BY <1>1, <1>2, <2>1
  <2>3. sig_learned_parse_line(now[n + 1]) = digits /\ n + 1 \in DOMAIN now
    BY <1>2 DEF line
  <2> QED BY <2>2, <2>3 DEF Firsts
<1>5. Firsts(now, digits) \subseteq 1..(n + 1) /\ Firsts(f, digits) \subseteq 1..n
  BY <1>2 DEF Firsts
<1>6. \A i \in 1..(n + 1) : i \in 1..n \/ i = n + 1
  BY <1>2
<1>7. Firsts(now, digits) = Firsts(f, digits) \cup {n + 1}
  BY <1>2, <1>3, <1>4, <1>5, <1>6
<1> QED BY <1>7 DEF now, n, line

\* A line of another kind changes nothing.
LEMMA LineBeside ==
  ASSUME NEW f \in Seq(Lines), NEW line \in Lines, NEW digits,
         sig_learned_parse_line(line) # digits
  PROVE  /\ Firsts(Append(f, line), digits) = Firsts(f, digits)
         /\ \A i \in Firsts(f, digits) : Append(f, line)[i] = f[i]
<1> DEFINE now == Append(f, line)
           n == Len(f)
<1>2. /\ n \in Nat /\ DOMAIN f = 1..n /\ DOMAIN now = 1..(n + 1)
      /\ now[n + 1] = line /\ \A i \in 1..n : now[i] = f[i]
  OBVIOUS
<1> HIDE DEF now, n
<1>3. \A i \in 1..n : i \in Firsts(now, digits) <=> i \in Firsts(f, digits)
  <2> SUFFICES ASSUME NEW i \in 1..n
               PROVE  i \in Firsts(now, digits) <=> i \in Firsts(f, digits)
    OBVIOUS
  <2>1. \A k \in 1..(i - 1) : now[k] = f[k]
    BY <1>2
  <2> QED BY <1>2, <2>1 DEF Firsts
<1>4. n + 1 \notin Firsts(now, digits)
  BY <1>2 DEF Firsts
<1>5. Firsts(now, digits) \subseteq 1..(n + 1) /\ Firsts(f, digits) \subseteq 1..n
  BY <1>2 DEF Firsts
<1>6. \A i \in 1..(n + 1) : i \in 1..n \/ i = n + 1
  BY <1>2
<1> QED BY <1>2, <1>3, <1>4, <1>5, <1>6 DEF now

\* The inductive invariant behind AddressIsListed, while the card refuses nothing:
\* every line has ended, the addresses in the file all find room, and an exclusion
\* past its first append has its address among them.
Listed ==
  faults = 0 =>
    /\ \A i \in DOMAIN file : file[i].ended
    /\ Cardinality(Firsts(file, 12)) <= MaxMacs
    /\ pc = "listMac" => have.macs = sig_db_ignored_read.macs
    /\ pc \in {"listFp", "reread", "purge"} =>
         Mac(target.mac) \in Range(sig_db_ignored_read.macs)

\* A file of finished lines takes the next one on a line of its own.
LEMMA WholeLine ==
  ASSUME TypeOK, Listed, NEW value, NEW answer, Appended(value, answer), faults' = 0
  PROVE  /\ faults = 0 /\ answer
         /\ file' = Append(file, [text |-> value, ended |-> TRUE])
<1>0. ~Fault("append")
  BY DEF Fault, TypeOK
<1>1. faults = 0 /\ answer /\ file' = Written(file, value, TRUE)
  BY <1>0, Zenon DEF Appended
<1>2. file # <<>> => file[Len(file)].ended
  BY <1>1 DEF Listed, TypeOK
<1> QED BY <1>1, <1>2 DEF Written, Last

\* Every step keeps it.
LEMMA StepListed ==
  ASSUME TypeOK, Listed, [Next]_vars
  PROVE  Listed'
<1> SUFFICES ASSUME faults' = 0
             PROVE  /\ \A i \in DOMAIN file' : file'[i].ended
                    /\ Cardinality(Firsts(file', 12)) <= MaxMacs
                    /\ pc' = "listMac" => have'.macs = sig_db_ignored_read'.macs
                    /\ pc' \in {"listFp", "reread", "purge"} =>
                         Mac(target'.mac) \in Range(sig_db_ignored_read'.macs)
  BY DEF Listed
<1>0. faults \in Nat /\ file \in Seq(Lines) /\ MaxMacs \in Nat
  BY LimitsAssumption DEF TypeOK
<1>k. ASSUME UNCHANGED <<file, faults>>
      PROVE  /\ \A i \in DOMAIN file' : file'[i].ended
             /\ Cardinality(Firsts(file', 12)) <= MaxMacs
             /\ sig_db_ignored_read' = sig_db_ignored_read
  BY <1>k DEF Listed, sig_db_ignored_read
<1>a. ASSUME NEW value, NEW answer, Appended(value, answer)
      PROVE  /\ faults = 0 /\ answer
             /\ file' = Append(file, [text |-> value, ended |-> TRUE])
             /\ \A i \in DOMAIN file' : file'[i].ended
  <2>1. /\ faults = 0 /\ answer /\ \A i \in DOMAIN file : file[i].ended
        /\ file' = Append(file, [text |-> value, ended |-> TRUE])
    BY <1>a, WholeLine DEF Listed
  <2> QED BY <1>0, <2>1
<1>1. CASE Worker
  <2>1. ASSUME NEW d, NEW c, NEW f, Sight(d, c, f)
        PROVE  UNCHANGED <<lists, excluding, faults>>
    BY <2>1 DEF Sight
  <2>2. UNCHANGED <<lists, excluding, faults>>
    BY <1>1, <2>1 DEF Worker, ReportFlock, ReportRemoteId
  <2> QED BY <1>k, <2>2 DEF Listed, lists, excluding
<1>2. CASE ReadIgnored
  <2>1. UNCHANGED <<file, faults>> /\ have' = sig_db_ignored_read /\ pc' = "listMac"
    BY <1>0, <1>2 DEF ReadIgnored, Fault, lists
  <2> QED BY <1>k, <2>1
<1>3. CASE ListMac
  <2>1. pc = "listMac" /\ target.mac \in Devices /\ faults = 0
    <3>1. faults = 0
      BY <1>0, <1>3, <1>a DEF ListMac
    <3> QED BY <1>3, <3>1 DEF ListMac, TypeOK, Idle
  <2>2. have.macs = sig_lines_read(file, 12, MaxMacs)
    BY <2>1 DEF Listed, sig_db_ignored_read
  <2>3. CASE Known /\ pc' = "listFp" /\ UNCHANGED <<file, faults, target>>
    BY <1>k, <2>2, <2>3 DEF Known, sig_db_ignored_read
  <2>4. CASE Returned /\ UNCHANGED <<file, faults>>
    BY <1>k, <2>4 DEF Returned
  <2>5. CASE /\ ~Known /\ ~NoRoomForMac /\ pc' = "listFp" /\ UNCHANGED <<target, have>>
             /\ \E answer \in BOOLEAN : Appended(Mac(target.mac), answer)
    <3> DEFINE m == Mac(target.mac)
               line == [text |-> m, ended |-> TRUE]
    <3>1. file' = Append(file, line) /\ (\A i \in DOMAIN file' : file'[i].ended)
      BY <1>a, <2>5
    <3>2. /\ m \in Texts /\ sig_learned_parse_line(line) = 12
      BY <2>1, TextTypes, ValueIsRead
    <3>3. /\ DOMAIN have.macs = Firsts(file, 12) /\ IsFiniteSet(Firsts(file, 12))
          /\ Range(have.macs) = {file[i].text : i \in Firsts(file, 12)}
      BY <1>0, <2>1, <2>2, AllAreRead DEF Listed
    <3>4. Firsts(file', 12) = Firsts(file, 12) \cup {Len(file) + 1}
      <4>1. m \notin {file[i].text : i \in Firsts(file, 12)}
        BY <2>5, <3>3 DEF Known
      <4> HIDE DEF m
      <4> QED BY <1>0, <3>1, <3>2, <4>1, LineAdded
    <3>5. Cardinality(Firsts(file', 12)) <= MaxMacs
      <4>1. Cardinality(Firsts(file, 12)) \in Nat /\ Cardinality(Firsts(file, 12)) < MaxMacs
        BY <1>0, <2>5, <3>3, FS_CardinalityType DEF NoRoomForMac
      <4>2. Cardinality(Firsts(file', 12))
              \in {Cardinality(Firsts(file, 12)), Cardinality(Firsts(file, 12)) + 1}
        BY <3>3, <3>4, FS_AddElement
      <4> QED BY <1>0, <4>1, <4>2
    <3>6. file' \in Seq(Lines) /\ file'[Len(file) + 1].text = m
      <4>1. line \in Lines
        BY <3>2 DEF Lines
      <4> QED BY <1>0, <3>1, <4>1
    <3>7. m \in Range(sig_lines_read(file', 12, MaxMacs))
      BY <1>0, <3>4, <3>5, <3>6, AllAreRead
    <3>8. Mac(target'.mac) \in Range(sig_db_ignored_read'.macs)
      BY <2>5, <3>7 DEF sig_db_ignored_read
    <3> QED BY <2>5, <3>1, <3>5, <3>8
  <2> QED BY <1>3, <2>3, <2>4, <2>5 DEF ListMac
<1>4. CASE ListFp
  <2>1. pc = "listFp" /\ faults = 0
    BY <1>0, <1>4, <1>a DEF ListFp
  <2>2. pc' = "idle" \/ (pc' = "reread" /\ UNCHANGED target)
    BY <1>4 DEF ListFp, Enforce, Returned
  <2>3. CASE UNCHANGED <<file, faults>>
    BY <1>k, <2>1, <2>2, <2>3 DEF Listed
  <2>4. CASE target.fp \in Fps /\ \E answer \in BOOLEAN : Appended(Fp(target.fp), answer)
    <3> DEFINE line == [text |-> Fp(target.fp), ended |-> TRUE]
    <3>1. file' = Append(file, line) /\ (\A i \in DOMAIN file' : file'[i].ended)
      BY <1>a, <2>4
    <3>2. line \in Lines /\ sig_learned_parse_line(line) = 8
      BY <2>4, TextTypes, ValueIsRead DEF Lines
    <3> HIDE DEF line
    <3>3. /\ Firsts(file', 12) = Firsts(file, 12)
          /\ \A i \in Firsts(file, 12) : file'[i] = file[i]
      <4>1. sig_learned_parse_line(line) # 12
        BY <3>2
      <4>2. /\ Firsts(Append(file, line), 12) = Firsts(file, 12)
            /\ \A i \in Firsts(file, 12) : Append(file, line)[i] = file[i]
        BY <1>0, <3>2, <4>1, LineBeside
      <4> QED BY <3>1, <4>2
    <3>4. file' \in Seq(Lines) /\ Cardinality(Firsts(file, 12)) <= MaxMacs
      BY <1>0, <2>1, <3>1, <3>2 DEF Listed
    <3>5. Range(sig_lines_read(file', 12, MaxMacs)) = Range(sig_lines_read(file, 12, MaxMacs))
      <4>1. /\ Range(sig_lines_read(file', 12, MaxMacs)) = {file'[i].text : i \in Firsts(file', 12)}
            /\ Range(sig_lines_read(file, 12, MaxMacs)) = {file[i].text : i \in Firsts(file, 12)}
        BY <1>0, <3>3, <3>4, AllAreRead
      <4> QED BY <3>3, <4>1
    <3>6. Range(sig_db_ignored_read'.macs) = Range(sig_db_ignored_read.macs)
      BY <3>5 DEF sig_db_ignored_read
    <3> QED BY <2>1, <2>2, <3>1, <3>3, <3>4, <3>6 DEF Listed
  <2> QED BY <1>4, <2>3, <2>4 DEF ListFp
<1>5. CASE Reread \/ Purge
  <2>1. UNCHANGED <<file, faults>>
    <3>1. CASE Reread
      <4>1. ~Fault("read")
        BY <1>0 DEF Fault
      <4> QED BY <3>1, <4>1, Zenon DEF Reread
    <3>2. CASE Purge
      BY <3>2 DEF Purge, lists
    <3> QED BY <1>5, <3>1, <3>2
  <2>2. pc' = "idle" \/ (pc' = "purge" /\ pc = "reread" /\ UNCHANGED target)
    BY <1>5 DEF Reread, Purge, Returned
  <2> QED BY <1>k, <2>1, <2>2 DEF Listed
<1>6. CASE ForgetIgnored
  <2>1. file' = <<>> /\ pc' = "idle"
    BY <1>0, <1>6 DEF ForgetIgnored, Fault, excluding, Idle
  <2>2. DOMAIN file' = {} /\ Firsts(file', 12) = {}
    BY <2>1 DEF Firsts
  <2>3. Cardinality(Firsts(file', 12)) = 0
    BY <2>2, FS_EmptySet
  <2> QED BY <1>0, <2>1, <2>2, <2>3
<1>7. CASE MenuIgnore
  <2>1. UNCHANGED <<file, faults>> /\ pc' = "read"
    BY <1>7 DEF MenuIgnore, lists
  <2> QED BY <1>k, <2>1
<1>8. CASE Tick \/ AlertTick \/ UNCHANGED vars \/ (Operator /\ ~ForgetIgnored /\ ~MenuIgnore)
  <2>1. UNCHANGED <<lists, excluding, faults>>
    BY <1>8 DEF Tick, AlertTick, vars, lists, excluding, Operator, SetRung, MenuOpen, MenuClose,
                MenuEdit, MenuDelete
  <2> QED BY <1>k, <2>1 DEF Listed, lists, excluding
<1> QED BY <1>1, <1>2, <1>3, <1>4, <1>5, <1>6, <1>7, <1>8 DEF Next

\* While the card refuses nothing, the address of a device that is about to be enforced
\* is in ignored.txt: a fingerprint is never listed in its place.
THEOREM AddressComesFirst == Spec => []AddressIsListed
<1>1. Init => Listed
  <2> SUFFICES ASSUME Init PROVE Listed
    OBVIOUS
  <2>1. DOMAIN file = {} /\ Firsts(file, 12) = {} /\ pc = "idle"
    BY DEF Init, Firsts
  <2>2. Cardinality(Firsts(file, 12)) = 0
    BY <2>1, FS_EmptySet
  <2> QED BY <2>1, <2>2, LimitsAssumption DEF Listed
<1>2. TypeOK /\ Listed /\ [Next]_vars => Listed'
  BY StepListed
<1>3. TypeOK /\ Listed => AddressIsListed
  BY DEF TypeOK, Listed, AddressIsListed
<1> QED BY <1>1, <1>2, <1>3, InitType, StepType, PTL DEF Spec

-----------------------------------------------------------------------------
(* No camera stays silent.  What makes it inductive: a live row that is    *)
(* marked as alerted, or stands at the level, has its device accounted     *)
(* for, so a row can only come to the level by the crossing that alerts.   *)

Accounted(d) == told[d] = 1 \/ d \in excused

Heard ==
  \A i \in Live :
    table[i].alerted \/ table[i].conf >= rung => Accounted(table[i].mac)

\* What a report records of its device.
LEMMA SightRecords ==
  ASSUME TypeOK, NEW d \in Devices, NEW c \in Confs, NEW f \in Fps \cup {NoFp},
         Sight(d, c, f)
  PROVE  LET old == OldOf(d)
             new == Merged(old, c, f)
         IN  /\ UNCHANGED rung
             /\ excused \subseteq excused'
             /\ Crosses(old, new) \/ (old.archived /\ new.conf < rung) =>
                  FiresFor(d, c, f) \/ d \in excused'
             /\ NewOf(d, c, f).conf = new.conf
<1> DEFINE old == OldOf(d)
           new == Merged(old, c, f)
<1>1. UNCHANGED rung /\ excused \subseteq excused'
  BY DEF Sight
<1>2. FiresFor(d, c, f) = (Crosses(old, new) /\ CooledDown)
  BY Zenon DEF FiresFor
<1>3. \/ excused' = excused \cup {d}
      \/ ~(Crosses(old, new) /\ ~CooledDown) /\ ~(old.archived /\ new.conf < rung)
  BY Zenon DEF Sight, OldOf, SlotOf
<1>4. NewOf(d, c, f).conf = new.conf
  <2>1. OldOf(d) \in Row
    BY SightEffect, OldRow
  <2>2. new \in Row
    BY <2>1, MergedType DEF TypeOK
  <2> QED BY <2>2 DEF NewOf, Row
<1> QED BY <1>1, <1>2, <1>3, <1>4

\* The same of the next state.
AccountedNext(d) == told'[d] = 1 \/ d \in excused'

\* A report accounts for its device and forgets no other.
LEMMA SightHeard ==
  ASSUME TypeOK, Sound, Heard, NEW d \in Devices, NEW c \in Confs,
         NEW f \in Fps \cup {NoFp}, Sight(d, c, f)
  PROVE  Heard'
<1> DEFINE k == SlotOf(d)
           r == NewOf(d, c, f)
           old == OldOf(d)
           new == Merged(old, c, f)
           fires == FiresFor(d, c, f)
<1>1. /\ k # 0 /\ r \in Row /\ r.mac = d /\ r.alerted = (old.alerted \/ fires)
      /\ told' = IF fires THEN [told EXCEPT ![d] = @ + 1] ELSE told
  BY SightEffect
<1>2. /\ DOMAIN table' = DOMAIN table \cup {k} /\ table'[k] = r
      /\ \A i \in DOMAIN table : i # k => table'[i] = table[i]
  BY SightShape
<1>3. /\ UNCHANGED rung /\ excused \subseteq excused' /\ r.conf = new.conf
      /\ Crosses(old, new) \/ (old.archived /\ new.conf < rung) => fires \/ d \in excused'
  BY SightRecords
<1>4. /\ old \in Row /\ old.mac = d
      /\ Has(table, d) => k \in DOMAIN table /\ table[k] = old
      /\ ~Has(table, d) => ~old.alerted
  BY <1>1, OldRow
<1>5. ~Has(table, d) => old.conf = 0
  BY DEF Fresh, OldOf
<1>6. \A x \in Devices : told'[x] <= 1 /\ told[x] \in Nat
  BY SightSound DEF Sound, OncePerDevice, TypeOK
<1>7. told \in [Devices -> Nat] /\ rung \in Nat \ {0} /\ new.conf \in Nat /\ old.conf \in Nat
  <2>1. told \in [Devices -> Nat] /\ rung \in Nat \ {0} /\ r.conf \in Nat /\ old.conf \in Nat
    BY <1>1, <1>4, RowFacts, ConfsAssumption DEF TypeOK
  <2> QED BY <1>3, <2>1
<1>8. fires \in BOOLEAN
  BY Zenon DEF FiresFor, Crosses
<1> HIDE DEF k, r, old, new, fires
<1>9. \A x \in Devices : Accounted(x) => AccountedNext(x)
  BY <1>1, <1>3, <1>6, <1>7, <1>8 DEF Accounted, AccountedNext
<1>10. r.alerted \/ r.conf >= rung => AccountedNext(d)
  <2>1. CASE fires
    <3>1. told'[d] = told[d] + 1
      BY <1>1, <1>7, <2>1
    <3> QED BY <1>6, <3>1 DEF Accounted, AccountedNext
  <2>2. CASE d \in excused'
    BY <2>2 DEF Accounted, AccountedNext
  <2>3. CASE ~fires /\ d \notin excused'
    <3>1. ~Crosses(old, new) /\ ~(old.archived /\ new.conf < rung)
      BY <1>3, <2>3
    <3>2. r.alerted \/ r.conf >= rung => ~old.archived /\ (old.alerted \/ old.conf >= rung)
      <4>1. /\ new.conf >= rung <=> ~(new.conf < rung)
            /\ old.conf >= rung <=> ~(old.conf < rung)
        BY <1>7
      <4>2. ~((old.archived \/ ~old.alerted) /\ new.conf >= rung
               /\ (old.archived \/ old.conf < rung))
        BY <3>1, Zenon DEF Crosses
      <4>3. r.alerted => old.alerted
        BY <1>1, <2>3, Zenon
      <4>4. r.conf >= rung => new.conf >= rung
        BY <1>3
      <4> QED BY <3>1, <4>1, <4>2, <4>3, <4>4, Zenon
    <3>3. ~old.archived /\ (old.alerted \/ old.conf >= rung) => Accounted(d)
      <4>1. old.alerted \/ old.conf >= rung => Has(table, d)
        BY <1>4, <1>5, <1>7
      <4> QED BY <1>4, <4>1 DEF Heard, Live, Rows
    <3> QED BY <1>9, <3>2, <3>3
  <2> QED BY <2>1, <2>2, <2>3
<1> SUFFICES ASSUME NEW i \in DOMAIN table', ~table'[i].archived,
                    table'[i].alerted \/ table'[i].conf >= rung
             PROVE  AccountedNext(table'[i].mac)
  BY <1>3 DEF Heard, Live, Rows, Accounted, AccountedNext
<1>11. CASE i = k
  BY <1>1, <1>2, <1>10, <1>11
<1>12. CASE i # k
  <2>1. i \in DOMAIN table /\ table'[i] = table[i]
    BY <1>2, <1>12
  <2>2. Accounted(table[i].mac)
    BY <2>1 DEF Heard, Live, Rows
  <2>3. table[i].mac \in Devices
    BY <2>1, RowFacts DEF TypeOK
  <2> QED BY <1>9, <2>1, <2>2, <2>3
<1> QED BY <1>11, <1>12

\* Rows that stay are accounted for as before, when only others are forgotten.
LEMMA StaysHeard ==
  ASSUME TypeOK, Heard, UNCHANGED rung,
         \A j \in DOMAIN table' : \E i \in DOMAIN table :
           /\ table'[j].mac = table[i].mac /\ table'[j].archived = table[i].archived
           /\ table'[j].alerted = table[i].alerted /\ table'[j].conf = table[i].conf,
         \A x \in MacsOf(table') : Accounted(x) => AccountedNext(x)
  PROVE  Heard'
<1> SUFFICES ASSUME NEW j \in DOMAIN table', ~table'[j].archived,
                    table'[j].alerted \/ table'[j].conf >= rung
             PROVE  AccountedNext(table'[j].mac)
  BY DEF Heard, Live, Rows, Accounted, AccountedNext
<1>1. PICK i \in DOMAIN table :
        /\ table'[j].mac = table[i].mac /\ table'[j].archived = table[i].archived
        /\ table'[j].alerted = table[i].alerted /\ table'[j].conf = table[i].conf
  OBVIOUS
<1>2. Accounted(table[i].mac)
  BY <1>1 DEF Heard, Live, Rows
<1> QED BY <1>1, <1>2 DEF MacsOf

\* Every step keeps devices accounted for.
LEMMA StepHeard == TypeOK /\ Sound /\ Heard /\ [Next]_vars => Heard'
<1> SUFFICES ASSUME TypeOK, Sound, Heard, [Next]_vars PROVE Heard'
  OBVIOUS
<1>0. table \in Seq(Row) /\ told \in [Devices -> Nat]
  BY DEF TypeOK
<1>1. CASE Worker
  <2>1. NoFp \in Fps \cup {NoFp} /\ TopConf \in Confs
    BY ConfsAssumption
  <2>2. ASSUME NEW d \in Devices \ Drones, NEW c \in Confs, NEW f \in Fps \cup {NoFp},
               ReportFlock(d, c, f)
        PROVE  Heard'
    BY <2>2, SightHeard DEF ReportFlock
  <2>3. ASSUME NEW d \in Drones, ReportRemoteId(d) PROVE Heard'
    BY <2>1, <2>3, SightHeard, DevicesAssumption DEF ReportRemoteId
  <2> QED BY <1>1, <2>2, <2>3 DEF Worker
<1>2. ASSUME NEW r, SetRung(r) PROVE Heard'
  BY <1>2 DEF SetRung, Heard, Live, Rows, MacsOf, Accounted, AccountedNext
<1>3. CASE MenuEdit
  <2>1. menu \in DOMAIN table /\ UNCHANGED <<rung, told, excused>>
    BY <1>3 DEF MenuEdit, history
  <2> DEFINE q == [table[menu] EXCEPT !.noted = ~@]
  <2>2. table' = [table EXCEPT ![menu] = q]
    BY <1>3 DEF MenuEdit
  <2>3. q.mac = table[menu].mac /\ q.archived = table[menu].archived
        /\ q.alerted = table[menu].alerted /\ q.conf = table[menu].conf
    BY <1>0, <2>1 DEF Row
  <2> HIDE DEF q
  <2>4. \A j \in DOMAIN table' : j \in DOMAIN table /\
          /\ table'[j].mac = table[j].mac /\ table'[j].archived = table[j].archived
          /\ table'[j].alerted = table[j].alerted /\ table'[j].conf = table[j].conf
    BY <1>0, <2>1, <2>2, <2>3
  <2>5. \A x \in MacsOf(table') : Accounted(x) => AccountedNext(x)
    BY <2>1 DEF Accounted, AccountedNext
  <2> QED BY <2>1, <2>4, <2>5, StaysHeard
<1>4. CASE MenuDelete
  <2>1. /\ menu \in DOMAIN table /\ table' = CloseGap(table, menu) /\ UNCHANGED rung
        /\ told' = [d \in Devices |-> IF d \in {table[menu].mac} THEN 0 ELSE told[d]]
        /\ excused' = excused \ {table[menu].mac}
    BY <1>4 DEF MenuDelete, Dropped
  <2>2. \A j \in DOMAIN table' : \E i \in DOMAIN table : i # menu /\ table'[j] = table[i]
    <3> SUFFICES ASSUME NEW j \in DOMAIN table'
                 PROVE  \E i \in DOMAIN table : i # menu /\ table'[j] = table[i]
      OBVIOUS
    <3>1. j \in 1 .. Len(table) - 1
      BY <2>1 DEF CloseGap
    <3>2. CASE j < menu
      <4>1. table'[j] = table[j] /\ j \in DOMAIN table /\ j # menu
        BY <1>0, <2>1, <3>1, <3>2 DEF CloseGap
      <4> QED BY <4>1
    <3>3. CASE ~(j < menu)
      <4>1. table'[j] = table[j + 1] /\ j + 1 \in DOMAIN table /\ j + 1 # menu
        BY <1>0, <2>1, <3>1, <3>3 DEF CloseGap
      <4> QED BY <4>1
    <3> QED BY <3>2, <3>3
  <2>3. \A x \in MacsOf(table') : x \in Devices /\ x # table[menu].mac
    BY <1>0, <2>1, <2>2, RowFacts DEF MacsOf, Sound, OneRowEach, Rows
  <2>4. \A x \in MacsOf(table') : Accounted(x) => AccountedNext(x)
    BY <1>0, <2>1, <2>3 DEF Accounted, AccountedNext
  <2> QED BY <2>1, <2>2, <2>4, StaysHeard
<1>5. CASE Purge
  <2> DEFINE K == {i \in DOMAIN table : ~Excluded(table[i].mac, table[i].fp)}
             gone == MacsOf(table) \ MacsOf(table')
  <2>1. /\ table' \in Compactions(table, K) /\ UNCHANGED rung
        /\ told' = [d \in Devices |-> IF d \in gone THEN 0 ELSE told[d]]
        /\ excused' = excused \ gone
    BY <1>5 DEF Purge, Dropped
  <2>2. K \in SUBSET DOMAIN table
    OBVIOUS
  <2>3. /\ MacsOf(table) \ MacsOf(table') = gone
        /\ table' \in Compactions(table, K)
    BY <2>1
  <2> HIDE DEF K, gone
  <2>4. \A j \in DOMAIN table' : \E i \in DOMAIN table : table'[j] = table[i]
    <3>1. \E e \in [DOMAIN table' -> K] :
            /\ \A a \in DOMAIN table' : table'[a] = table[e[a]]
            /\ \A a, b \in DOMAIN table' : e[a] = e[b] => a = b
            /\ K = {e[a] : a \in DOMAIN table'}
      BY <1>0, <2>2, <2>3, CompactionOrigin
    <3>2. PICK e \in [DOMAIN table' -> K] : \A a \in DOMAIN table' : table'[a] = table[e[a]]
      BY <3>1
    <3> QED BY <2>2, <3>2
  <2>5. \A x \in MacsOf(table') : x \in Devices /\ x \notin gone
    BY <1>0, <2>3, <2>4, RowFacts DEF MacsOf
  <2>6. \A x \in MacsOf(table') : Accounted(x) => AccountedNext(x)
    BY <1>0, <2>1, <2>5 DEF Accounted, AccountedNext
  <2> QED BY <2>1, <2>4, <2>6, StaysHeard
<1>6. CASE \/ Tick \/ AlertTick \/ ReadIgnored \/ ListMac \/ ListFp \/ Reread \/ UNCHANGED vars
           \/ (\E i \in 1 .. Cap : MenuOpen(i)) \/ MenuClose \/ MenuIgnore \/ ForgetIgnored
  <2>1. UNCHANGED <<table, rung, told, excused>>
    BY <1>6 DEF Tick, AlertTick, ReadIgnored, ListMac, ListFp, Meanwhile, Reread, vars, MenuOpen,
                MenuClose, MenuIgnore, ForgetIgnored, history
  <2> QED BY <2>1 DEF Heard, Live, Rows, Accounted, AccountedNext
<1> QED BY <1>1, <1>2, <1>3, <1>4, <1>5, <1>6 DEF Next, Operator

\* No camera stays silent without a reason, for every capacity, cooldown, alert
\* level and restored table, however rows are evicted, deleted and excluded.
THEOREM CamerasAreHeard == Spec => []NoSilentCamera
<1>1. Init => Heard
  <2> SUFFICES ASSUME Init PROVE Heard
    OBVIOUS
  <2>1. PICK n \in 0 .. Cap : table \in [1 .. n -> Restored]
    BY DEF Init, RestoredTables
  <2>2. \A i \in DOMAIN table : table[i].archived
    BY <2>1 DEF Restored
  <2> QED BY <2>2 DEF Heard, Live, Rows
<1>2. Heard => NoSilentCamera
  BY DEF Heard, NoSilentCamera, Accounted, AccountedNext
<1>3. TypeOK /\ Sound /\ Heard /\ [Next]_vars => Heard'
  BY StepHeard
<1> QED BY <1>1, <1>2, <1>3, TypeCorrect, AlwaysSound, PTL DEF Spec
=============================================================================
