-------------------------------- MODULE MCApp --------------------------------
(***************************************************************************)
(* The app's parts that share no state with the detection list, under one  *)
(* run.  Each has the run to itself: a behaviour is of the part it began   *)
(* with (`focus`), and the other parts stay as they started.               *)
(***************************************************************************)
EXTENDS EspPowerProps, GpsSourcesProps, DeviceRowProps, SigFiles,
        FlasherProps, ReadinessProps, SettingsProps, BleTable, SurveyCard

CONSTANT Parts   \* those of the disjuncts of AppNext this run looks at

VARIABLE focus

app_vars ==
  <<focus, vars, gps_vars, row_vars, files_vars, flasher_vars, ready_vars,
    settings_vars, ble_vars, card_vars>>

(* A part that is not looked at starts in one of its states only.          *)
Pin(part, x, S) == focus # part => x = CHOOSE y \in S : TRUE

AppInit ==
  /\ focus \in Parts
  /\ Init /\ GpsInit /\ RowInit /\ FilesInit /\ FlasherInit /\ ReadyInit
  /\ SettingsInit /\ BleInit /\ CardInit
  /\ focus # "power" => ~auto /\ rail = "off" /\ ~vbus /\ ~own
  /\ Pin("gps", gps_source, Sources)
  /\ Pin("row", dev, Macs) /\ Pin("row", gps_valid, BOOLEAN)
  /\ Pin("files", json, Jsons)
  /\ Pin("settings", plugged, Boards) /\ Pin("ble", ble_fix, BOOLEAN)
  /\ Pin("ready", unit, Units) /\ Pin("ready", backend, {"companion", "generic"})

OnPower(A) ==
  /\ focus = "power" /\ A
  /\ UNCHANGED <<focus, gps_vars, row_vars, files_vars, flasher_vars,
                 ready_vars, settings_vars, ble_vars, card_vars>>
OnGps(A) ==
  /\ focus = "gps" /\ A
  /\ UNCHANGED <<focus, vars, row_vars, files_vars, flasher_vars,
                 ready_vars, settings_vars, ble_vars, card_vars>>
OnRow(A) ==
  /\ focus = "row" /\ A
  /\ UNCHANGED <<focus, vars, gps_vars, files_vars, flasher_vars,
                 ready_vars, settings_vars, ble_vars, card_vars>>
OnFiles(A) ==
  /\ focus = "files" /\ A
  /\ UNCHANGED <<focus, vars, gps_vars, row_vars, flasher_vars,
                 ready_vars, settings_vars, ble_vars, card_vars>>
OnFlasher(A) ==
  /\ focus = "flasher" /\ A
  /\ UNCHANGED <<focus, vars, gps_vars, row_vars, files_vars, ready_vars,
                 settings_vars, ble_vars, card_vars>>
OnReady(A) ==
  /\ focus = "ready" /\ A
  /\ UNCHANGED <<focus, vars, gps_vars, row_vars, files_vars,
                 flasher_vars, settings_vars, ble_vars, card_vars>>
OnSettings(A) ==
  /\ focus = "settings" /\ A
  /\ UNCHANGED <<focus, vars, gps_vars, row_vars, files_vars,
                 flasher_vars, ready_vars, ble_vars, card_vars>>
OnBle(A) ==
  /\ focus = "ble" /\ A
  /\ UNCHANGED <<focus, vars, gps_vars, row_vars, files_vars,
                 flasher_vars, ready_vars, settings_vars, card_vars>>
OnCard(A) ==
  /\ focus = "card" /\ A
  /\ UNCHANGED <<focus, vars, gps_vars, row_vars, files_vars, flasher_vars,
                 ready_vars, settings_vars, ble_vars>>

Power == OnPower(Next)
Gps == OnGps(GpsNext)
Row == OnRow(RowNext)
Files == OnFiles(FilesNext)
Firmware == OnFlasher(FlasherNext)
Ready == OnReady(ReadyNext)
Settled == OnSettings(SettingsNext)
Ble == OnBle(BleNext)
Card == OnCard(CardNext)

AppNext ==
  Power \/ Gps \/ Row \/ Files \/ Firmware \/ Ready \/ Settled \/ Ble \/ Card

(* Each part's own fairness, about its own state: AppNext sees to the rest. *)
AppFair ==
  /\ WF_vars(focus = "power" /\ Tick) /\ SF_vars(focus = "power" /\ Period)
  /\ WF_gps_vars(focus = "gps" /\ Record) /\ WF_gps_vars(focus = "gps" /\ gps_rpc_tick)
  /\ WF_gps_vars(focus = "gps" /\ CallEnds) /\ WF_gps_vars(focus = "gps" /\ Sample)
  /\ WF_gps_vars(focus = "gps" /\ GpsSecond)
  /\ \A e \in Layers : WF_ready_vars(focus = "ready" /\ Say(e))
  /\ WF_ready_vars(focus = "ready" /\ Status) /\ WF_ready_vars(focus = "ready" /\ Second)

AppSpec == AppInit /\ [][AppNext]_app_vars /\ AppFair

(* Without the fairness, for the runs that ask about safety only.          *)
AppSafe == AppInit /\ [][AppNext]_app_vars

(* The parts keep their shape, and so do the files a survey leaves.        *)
AppTypes ==
  /\ SurveyIsKept
  /\ TypeOK /\ GpsTypeOK /\ RowTypeOK /\ FilesTypeOK /\ FlasherTypeOK
  /\ ReadyTypeOK /\ SettingsTypeOK /\ BleTypeOK

-----------------------------------------------------------------------------
MCBurst == <<"GGA", "RMC">>

(* Boards: a good one, and one of an older signature table that cannot     *)
(* test itself.                                                            *)
Says3(p, s, t) == [proto |-> p, sig |-> s, test |-> t]
MCUnits == {Says3("good", "good", "good"), Says3("good", "bad", "none")}

(* signatures.json: none, broken, and one with an empty array first, a bad *)
(* entry, a key of its own and the same key again.                         *)
Entry(v) == [ok |-> TRUE, value |-> v]
BadEntry == [ok |-> FALSE, value |-> <<>>]
MCJsons ==
  {[root |-> "absent", keys |-> <<>>], [root |-> "broken", keys |-> <<>>],
   [root |-> "object",
    keys |-> <<<<"ie_fps", <<BadEntry>>>>, <<"ie_fps", <<BadEntry, Entry(Fp("f1"))>>>>,
               <<"note", <<>>>>, <<"ie_fps", <<Entry(Fp("g"))>>>>,
               <<"ouis", <<Entry(<<<<"o", 6>>>>)>>>>>>]}

(* A device: a camera of Flock's prefix, a pinned one of none, an aircraft. *)
(* The detection lines are those the companion's own ladder prints of the   *)
(* frames in the air, and those of a build before it had them.              *)
MCPrefix == [a |-> "flock", p |-> "none", d |-> "drone"]
MCExtras ==
  [ouis |-> {}, macs |-> {"p"}, fps |-> {"taught", "generic"}, confirmed |-> {}, likely |-> {}]

Frames == INSTANCE FrameRules WITH Tracked <- {"a"}, Exclusive <- {"d"}, Sustained <- 2

El(t, c) == [tag |-> t, content |-> c, cut |-> FALSE]
Unit == <<El("vendor", "mbo"), El("ht", ""), El("vht", ""), El("vendor", "wmm")>>
Fr(k, t, r, n, fp, s, c, b) ==
  [kind |-> k, ta |-> t, ra |-> r, name |-> n, fp |-> fp, seq |-> 0, rssi |-> s, ch |-> c,
   body |-> b]
Air ==
  {Fr("beacon", "a", "x", "unit", NoFp, -60, 1, <<>>),
   Fr("beacon", "p", "x", "likely", NoFp, -60, 1, <<>>),
   Fr("beacon", "d", "x", "empty", NoFp, -90, 6, <<>>),
   Fr("response", "p", "a", "unit", NoFp, -90, 6, <<>>),
   Fr("probe", "p", "x", "unit", "generic", -60, 11, <<>>),
   Fr("probe", "a", "x", "empty", "candidate", -90, 6, <<>>),
   Fr("probe", "p", "x", "empty", "other", -90, 6, Unit)}

Letter == [beacon |-> "B", response |-> "R", probe |-> "P"]
SsidOf(n) == IF n = "unit" THEN "unit" ELSE IF n = "likely" THEN "guest" ELSE ""

(* The first n fields of the line for a frame.                             *)
Printed(f, n) ==
  LET l == Frames!Line(f, 1)
  IN  [mac |-> l.mac, rssi |-> f.rssi, ch |-> f.ch, type |-> Letter[f.kind], conf |-> l.conf,
       ssid |-> SsidOf(l.name), fp |-> f.fp, sg |-> l.sig,
       cls |-> IF l.cls = "gear" THEN "g" ELSE "", hid |-> l.hid, pr |-> 1, fields |-> n]

(* An old build gave 3 for any of our names, in any frame, to its sender   *)
(* or its receiver.                                                        *)
Unguarded(f, n, m) ==
  [Printed(f, n) EXCEPT !.mac = m, !.ssid = SsidOf(f.name), !.conf = 3]

Reportable == {f \in Air : Frames!Candidate(f, 1) /\ Frames!Reported(f) \in Macs}
Named == {f \in Air : f.ta = "p" /\ SsidOf(f.name) # ""}

MCDetections ==
  LET new == {[line |-> Printed(f, n), own |-> f.kind # "probe" /\ Frames!Reported(f) = f.ta,
               guarded |-> TRUE] : f \in Reportable, n \in {6, 12}}
      old == UNION {{[line |-> Unguarded(f, n, m), own |-> f.kind # "probe" /\ m = f.ta,
                      guarded |-> FALSE] :
                       n \in {12} \cup {k \in {6} : f.kind = "beacon"},
                       m \in {f.ta, f.ra} \cap Macs} : f \in Named}
  IN  {d : d \in new \cup old}

Advert(m, c, co, n, rv, k) ==
  [line |-> [mac |-> m, rssi |-> -60, cat |-> c, company |-> co, name |-> n, rv |-> rv,
             fields |-> k]]
MCAdverts ==
  {Advert("a", "flock", "flock", "stock", FALSE, 9), Advert("a", "flock", "none", "stock", TRUE, 6),
   Advert("p", "flock", "none", "product", TRUE, 9),
   Advert("p", "unknown", "none", "product", TRUE, 5),
   Advert("a", "flock", "none", "guest", FALSE, 9)}

MCScraps ==
  {[macs |-> {"p"}, ssid |-> "unit", labelled |-> TRUE],
   [macs |-> {"a", "p"}, ssid |-> "guest", labelled |-> TRUE]}
MCSurveyed ==
  {[mac |-> "p", fp |-> "taught", rssi |-> -90, ch |-> 11],
   [mac |-> "a", fp |-> "generic", rssi |-> -90, ch |-> 11]}

Id(i) == [type |-> "basic", id |-> i, ua |-> "rotor"]
At(t, p) == [type |-> t, at |-> p]
Said(p, ms) == [packed |-> p, msgs |-> ms, claims |-> Len(ms)]
MCBroadcasts ==
  {[mac |-> "d", rssi |-> -60, air |-> a, says |-> m] :
     a \in {"ble", "wifi"},
     m \in {Said(FALSE, <<Id("serial")>>), Said(FALSE, <<At("location", "zero")>>),
            Said(FALSE, <<At("system", "p")>>), Said(TRUE, <<Id(""), At("location", "p")>>),
            Said(TRUE, <<Id("serial"), At("location", "p"), At("system", "p")>>)}}

(* Chips: a classic one and a C5, with the pins that matter here.          *)
Chip(n, u, f, v) == [count |-> n, uart |-> u, flash |-> f, valid |-> v]
MCBoards ==
  {Chip(40, {1, 3}, 6..11, {1, 4, 6, 16, 17}), Chip(29, {11, 12}, 16..22, {3, 11, 16, 23})}

Ad(c, co, n, r) == [cat |-> c, company |-> co, name |-> n, raven |-> r]
MCSays ==
  {Ad("flock", "flock", "product", TRUE), Ad("unknown", "none", "flipper", FALSE)}

(* Two rows of one shape, one of its own and one that every phone shares.   *)
Row4(m, f, s, n) == [mac |-> m, fp |-> f, rssi |-> s, count |-> n]
MCSurveyRows ==
  {Row4("r1", 7, -80, 4), Row4("r1", 7, -80, 10), Row4("r2", 8, -60, 2), Row4("g", 9, -30, 100)}

MCWeakest == -128   \* INT8_MIN
=============================================================================
