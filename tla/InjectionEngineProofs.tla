------------------------ MODULE InjectionEngineProofs ------------------------
(***************************************************************************)
(* What the engine commits is what it acknowledged, and what it sent is    *)
(* gone from its records: for any layouts, commands, values, map           *)
(* generations and any number of losses, reports and protocol changes,     *)
(* until one of these falls under a report with a command for the endpoint;*)
(* and the walk seeds every layout, but one if it is disturbed in a fill.  *)
(***************************************************************************)
EXTENDS InjectionEngine, TLAPS, WellFoundedInduction

Kinds == {"RELATIVE", "BUTTON", "SET", "CLEAR"}
Parts == {"MOTION", "BUTTONS"}
Staged ==
  [kind : Kinds, layout : Layouts, value : Int, hold : Nat, clear : SUBSET Parts, era : Nat]
Commands == Staged \cup {NoCommand}
Records ==
  [map : Nat, motion : Int, buttons : Int, click : BOOLEAN, due : Nat, restore : Int]
Reports ==
  [layout : Layouts \cup {0}, physical : -Clamp..Clamp, boot : BOOLEAN, mapped : BOOLEAN,
   stationary : BOOLEAN, suppressed : BOOLEAN, started : BOOLEAN, invalidated : BOOLEAN,
   map : Nat, era : Nat, command : Commands, overflow : BOOLEAN, injected : Int,
   new : Records]

\* The states in which a transaction may hold a map.
Transacting == {"PREPARE", "MUTATE", "OUTPUT", "ABORT_MUTATION"}
States == Transacting \cup {"CAPTURE", "CAPTURE_REST", "QUERY", "SEED_FILL", "CACHE_COPY"}

Typed ==
  /\ up \in BOOLEAN /\ active \in Generations \cup {0} /\ spent \subseteq Generations
  /\ era \in Nat /\ accepted \in Nat
  /\ staged \in Commands /\ state \in States /\ report \in Reports
  /\ record \in [Layouts -> Records]
  /\ state_valid \subseteq Layouts /\ motion_live \subseteq Layouts
  /\ buttons_live \subseteq Layouts
  /\ seed_index \in Nat /\ seed_index >= 1 /\ seed_pending \in BOOLEAN
  /\ owed \in [Layouts -> Int] /\ asked \in [Layouts -> Int]

\* The map in force was activated since the last loss, and the link is up.
MapInForce == active_valid => up /\ active \in spent

\* A record that counts is of such a map, or says nothing.
Blank(r) == r.motion = 0 /\ r.buttons = 0 /\ ~r.click
RecordsOfSpentMaps ==
  \A l \in state_valid : record[l].map \in spent \/ Blank(record[l])

\* What the FSM's state says of the transaction in hand.
InPhase ==
  /\ report.mapped => state \in Transacting
  /\ state \in {"PREPARE", "MUTATE"} => report.mapped /\ ~report.invalidated
  /\ state \notin {"CAPTURE", "CACHE_COPY"} => report.layout \in Layouts
  /\ ~report.mapped => /\ report.injected = 0 /\ report.command = NoCommand
                       /\ ~report.invalidated
  /\ state = "PREPARE" => report.command = NoCommand /\ report.injected = 0

\* The transaction may still commit.
Held == report.mapped /\ snapshot_matches /\ ~report.invalidated

\* It may as long as its activation is the last: its generation is not enough
\* once it has come round again.
EraOfMap ==
  /\ report.era <= era
  /\ report.mapped /\ active_valid => (Held <=> report.era = era)

\* The walk's records behind its index are the active map's, but for the layout it
\* misses; a template that is being filled is that of its index, or of the map before.
Filling == report.layout = seed_index /\ report.map = active
SeedWalk ==
  active_valid =>
    /\ seed_pending => \A l \in Layouts : l < seed_index => Current(l) \/ Missed(l)
    /\ ~seed_pending => \A l \in Layouts : Current(l) \/ Missed(l)
    /\ state = "SEED_FILL" =>
         seed_pending /\ (Filling \/ ("fill" \in race /\ seed_index = 1))

\* No endpoint has changed protocol under a report with a command for it.
Foreseen == "protocol" \notin race

\* Nothing is owed on the layout whose template is being filled.
FillUnowed ==
  Foreseen /\ active_valid /\ state = "SEED_FILL" =>
    owed[report.layout] = 0 /\ asked[report.layout] = 0

\* The command the transaction read is the one the plane still offers.
CommandStays ==
  Foreseen /\ Held /\ report.command # NoCommand =>
    /\ staged = report.command /\ fresh
    /\ staged.kind # "CLEAR" => staged.layout = report.layout

\* What will be owed, and held for good, once the command is acknowledged.
Clears(c, part) == c.kind = "CLEAR" /\ part \in c.clear
Owing(l, c) ==
  IF Clears(c, "MOTION") THEN 0
  ELSE IF c.kind = "RELATIVE" /\ InRange(owed[l] + c.value) THEN owed[l] + c.value
  ELSE owed[l]
Asking(l, c) ==
  IF Clears(c, "BUTTONS") THEN 0
  ELSE IF c.kind = "BUTTON" /\ (c.hold = 0 \/ c.value = 0) THEN c.value
  ELSE asked[l]
AfterClick(r) == IF r.click THEN r.restore ELSE r.buttons

\* The transaction's record and its report together are that.
Planned ==
  Held /\ state \in {"MUTATE", "OUTPUT"} =>
    LET l == report.layout
        c == report.command IN
    /\ report.new.map = active
    /\ Foreseen => /\ report.new.motion + report.injected = Owing(l, c)
                   /\ InRange(report.new.motion)
                   /\ Clears(c, "MOTION") => report.injected = 0
                   /\ AfterClick(report.new) = Asking(l, c)
                   /\ state = "MUTATE" => report.injected = 0

\* RecordsAsPromised, without the record of what was captured.
MotionOf(l) == IF Current(l) /\ l \in motion_live THEN record[l].motion ELSE 0
ButtonsOf(l) == IF Current(l) /\ l \in buttons_live THEN AfterClick(record[l]) ELSE 0
Promises ==
  Foreseen /\ active_valid => \A l \in Layouts :
    MotionOf(l) = owed[l] /\ InRange(owed[l]) /\ ButtonsOf(l) = asked[l]

IInv ==
  /\ Typed /\ MapInForce /\ RecordsOfSpentMaps /\ InPhase /\ EraOfMap
  /\ SeedWalk /\ FillUnowed /\ CommandStays /\ Planned /\ Promises

-----------------------------------------------------------------------------
\* Shapes of the values the steps write.

\* The constants, one by one.
LEMMA ConstantsTyped ==
    /\ LayoutCount \in Nat \ {0} /\ Clamp \in Nat \ {0} /\ MaxResidual \in Nat
    /\ BootEndpoints \subseteq Layouts /\ Generations \subseteq Nat \ {0}
BY EngineAssumption

\* A command is none, or has its fields.
LEMMA CommandCases ==
    ASSUME NEW c \in Commands
    PROVE  /\ c = NoCommand => c.kind = "NONE"
           /\ c # NoCommand => /\ c \in Staged /\ c.kind \in Kinds /\ c.layout \in Layouts
                               /\ c.value \in Int /\ c.hold \in Nat
                               /\ c.clear \subseteq Parts /\ c.era \in Nat
BY DEF Commands, Staged, NoCommand

\* An empty record, and one of a map.
LEMMA BlankTyped ==
    /\ NoRecord \in Records /\ Blank(NoRecord) /\ NoRecord.map = 0
    /\ \A g \in Nat : /\ [NoRecord EXCEPT !.map = g] \in Records
                      /\ [NoRecord EXCEPT !.map = g].map = g
                      /\ Blank([NoRecord EXCEPT !.map = g])
                      /\ ~[NoRecord EXCEPT !.map = g].click
                      /\ [NoRecord EXCEPT !.map = g].due = 0
                      /\ [NoRecord EXCEPT !.map = g].restore = 0
<1>1. NoRecord \in Records BY DEF NoRecord, Records
<1> QED BY <1>1 DEF NoRecord, Records, Blank

\* No transaction: no map, no command, nothing sent.
LEMMA NoReportTyped ==
    /\ NoReport \in Reports
    /\ NoReport.layout = 0 /\ NoReport.physical = 0
    /\ ~NoReport.mapped /\ ~NoReport.invalidated /\ NoReport.era = 0 /\ NoReport.map = 0
    /\ NoReport.command = NoCommand /\ NoReport.injected = 0
<1>1. NoRecord \in Records BY BlankTyped
<1>2. 0 \in -Clamp..Clamp BY ConstantsTyped
<1>3. NoCommand \in Commands BY DEF Commands
<1>4. 0 \in Layouts \cup {0} /\ 0 \in Nat /\ 0 \in Int /\ FALSE \in BOOLEAN OBVIOUS
<1>5. NoReport \in Reports BY <1>1, <1>2, <1>3, <1>4, Zenon DEF NoReport, Reports
<1> QED BY <1>5 DEF NoReport

\* What a layout's record says once its live bits are taken into account.
LEMMA CapturedFields ==
    ASSUME Typed, NEW l \in Layouts
    PROVE  /\ Captured(l) \in Records
           /\ active_valid => Captured(l).map = active
           /\ Captured(l).motion = MotionOf(l)
           /\ AfterClick(Captured(l)) = ButtonsOf(l)
<1> DEFINE r == record[l]
           motion == IF l \in motion_live THEN r.motion ELSE 0
           buttons == IF l \in buttons_live THEN r.buttons ELSE 0
           click == l \in buttons_live /\ r.click
           due == IF l \in buttons_live THEN r.due ELSE 0
           restore == IF l \in buttons_live THEN r.restore ELSE 0
<1>1. r \in Records /\ active \in Nat BY ConstantsTyped DEF Typed
<1>2. /\ r.map \in Nat /\ r.motion \in Int /\ r.buttons \in Int /\ r.click \in BOOLEAN
      /\ r.due \in Nat /\ r.restore \in Int
  BY <1>1 DEF Records
<1>3. CASE ~Current(l)
  <2>1. Captured(l) = [NoRecord EXCEPT !.map = active] BY <1>3, Zenon DEF Captured
  <2>2. MotionOf(l) = 0 /\ ButtonsOf(l) = 0 BY <1>3 DEF MotionOf, ButtonsOf
  <2> QED BY <2>1, <2>2, <1>1, BlankTyped DEF Blank, AfterClick
<1>4. CASE Current(l)
  <2>1. /\ motion \in Int /\ buttons \in Int /\ click \in BOOLEAN /\ due \in Nat
        /\ restore \in Int
    BY <1>2
  <2>2. Captured(l) = [map |-> r.map, motion |-> motion, buttons |-> buttons,
                       click |-> click, due |-> due, restore |-> restore]
    BY <1>4, Zenon DEF Captured
  <2>3. motion = MotionOf(l) BY <1>4 DEF MotionOf
  <2>4. (IF click THEN restore ELSE buttons) = ButtonsOf(l)
    BY <1>4 DEF ButtonsOf, AfterClick
  <2>5. r.map = active BY <1>4 DEF Current
  <2>6. r.map \in Nat BY <1>2
  <2> HIDE DEF r, motion, buttons, click, due, restore
  <2>a. [map |-> r.map, motion |-> motion, buttons |-> buttons,
         click |-> click, due |-> due, restore |-> restore] \in Records
    BY <2>1, <2>6, Zenon DEF Records
  <2>7. Captured(l) \in Records BY <2>a, <2>2, Zenon
  <2>8. /\ Captured(l).map = r.map /\ Captured(l).motion = motion
        /\ Captured(l).buttons = buttons /\ Captured(l).restore = restore
        /\ Captured(l).click = click
    BY <2>2
  <2> QED BY <2>3, <2>4, <2>5, <2>7, <2>8 DEF AfterClick
<1> QED BY <1>3, <1>4

\* The record a transaction will write, before its motion goes out.
LEMMA PreparedFields ==
    ASSUME Typed, NEW c \in Commands, NEW r \in Records, NEW overflow \in BOOLEAN,
           NEW p, p = Prepared(c, r, overflow)
    PROVE  /\ p \in Records /\ p.map = r.map
           /\ p.motion = IF Clears(c, "MOTION") THEN 0
                         ELSE IF c.kind = "RELATIVE" /\ ~overflow THEN r.motion + c.value
                         ELSE r.motion
           /\ AfterClick(p) =
                IF Clears(c, "BUTTONS") THEN 0
                ELSE IF c.kind = "BUTTON" /\ (c.hold = 0 \/ c.value = 0) THEN c.value
                ELSE AfterClick(r)
<1> DEFINE cleared == IF c.kind = "CLEAR" THEN c.clear ELSE {}
           button == c.kind = "BUTTON"
           released == r.click /\ accepted >= r.due
           motion == IF "MOTION" \in cleared THEN 0
                     ELSE IF c.kind = "RELATIVE" /\ ~overflow THEN r.motion + c.value
                     ELSE r.motion
           buttons == IF button THEN c.value
                      ELSE IF "BUTTONS" \in cleared THEN 0
                      ELSE IF released THEN r.restore ELSE r.buttons
           click == IF button THEN c.hold # 0 /\ c.value # 0
                    ELSE r.click /\ ~released /\ "BUTTONS" \notin cleared
           due == IF button THEN accepted + c.hold ELSE r.due
           restore == IF button /\ ~r.click THEN r.buttons ELSE r.restore
           map == r.map
<1>1. /\ r.map \in Nat /\ r.motion \in Int /\ r.buttons \in Int /\ r.click \in BOOLEAN
      /\ r.due \in Nat /\ r.restore \in Int /\ accepted \in Nat
  BY DEF Records, Typed
<1>0. c.kind \in {"RELATIVE", "BUTTON"} => c.value \in Int /\ c.hold \in Nat
  BY CommandCases
<1>2. /\ motion \in Int /\ buttons \in Int /\ click \in BOOLEAN /\ restore \in Int
      /\ map \in Nat
  <2>1. motion \in Int BY <1>0, <1>1
  <2>2. buttons \in Int BY <1>0, <1>1
  <2>3. click \in BOOLEAN BY Zenon, <1>1
  <2>4. restore \in Int /\ map \in Nat BY <1>1
  <2> HIDE DEF motion, buttons, click, restore, map
  <2> QED BY <2>1, <2>2, <2>3, <2>4
<1>3. due \in Nat BY <1>0, <1>1
<1>4. Prepared(c, r, overflow) =
        [map |-> map, motion |-> motion, buttons |-> buttons, click |-> click, due |-> due,
         restore |-> restore]
  BY Zenon DEF Prepared
<1>5. motion = IF Clears(c, "MOTION") THEN 0
               ELSE IF c.kind = "RELATIVE" /\ ~overflow THEN r.motion + c.value
               ELSE r.motion
  BY DEF Clears
<1>6. (IF click THEN restore ELSE buttons) =
        IF Clears(c, "BUTTONS") THEN 0
        ELSE IF c.kind = "BUTTON" /\ (c.hold = 0 \/ c.value = 0) THEN c.value
        ELSE AfterClick(r)
  BY <1>1, CommandCases DEF Clears, AfterClick
<1> HIDE DEF cleared, button, released, motion, buttons, click, due, restore, map
<1>a. [map |-> map, motion |-> motion, buttons |-> buttons, click |-> click, due |-> due,
       restore |-> restore] \in Records
  BY <1>2, <1>3, Zenon DEF Records
<1>7. Prepared(c, r, overflow) \in Records BY <1>a, <1>4, Zenon
<1>8. /\ Prepared(c, r, overflow).map = map /\ Prepared(c, r, overflow).motion = motion
      /\ Prepared(c, r, overflow).buttons = buttons
      /\ Prepared(c, r, overflow).restore = restore
      /\ Prepared(c, r, overflow).click = click
  BY <1>4
<1>9. map = r.map BY DEF map
<1> QED BY <1>5, <1>6, <1>7, <1>8, <1>9 DEF AfterClick

-----------------------------------------------------------------------------
\* What a step that leaves the records and the map alone keeps.

\* The records and what is owed, under the same map.
LEMMA RecordsKept ==
    ASSUME MapInForce, RecordsOfSpentMaps, Promises,
           UNCHANGED <<outside, records, owed, asked>>
    PROVE  /\ MapInForce' /\ RecordsOfSpentMaps' /\ Promises'
           /\ \A l : Current(l)' <=> Current(l)
<1>1. /\ UNCHANGED <<up, active, spent, boot, era, race, record, state_valid, motion_live>>
      /\ UNCHANGED <<buttons_live, owed, asked>>
  BY DEF outside, records
<1>2. \A l : Current(l)' <=> Current(l) BY <1>1 DEF Current, active_valid
<1>3. MapInForce' BY <1>1 DEF MapInForce, active_valid
<1>4. RecordsOfSpentMaps' BY <1>1 DEF RecordsOfSpentMaps, Blank
<1>5. Promises'
  BY <1>1 DEF Promises, Foreseen, MotionOf, ButtonsOf, Current, active_valid, AfterClick
<1> QED BY <1>2, <1>3, <1>4, <1>5

\* The walk, under the same map.
LEMMA WalkKept ==
    ASSUME SeedWalk, UNCHANGED <<outside, records, seeding>>, state' # "SEED_FILL"
    PROVE  SeedWalk' /\ FillUnowed'
BY DEF SeedWalk, FillUnowed, outside, records, seeding, Current, Missed, active_valid

\* A step of the FSM that touches no map, record, command or promise: only the
\* transaction's own parts remain to be shown.
OwnStep ==
    UNCHANGED <<outside, staged, records, seed_index, seed_pending, accepted, owed, asked>>

\* Such a step keeps all but those parts.
LEMMA OwnStepKeeps ==
    ASSUME IInv, OwnStep, state' \in States, report' \in Reports
    PROVE  /\ Typed' /\ MapInForce' /\ RecordsOfSpentMaps' /\ Promises'
           /\ \A l : Current(l)' <=> Current(l)
           /\ fresh' <=> fresh
           /\ state' # "SEED_FILL" => SeedWalk' /\ FillUnowed'
<1>1. /\ UNCHANGED <<up, active, spent, boot, era, race, record, state_valid, motion_live>>
      /\ UNCHANGED <<buttons_live, staged, seed_index, seed_pending, accepted, owed, asked>>
      /\ UNCHANGED <<outside, records, seeding>>
  BY DEF OwnStep, outside, records, seeding
<1>2. Typed' BY <1>1 DEF IInv, Typed
<1>3. fresh' <=> fresh BY <1>1 DEF fresh
<1> QED BY <1>1, <1>2, <1>3, RecordsKept, WalkKept DEF IInv

\* A transaction without a map.
LEMMA Unmapped ==
    ASSUME IInv, OwnStep, state' \in States \ {"PREPARE", "MUTATE", "SEED_FILL"},
           report' \in Reports, ~report'.mapped, report'.era \in {0, report.era},
           report'.injected = 0, report'.command = NoCommand, ~report'.invalidated,
           state' \notin {"CAPTURE", "CACHE_COPY"} => report'.layout \in Layouts
    PROVE  IInv'
<1>1. era' = era /\ era \in Nat BY DEF OwnStep, outside, IInv, Typed
<1>2. InPhase' BY DEF InPhase
<1>3. EraOfMap' BY <1>1 DEF EraOfMap, IInv
<1>4. CommandStays' /\ Planned' BY DEF CommandStays, Planned, Held
<1> QED BY <1>2, <1>3, <1>4, OwnStepKeeps DEF IInv

-----------------------------------------------------------------------------
\* The plane, the map store and the device.

\* In the beginning there is no map.
LEMMA InitStep == Init => IInv
<1> SUFFICES ASSUME Init PROVE IInv OBVIOUS
<1>1. record \in [Layouts -> Records] BY BlankTyped DEF Init
<1>2. Typed
  <2>1. owed \in [Layouts -> Int] /\ asked \in [Layouts -> Int] BY DEF Init
  <2>2. state \in States /\ report \in Reports BY NoReportTyped DEF Init, States
  <2>3. staged \in Commands BY DEF Init, Commands
  <2>4. /\ up \in BOOLEAN /\ active \in Generations \cup {0} /\ spent \subseteq Generations
        /\ era \in Nat /\ accepted \in Nat
        /\ state_valid \subseteq Layouts /\ motion_live \subseteq Layouts
        /\ buttons_live \subseteq Layouts
    BY DEF Init
  <2>5. seed_index = 1 /\ seed_pending \in BOOLEAN BY DEF Init
  <2>6. seed_index \in Nat /\ seed_index >= 1 BY <2>5
  <2> QED BY <1>1, <2>1, <2>2, <2>3, <2>4, <2>5, <2>6 DEF Typed
<1>3. /\ MapInForce /\ RecordsOfSpentMaps /\ SeedWalk /\ FillUnowed /\ Promises
  BY DEF Init, MapInForce, RecordsOfSpentMaps, SeedWalk, FillUnowed, Promises, active_valid
<1>4. InPhase BY NoReportTyped, ConstantsTyped DEF Init, InPhase
<1>5. EraOfMap BY NoReportTyped DEF Init, EraOfMap
<1>6. CommandStays /\ Planned BY NoReportTyped DEF Init, CommandStays, Planned, Held
<1> QED BY <1>2, <1>3, <1>4, <1>5, <1>6 DEF IInv

\* A command arrives: the transaction in hand has read none.
LEMMA StageCommandStep ==
    ASSUME IInv, StageCommand
    PROVE  IInv'
<1>1. /\ UNCHANGED <<up, active, spent, boot, era, race, state, report, record, state_valid>>
      /\ UNCHANGED <<motion_live, buttons_live, seed_index, seed_pending, accepted, owed, asked>>
      /\ UNCHANGED <<outside, records, seeding>>
      /\ staged = NoCommand
  BY DEF StageCommand, outside, records, seeding
<1>2. PICK c \in CommandSet :
        staged' = [kind |-> c.kind, layout |-> c.layout, value |-> c.value, hold |-> c.hold,
                   clear |-> c.clear, era |-> era]
  BY DEF StageCommand
<1>3. /\ c.kind \in Kinds /\ c.layout \in Layouts /\ c.value \in Int /\ c.hold \in Nat
      /\ c.clear \in SUBSET Parts
  BY EngineAssumption DEF Kinds, Parts
<1>4. era \in Nat BY DEF IInv, Typed
<1>5. [kind |-> c.kind, layout |-> c.layout, value |-> c.value, hold |-> c.hold,
       clear |-> c.clear, era |-> era] \in Staged
  BY <1>3, <1>4, Zenon DEF Staged
<1>6. staged' \in Commands BY <1>2, <1>5, Zenon DEF Commands
<1>7. Typed' BY <1>1, <1>6 DEF IInv, Typed
<1>8. MapInForce' /\ RecordsOfSpentMaps' /\ Promises' BY <1>1, RecordsKept DEF IInv
<1>9. InPhase' /\ EraOfMap'
  BY <1>1 DEF IInv, InPhase, EraOfMap, Held, active_valid, snapshot_matches
<1>10. SeedWalk' /\ FillUnowed'
  BY <1>1 DEF IInv, SeedWalk, Filling, FillUnowed, Foreseen, Missed, active_valid, Current
<1>11. CommandStays'
  BY <1>1 DEF IInv, CommandStays, Foreseen, Held, fresh, active_valid, snapshot_matches
<1>12. Planned'
  BY <1>1 DEF IInv, Planned, Foreseen, Held, active_valid, snapshot_matches, Owing, Asking,
              Clears, AfterClick, InRange
<1> QED BY <1>7, <1>8, <1>9, <1>10, <1>11, <1>12 DEF IInv

\* A stale command goes: it is none that a transaction may still commit.
LEMMA DropStaleStep ==
    ASSUME IInv, DropStale
    PROVE  IInv'
<1>1. /\ UNCHANGED <<up, active, spent, boot, era, race, state, report, record, state_valid>>
      /\ UNCHANGED <<motion_live, buttons_live, seed_index, seed_pending, accepted, owed, asked>>
      /\ UNCHANGED <<outside, records, seeding>>
      /\ ~fresh /\ staged' = NoCommand
  BY DEF DropStale, outside, records, seeding
<1>2. Typed' BY <1>1 DEF IInv, Typed, Commands
<1>3. MapInForce' /\ RecordsOfSpentMaps' /\ Promises' BY <1>1, RecordsKept DEF IInv
<1>4. InPhase' /\ EraOfMap'
  BY <1>1 DEF IInv, InPhase, EraOfMap, Held, active_valid, snapshot_matches
<1>5. SeedWalk' /\ FillUnowed'
  BY <1>1 DEF IInv, SeedWalk, Filling, FillUnowed, Foreseen, Missed, active_valid, Current
<1>6. CommandStays'
  BY <1>1 DEF IInv, CommandStays, Foreseen, Held, active_valid, snapshot_matches
<1>7. Planned'
  BY <1>1 DEF IInv, Planned, Foreseen, Held, active_valid, snapshot_matches, Owing, Asking,
              Clears, AfterClick, InRange
<1> QED BY <1>2, <1>3, <1>4, <1>5, <1>6, <1>7 DEF IInv

\* A loss: no map is in force, no record counts, nothing can commit.
LEMMA InvalidateStep ==
    ASSUME IInv, Invalidate
    PROVE  IInv'
<1>1. /\ UNCHANGED <<boot, era, state, report, record, seed_index, accepted, owed, asked>>
      /\ up' = FALSE /\ active' = 0 /\ spent' = {} /\ staged' = NoCommand
      /\ state_valid' = {} /\ motion_live' = {} /\ buttons_live' = {} /\ seed_pending' = FALSE
  BY DEF Invalidate, Forgotten, promises
<1>2. Typed' BY <1>1 DEF IInv, Typed, Commands
<1>3. MapInForce' /\ RecordsOfSpentMaps' /\ Promises' /\ SeedWalk' /\ FillUnowed'
  BY <1>1 DEF MapInForce, RecordsOfSpentMaps, Promises, SeedWalk, FillUnowed, active_valid
<1>4. InPhase' BY <1>1 DEF IInv, InPhase
<1>5. EraOfMap' BY <1>1 DEF IInv, EraOfMap, active_valid
<1>6. CommandStays' /\ Planned'
  BY <1>1 DEF CommandStays, Planned, Held, active_valid, snapshot_matches
<1> QED BY <1>2, <1>3, <1>4, <1>5, <1>6 DEF IInv

\* The link comes back; the map does not.
LEMMA RestoreStep ==
    ASSUME IInv, Restore
    PROVE  IInv'
<1>1. /\ UNCHANGED <<active, spent, boot, era, race, staged, state, report, record>>
      /\ UNCHANGED <<state_valid, motion_live, buttons_live, seed_index, seed_pending>>
      /\ UNCHANGED <<accepted, owed, asked>>
      /\ up' = TRUE
  BY DEF Restore, records, seeding, promises
<1>2. Typed' BY <1>1 DEF IInv, Typed
<1>3. MapInForce' /\ RecordsOfSpentMaps'
  BY <1>1 DEF IInv, MapInForce, RecordsOfSpentMaps, active_valid, Blank
<1>4. Promises'
  BY <1>1 DEF IInv, Promises, Foreseen, MotionOf, ButtonsOf, Current, active_valid, AfterClick
<1>5. InPhase' /\ EraOfMap'
  BY <1>1 DEF IInv, InPhase, EraOfMap, Held, active_valid, snapshot_matches
<1>6. SeedWalk' /\ FillUnowed'
  BY <1>1 DEF IInv, SeedWalk, Filling, FillUnowed, Foreseen, Missed, active_valid, Current
<1>7. CommandStays'
  BY <1>1 DEF IInv, CommandStays, Foreseen, Held, fresh, active_valid, snapshot_matches
<1>8. Planned'
  BY <1>1 DEF IInv, Planned, Foreseen, Held, active_valid, snapshot_matches, Owing, Asking,
              Clears, AfterClick, InRange
<1> QED BY <1>2, <1>3, <1>4, <1>5, <1>6, <1>7, <1>8 DEF IInv

\* A new map: none of the records is of it, and the transaction in hand, if it
\* has a map, has another.
LEMMA ActivateStep ==
    ASSUME IInv, Activate
    PROVE  IInv'
<1>1. /\ UNCHANGED <<up, boot, staged, state, report, record, state_valid>>
      /\ UNCHANGED <<motion_live, buttons_live, accepted>>
      /\ up /\ era' = era + 1 /\ spent' = spent \cup {active'}
      /\ active' \in Generations \ spent
      /\ owed' = [l \in Layouts |-> 0] /\ asked' = [l \in Layouts |-> 0]
      /\ seed_pending' = TRUE /\ seed_index' = 1
      /\ race' = IF state = "SEED_FILL" THEN {"fill"} ELSE {}
      /\ state # "SEED_FILL" => LossSeen
  BY DEF Activate, records
<1>2. Typed' BY <1>1 DEF IInv, Typed
<1>3. active' # 0 BY <1>1, ConstantsTyped
<1>4. MapInForce' BY <1>1 DEF MapInForce
<1>5. RecordsOfSpentMaps' BY <1>1 DEF IInv, RecordsOfSpentMaps, Blank
<1>6. \A l \in Layouts : Current(l)' => Blank(record[l])
  BY <1>1 DEF IInv, RecordsOfSpentMaps, Current
<1>7. Promises'
  <2>1. \A l \in Layouts : record[l] \in Records BY DEF IInv, Typed
  <2>2. \A l \in Layouts : MotionOf(l)' = 0 /\ ButtonsOf(l)' = 0
    BY <1>1, <1>6, <2>1 DEF MotionOf, ButtonsOf, Blank, AfterClick, Records
  <2>3. InRange(0) BY ConstantsTyped DEF InRange
  <2> QED BY <1>1, <2>2, <2>3 DEF Promises
<1>8. InPhase' BY <1>1 DEF IInv, InPhase
<1>9. ~Held'
  BY <1>1 DEF LossSeen, Held, snapshot_matches, active_valid, IInv, InPhase, MapInForce,
              Transacting
<1>10. report.era \in Nat /\ era \in Nat BY DEF IInv, Typed, Reports
<1>11. EraOfMap' BY <1>1, <1>9, <1>10 DEF EraOfMap, IInv
<1>12. SeedWalk' BY <1>1 DEF SeedWalk, Layouts
<1>14. FillUnowed'
  <2>1. state = "SEED_FILL" => report.layout \in Layouts
    BY DEF IInv, InPhase
  <2> QED BY <1>1, <2>1 DEF FillUnowed
<1>13. CommandStays' /\ Planned' BY <1>9 DEF CommandStays, Planned
<1> QED BY <1>2, <1>4, <1>5, <1>7, <1>8, <1>11, <1>12, <1>13, <1>14 DEF IInv

\* Boot protocol: not on an endpoint a prepared command is for, or the records are
\* no longer those that were promised.
LEMMA ProtocolChangesStep ==
    ASSUME IInv, ProtocolChanges
    PROVE  IInv'
<1>1. /\ UNCHANGED <<up, active, spent, era, staged, state, report, record, state_valid>>
      /\ UNCHANGED <<motion_live, buttons_live, seed_index, seed_pending, accepted, owed, asked>>
  BY DEF ProtocolChanges, records, seeding
<1>2. PICK m \in BootEndpoints :
        /\ boot' = IF m \in boot THEN boot \ {m} ELSE boot \cup {m}
        /\ race' = IF report.layout = m /\ report.command.kind \notin {"NONE", "CLEAR"}
                   THEN race \cup {"protocol"} ELSE race
  BY DEF ProtocolChanges
<1>3. Typed' BY <1>1 DEF IInv, Typed
<1>4. MapInForce' /\ RecordsOfSpentMaps'
  BY <1>1 DEF IInv, MapInForce, RecordsOfSpentMaps, active_valid, Blank
<1>5. InPhase' /\ EraOfMap'
  BY <1>1 DEF IInv, InPhase, EraOfMap, Held, active_valid, snapshot_matches
<1>6. ("fill" \in race' <=> "fill" \in race) /\ (Foreseen' => Foreseen)
  BY <1>2 DEF Foreseen
<1>7. Promises'
  BY <1>1, <1>6 DEF IInv, Promises, MotionOf, ButtonsOf, Current, active_valid, AfterClick
<1>8. SeedWalk'
  BY <1>1, <1>6 DEF IInv, SeedWalk, Filling, Missed, active_valid, Current
<1>9. FillUnowed' BY <1>1, <1>6 DEF IInv, FillUnowed, active_valid
<1>10. CommandStays'
  <2> SUFFICES ASSUME Foreseen', Held', report.command # NoCommand
               PROVE  /\ staged = report.command /\ fresh'
                      /\ staged.kind # "CLEAR" => staged.layout = report.layout
    BY <1>1 DEF CommandStays
  <2>1. Held BY <1>1 DEF Held, active_valid, snapshot_matches
  <2>2. /\ staged = report.command /\ fresh
        /\ staged.kind # "CLEAR" => staged.layout = report.layout
    BY <1>6, <2>1 DEF IInv, CommandStays
  <2>3. report.command.kind # "NONE"
    BY CommandCases DEF IInv, Typed, Reports, Kinds
  <2>4. report.layout # m \/ staged.kind = "CLEAR"
    BY <1>2, <2>2, <2>3 DEF Foreseen
  <2>5. fresh' BY <1>1, <1>2, <2>2, <2>4 DEF fresh, active_valid
  <2> QED BY <2>2, <2>5
<1>11. Planned'
  BY <1>1, <1>6 DEF IInv, Planned, Held, active_valid, snapshot_matches, Owing, Asking, Clears,
              AfterClick, InRange
<1> QED BY <1>3, <1>4, <1>5, <1>7, <1>8, <1>9, <1>10, <1>11 DEF IInv

-----------------------------------------------------------------------------
\* Capture, the scan and the walk.

\* A report comes in.
LEMMA CaptureStep ==
    ASSUME IInv, NEW l \in Layouts, NEW physical \in {0, Clamp}, Capture(l, physical)
    PROVE  IInv'
<1>1. OwnStep /\ state' = "CAPTURE_REST"
  BY DEF Capture, OwnStep, seeding
<1>2. report' = [NoReport EXCEPT !.layout = l, !.physical = physical, !.boot = l \in boot]
  BY DEF Capture
<1> DEFINE inBoot == l \in boot
<1>3. inBoot \in BOOLEAN /\ physical \in -Clamp..Clamp /\ l \in Layouts \cup {0}
  BY ConstantsTyped
<1>4. report' = [NoReport EXCEPT !.layout = l, !.physical = physical, !.boot = inBoot]
  BY <1>2
<1> HIDE DEF inBoot
<1>5. /\ report' \in Reports /\ ~report'.mapped /\ report'.era = 0 /\ report'.injected = 0
      /\ report'.command = NoCommand /\ ~report'.invalidated /\ report'.layout = l
  BY <1>3, <1>4, NoReportTyped DEF Reports
<1> QED BY <1>1, <1>5, Unmapped DEF States

\* What a state without a map leaves of the report in hand.
LEMMA NoMapYet ==
    ASSUME IInv, ~report.mapped
    PROVE  /\ report \in Reports /\ report.injected = 0 /\ report.command = NoCommand
           /\ ~report.invalidated /\ active \in Nat /\ era \in Nat
           /\ state \notin {"CAPTURE", "CACHE_COPY"} => report.layout \in Layouts
BY ConstantsTyped DEF IInv, Typed, InPhase

\* The map is asked, or passed by.
LEMMA QueryStep ==
    ASSUME IInv, Query
    PROVE  IInv'
<1>1. OwnStep /\ state' \in {"OUTPUT", "QUERY"} /\ state = "CAPTURE_REST"
  BY DEF Query, OwnStep, seeding
<1>2. ~report.mapped BY DEF Query, IInv, InPhase, Transacting
<1>3. report' = report \/ report' = [report EXCEPT !.map = active]
  BY DEF Query
<1>4. /\ report' \in Reports /\ ~report'.mapped /\ report'.era = report.era
      /\ report'.injected = 0 /\ report'.command = NoCommand /\ ~report'.invalidated
      /\ report'.layout = report.layout
  BY <1>2, <1>3, NoMapYet DEF Reports
<1>5. report.layout \in Layouts BY <1>1, <1>2, NoMapYet
<1> QED BY <1>1, <1>4, <1>5, Unmapped DEF States, Transacting

\* A transaction that begins with the map in force.
LEMMA Mapped ==
    ASSUME IInv, OwnStep, state' = "PREPARE", report' \in Reports, report'.mapped,
           active_valid, report'.map = active, report'.era = era, ~report'.invalidated,
           report'.injected = 0, report'.command = NoCommand, report'.layout \in Layouts
    PROVE  IInv'
<1>1. active' = active /\ era' = era /\ era \in Nat BY DEF OwnStep, outside, IInv, Typed
<1>2. InPhase' BY DEF InPhase, Transacting
<1>3. EraOfMap' BY <1>1 DEF EraOfMap, Held, snapshot_matches, active_valid
<1>4. CommandStays' /\ Planned' BY DEF CommandStays, Planned
<1> QED BY <1>2, <1>3, <1>4, OwnStepKeeps DEF IInv, States, Transacting

\* The directory has the layout: the transaction is of the map in force.
LEMMA QueryResultStep ==
    ASSUME IInv, QueryResult
    PROVE  IInv'
<1>1. OwnStep /\ state = "QUERY"
  BY DEF QueryResult, OwnStep, seeding
<1>2. ~report.mapped BY <1>1 DEF IInv, InPhase, Transacting
<1>3. report.layout \in Layouts BY <1>1, <1>2, NoMapYet
<1>4. CASE state' = "OUTPUT" /\ report' = report
  <2>1. /\ report' \in Reports /\ ~report'.mapped /\ report'.era = report.era
        /\ report'.injected = 0 /\ report'.command = NoCommand /\ ~report'.invalidated
        /\ report'.layout \in Layouts
    BY <1>2, <1>3, <1>4, NoMapYet
  <2> QED BY <1>1, <1>4, <2>1, Unmapped DEF States, Transacting
<1>5. CASE /\ snapshot_matches /\ state' = "PREPARE"
           /\ report' = [report EXCEPT !.mapped = TRUE, !.era = era]
  <2>1. /\ report' \in Reports /\ report'.mapped /\ report'.era = era /\ report'.injected = 0
        /\ report'.command = NoCommand /\ report'.layout = report.layout
        /\ report'.map = report.map /\ ~report'.invalidated
    BY <1>2, <1>5, NoMapYet DEF Reports
  <2> QED BY <1>1, <1>3, <1>5, <2>1, Mapped DEF snapshot_matches
<1> QED BY <1>4, <1>5 DEF QueryResult

\* The first of some layouts is one of them.
LEMMA FirstLayout ==
    ASSUME NEW S \in SUBSET Layouts, S # {}
    PROVE  Min(S) \in S
<1> DEFINE R == OpToRel(<, Nat)
<1>1. S \subseteq Nat BY ConstantsTyped DEF Layouts
<1>2. IsWellFoundedOn(R, Nat) BY NatLessThanWellFounded, Zenon
<1>3. PICK x \in S : \A y \in S : ~(<<y, x>> \in R)
  BY <1>1, <1>2, WFMin, Zenon
<1> HIDE DEF R
<1>4. \A y \in S : x =< y
  <2> SUFFICES ASSUME NEW y \in S, ~(x =< y) PROVE FALSE OBVIOUS
  <2>1. y \in Nat /\ x \in Nat BY <1>1
  <2>2. y < x BY <2>1
  <2>3. <<y, x>> \in R BY <2>1, <2>2 DEF R, OpToRel
  <2> QED BY <1>3, <2>3
<1> QED BY <1>3, <1>4 DEF Min

\* A still device's layout with work: its transaction has the map in force.
LEMMA ScanStep ==
    ASSUME IInv, Scan
    PROVE  IInv'
<1>1. OwnStep /\ state = "CAPTURE" /\ active_valid
  BY DEF Scan, OwnStep, seeding, scan_possible
<1>2. ~report.mapped BY <1>1 DEF IInv, InPhase, Transacting
<1>3. CASE state' = state /\ report' = report
  <2>1. /\ report' \in Reports /\ ~report'.mapped /\ report'.era = report.era
        /\ report'.injected = 0 /\ report'.command = NoCommand /\ ~report'.invalidated
    BY <1>2, <1>3, NoMapYet
  <2> QED BY <1>1, <1>3, <2>1, Unmapped DEF States, Transacting
<1> DEFINE pending == {l \in Layouts : scan_pending(l)}
           suppressed == active_native_only
<1>4. CASE /\ pending # {} /\ state' = "PREPARE"
           /\ report' = [NoReport EXCEPT !.layout = Min(pending), !.mapped = TRUE,
                           !.stationary = TRUE, !.suppressed = suppressed,
                           !.map = active, !.era = era]
  <2> PICK l \in Layouts :
         report' = [NoReport EXCEPT !.layout = l, !.mapped = TRUE, !.stationary = TRUE,
                      !.suppressed = suppressed, !.map = active, !.era = era]
    <3>1. Min(pending) \in pending BY <1>4, FirstLayout
    <3> QED BY <3>1, <1>4
  <2>1. suppressed \in BOOLEAN BY DEF active_native_only
  <2> HIDE DEF pending, suppressed
  <2>2. active \in Nat /\ era \in Nat BY <1>2, NoMapYet
  <2>3. /\ report' \in Reports /\ report'.mapped /\ report'.era = era /\ report'.injected = 0
        /\ report'.command = NoCommand /\ report'.layout = l
        /\ report'.map = active /\ ~report'.invalidated
    BY <2>1, <2>2, NoReportTyped DEF Reports
  <2> QED BY <1>1, <1>4, <2>3, Mapped
<1> QED BY <1>3, <1>4 DEF Scan

\* The walk goes on, ends, or finds a layout without a record.
LEMMA SeedNextStep ==
    ASSUME IInv, SeedNext
    PROVE  IInv'
<1>1. /\ UNCHANGED <<up, active, spent, boot, era, race, staged, record, state_valid>>
      /\ UNCHANGED <<motion_live, buttons_live, accepted, owed, asked, outside, records>>
      /\ state = "CAPTURE" /\ seed_pending
  BY DEF SeedNext, outside, records
<1>2. ~report.mapped BY <1>1 DEF IInv, InPhase, Transacting
<1>3. MapInForce' /\ RecordsOfSpentMaps' /\ Promises' /\ \A l : Current(l)' <=> Current(l)
  BY <1>1, RecordsKept DEF IInv
<1>4. seed_index \in Nat /\ seed_index >= 1 BY DEF IInv, Typed
<1>5. CASE state' = state /\ report' = report
  <2>1. seed_pending' \in BOOLEAN /\ seed_index' \in {seed_index, seed_index + 1}
    BY DEF SeedNext
  <2>2. Typed' BY <1>1, <1>4, <1>5, <2>1 DEF IInv, Typed
  <2>3. InPhase' /\ EraOfMap'
    BY <1>1, <1>5 DEF IInv, InPhase, EraOfMap, Held, active_valid, snapshot_matches
  <2>4. CommandStays' /\ Planned' BY <1>2, <1>5 DEF CommandStays, Planned, Held
  <2>6. FillUnowed' BY <1>1, <1>5 DEF FillUnowed
  <2>5. SeedWalk'
    <3>0. \A l : Missed(l)' <=> Missed(l) BY <1>1 DEF Missed
    <3>1. active_valid' <=> active_valid BY <1>1 DEF active_valid
    <3>2. active_valid => \A l \in Layouts : l < seed_index => Current(l) \/ Missed(l)
      BY <1>1 DEF IInv, SeedWalk
    <3>3. CASE ~active_valid BY <3>1, <3>3 DEF SeedWalk
    <3>4. CASE active_valid /\ seed_index > LayoutCount
      <4>1. \A l \in Layouts : l < seed_index
        BY <1>4, <3>4, ConstantsTyped DEF Layouts
      <4> QED BY <1>1, <1>3, <1>5, <3>0, <3>2, <3>4, <4>1 DEF SeedNext, SeedWalk
    <3>5. CASE active_valid /\ ~(seed_index > LayoutCount)
      <4>1. Current(seed_index) /\ seed_index' = seed_index + 1 /\ seed_pending'
        BY <1>1, <1>5, <3>5 DEF SeedNext
      <4>2. \A l \in Layouts : l < seed_index' => Current(l) \/ Missed(l)
        <5>1. \A l \in Layouts : l < seed_index + 1 => l < seed_index \/ l = seed_index
          BY <1>4 DEF Layouts
        <5> QED BY <3>2, <3>5, <4>1, <5>1
      <4> QED BY <1>1, <1>3, <1>5, <3>0, <4>1, <4>2 DEF SeedWalk
    <3> QED BY <3>3, <3>4, <3>5
  <2> QED BY <1>3, <2>2, <2>3, <2>4, <2>5, <2>6 DEF IInv
<1>6. CASE state' = "SEED_FILL"
  <2>1. /\ active_valid /\ ~(seed_index > LayoutCount) /\ seed_pending' = TRUE
        /\ ~Current(seed_index) /\ seed_index' = seed_index
        /\ report' = [NoReport EXCEPT !.layout = seed_index, !.map = active]
    BY <1>1, <1>6 DEF SeedNext
  <2>2. seed_index \in Layouts BY <1>4, <2>1, ConstantsTyped DEF Layouts
  <2>3. active \in Nat BY <1>2, NoMapYet
  <2>4. /\ report' \in Reports /\ ~report'.mapped /\ report'.era = 0
        /\ report'.injected = 0 /\ report'.command = NoCommand /\ ~report'.invalidated
        /\ report'.layout = seed_index /\ report'.map = active
    BY <2>1, <2>2, <2>3, NoReportTyped DEF Reports
  <2>5. Typed' BY <1>1, <1>4, <1>6, <2>1, <2>4 DEF IInv, Typed, States
  <2>6. InPhase' BY <1>6, <2>2, <2>4 DEF InPhase
  <2>7. era \in Nat BY DEF IInv, Typed
  <2>8. EraOfMap' BY <1>1, <2>4, <2>7 DEF EraOfMap
  <2>9. CommandStays' /\ Planned' BY <2>4 DEF CommandStays, Planned, Held
  <2>10. \A l \in Layouts : l < seed_index => Current(l) \/ Missed(l)
    BY <1>1, <2>1 DEF IInv, SeedWalk
  <2>11. SeedWalk'
    <3>1. \A l : Missed(l)' <=> Missed(l) BY <1>1 DEF Missed
    <3>2. Filling' BY <1>1, <2>1, <2>4 DEF Filling
    <3> QED BY <1>1, <1>3, <2>1, <2>10, <3>1, <3>2 DEF SeedWalk
  <2>12. FillUnowed'
    <3>1. Foreseen => owed[seed_index] = 0 /\ asked[seed_index] = 0
      BY <2>1, <2>2 DEF IInv, Promises, MotionOf, ButtonsOf
    <3> QED BY <1>1, <2>4, <3>1 DEF FillUnowed, Foreseen
  <2> QED BY <1>3, <2>5, <2>6, <2>8, <2>9, <2>11, <2>12 DEF IInv
<1> QED BY <1>1, <1>5, <1>6 DEF SeedNext

\* What a write leaves of the records' shape.
LEMMA WrittenShape ==
    ASSUME IInv, NEW l \in Layouts, NEW r \in Records, NEW cleared, Written(l, r, cleared),
           spent' = spent, r.map \in spent \/ Blank(r)
    PROVE  /\ record' \in [Layouts -> Records] /\ state_valid' \subseteq Layouts
           /\ motion_live' \subseteq Layouts /\ buttons_live' \subseteq Layouts
           /\ RecordsOfSpentMaps'
<1>1. /\ record \in [Layouts -> Records] /\ state_valid \subseteq Layouts
      /\ motion_live \subseteq Layouts /\ buttons_live \subseteq Layouts
      /\ record' = [record EXCEPT ![l] = r]
      /\ state_valid' = IF up THEN state_valid \cup {l} ELSE {}
  BY DEF IInv, Typed, Written
<1>2. /\ record' \in [Layouts -> Records] /\ record'[l] = r
      /\ \A m \in Layouts \ {l} : record'[m] = record[m]
      /\ state_valid' \subseteq Layouts
  BY <1>1
<1>3. motion_live' \subseteq Layouts /\ buttons_live' \subseteq Layouts
  BY <1>1 DEF Written
<1>4. \A m \in state_valid : record[m].map \in spent \/ Blank(record[m])
  BY DEF IInv, RecordsOfSpentMaps
<1>5. \A m \in state_valid' : record'[m].map \in spent \/ Blank(record'[m])
  BY <1>1, <1>2, <1>4
<1>6. RecordsOfSpentMaps' BY <1>5 DEF RecordsOfSpentMaps, Blank
<1> QED BY <1>2, <1>3, <1>6

\* What the records say after a write for the map in force.
LEMMA WrittenEffect ==
    ASSUME IInv, NEW l \in Layouts, NEW r \in Records, NEW cleared, Written(l, r, cleared),
           active' = active, active_valid, r.map = active
    PROVE  /\ Current(l)' /\ MotionOf(l)' = r.motion /\ ButtonsOf(l)' = AfterClick(r)
           /\ \A m \in Layouts \ {l} :
                /\ Current(m)' <=> Current(m)
                /\ "MOTION" \in cleared => MotionOf(m)' = 0
                /\ "MOTION" \notin cleared => MotionOf(m)' = MotionOf(m)
                /\ "BUTTONS" \in cleared => ButtonsOf(m)' = 0
                /\ "BUTTONS" \notin cleared => ButtonsOf(m)' = ButtonsOf(m)
<1>1. up BY DEF IInv, MapInForce
<1>2. /\ record' = [record EXCEPT ![l] = r] /\ record \in [Layouts -> Records]
      /\ state_valid' = state_valid \cup {l}
      /\ motion_live' = (IF "MOTION" \in cleared THEN {} ELSE motion_live) \cup {l}
      /\ buttons_live' = (IF "BUTTONS" \in cleared THEN {} ELSE buttons_live) \cup {l}
  BY <1>1 DEF Written, IInv, Typed
<1>3. record'[l] = r /\ \A m \in Layouts \ {l} : record'[m] = record[m] BY <1>2
<1>4. Current(l)' /\ \A m \in Layouts \ {l} : Current(m)' <=> Current(m)
  BY <1>2, <1>3 DEF Current, active_valid
<1>5. MotionOf(l)' = r.motion /\ ButtonsOf(l)' = AfterClick(r)
  BY <1>2, <1>3, <1>4 DEF MotionOf, ButtonsOf, AfterClick
<1>6. \A m \in Layouts \ {l} : /\ "MOTION" \in cleared => MotionOf(m)' = 0
                               /\ "MOTION" \notin cleared => MotionOf(m)' = MotionOf(m)
  BY <1>2, <1>3, <1>4 DEF MotionOf
<1>7. \A m \in Layouts \ {l} : /\ "BUTTONS" \in cleared => ButtonsOf(m)' = 0
                               /\ "BUTTONS" \notin cleared => ButtonsOf(m)' = ButtonsOf(m)
  BY <1>2, <1>3, <1>4 DEF ButtonsOf, AfterClick
<1> QED BY <1>4, <1>5, <1>6, <1>7

\* What the records say after the write of a blank one, of whichever map.
LEMMA WrittenBlank ==
    ASSUME IInv, NEW l \in Layouts, NEW r \in Records, Blank(r), Written(l, r, {}),
           active' = active, active_valid
    PROVE  /\ r.map = active => Current(l)'
           /\ MotionOf(l)' = 0 /\ ButtonsOf(l)' = 0
           /\ \A m \in Layouts \ {l} :
                /\ Current(m)' <=> Current(m)
                /\ MotionOf(m)' = MotionOf(m) /\ ButtonsOf(m)' = ButtonsOf(m)
<1>1. up BY DEF IInv, MapInForce
<1>2. /\ record' = [record EXCEPT ![l] = r] /\ record \in [Layouts -> Records]
      /\ state_valid' = state_valid \cup {l}
      /\ motion_live' = motion_live \cup {l} /\ buttons_live' = buttons_live \cup {l}
  BY <1>1 DEF Written, IInv, Typed
<1>3. record'[l] = r /\ \A m \in Layouts \ {l} : record'[m] = record[m] BY <1>2
<1>4. /\ r.map = active => Current(l)'
      /\ \A m \in Layouts \ {l} : Current(m)' <=> Current(m)
  BY <1>2, <1>3 DEF Current, active_valid
<1>5. MotionOf(l)' = 0 /\ ButtonsOf(l)' = 0
  BY <1>3 DEF MotionOf, ButtonsOf, AfterClick, Blank
<1>6. \A m \in Layouts \ {l} : MotionOf(m)' = MotionOf(m) /\ ButtonsOf(m)' = ButtonsOf(m)
  BY <1>2, <1>3, <1>4 DEF MotionOf, ButtonsOf, AfterClick
<1> QED BY <1>4, <1>5, <1>6

\* The template is filled: nothing was owed on the layout.
LEMMA SeedFillStep ==
    ASSUME IInv, SeedFill
    PROVE  IInv'
<1>0. /\ report.layout \in Layouts /\ report.map \in Nat /\ state = "SEED_FILL"
  BY DEF SeedFill, IInv, InPhase, Typed, Reports, Transacting
<1> PICK l \in Layouts : l = report.layout BY <1>0
<1>2. PICK r \in Records : Written(l, r, {}) /\ r.map = report.map /\ Blank(r)
  <2> DEFINE filled == [NoRecord EXCEPT !.map = report.map]
  <2>1. filled \in Records /\ filled.map = report.map /\ Blank(filled) BY <1>0, BlankTyped
  <2>2. Written(l, filled, {}) BY DEF SeedFill
  <2> HIDE DEF filled
  <2> QED BY <2>1, <2>2
<1>1. /\ UNCHANGED <<up, active, spent, boot, era, race, staged, seed_pending, accepted>>
      /\ UNCHANGED <<owed, asked>>
      /\ state' = "CACHE_COPY" /\ seed_index' = seed_index + 1
      /\ report' = NoReport
  BY DEF SeedFill, outside
<1>3. FillUnowed' BY <1>1 DEF FillUnowed
<1>4. /\ record' \in [Layouts -> Records] /\ state_valid' \subseteq Layouts
      /\ motion_live' \subseteq Layouts /\ buttons_live' \subseteq Layouts
      /\ RecordsOfSpentMaps'
  BY <1>1, <1>2, WrittenShape
<1>5. Typed' BY <1>1, <1>4, NoReportTyped DEF IInv, Typed, States
<1>6. MapInForce' BY <1>1 DEF IInv, MapInForce, active_valid
<1>7. InPhase' BY <1>1, NoReportTyped DEF InPhase
<1>8. era \in Nat BY DEF IInv, Typed
<1>9. EraOfMap' BY <1>1, <1>8, NoReportTyped DEF EraOfMap
<1>10. CommandStays' /\ Planned' BY <1>1, NoReportTyped DEF CommandStays, Planned, Held
<1>11. active_valid' <=> active_valid BY <1>1 DEF active_valid
<1>12. CASE ~active_valid BY <1>3, <1>4, <1>5, <1>6, <1>7, <1>9, <1>10, <1>11, <1>12
                          DEF IInv, SeedWalk, Promises
<1>13. CASE active_valid
  <2>1. /\ seed_pending
        /\ (l = seed_index /\ r.map = active) \/ ("fill" \in race /\ seed_index = 1)
    BY <1>0, <1>2, <1>13 DEF IInv, SeedWalk, Filling
  <2>2. /\ r.map = active => Current(l)'
        /\ MotionOf(l)' = 0 /\ ButtonsOf(l)' = 0
        /\ \A m \in Layouts \ {l} :
             /\ Current(m)' <=> Current(m)
             /\ MotionOf(m)' = MotionOf(m) /\ ButtonsOf(m)' = ButtonsOf(m)
    BY <1>1, <1>2, <1>13, WrittenBlank
  <2>3. ASSUME Foreseen
        PROVE  \A m \in Layouts :
                 MotionOf(m)' = owed'[m] /\ InRange(owed'[m]) /\ ButtonsOf(m)' = asked'[m]
    <3>1. \A m \in Layouts : MotionOf(m) = owed[m] /\ InRange(owed[m]) /\ ButtonsOf(m) = asked[m]
      BY <1>13, <2>3 DEF IInv, Promises
    <3>2. owed[l] = 0 /\ asked[l] = 0
      BY <1>0, <1>13, <2>3 DEF IInv, FillUnowed
    <3> QED BY <1>1, <2>2, <3>1, <3>2
  <2>4. Promises' BY <1>1, <2>3 DEF Promises, Foreseen, InRange
  <2>5. \A m \in Layouts : m < seed_index => Current(m) \/ Missed(m)
    BY <1>13, <2>1 DEF IInv, SeedWalk
  <2>6. \A m \in Layouts : m < seed_index + 1 => m < seed_index \/ m = seed_index
    <3>1. seed_index \in Nat BY DEF IInv, Typed
    <3> QED BY <3>1 DEF Layouts
  <2>7. \A m \in Layouts : m < seed_index' => Current(m)' \/ Missed(m)'
    <3>1. CASE l = seed_index /\ r.map = active
      <4>1. \A m \in Layouts : m < seed_index => m # l
        BY <3>1 DEF Layouts
      <4> QED BY <1>1, <2>2, <2>5, <2>6, <3>1, <4>1 DEF Missed
    <3>2. CASE "fill" \in race /\ seed_index = 1
      <4>1. \A m \in Layouts : m < seed_index' => m = 1
        BY <1>1, <3>2, ConstantsTyped DEF Layouts
      <4> QED BY <1>1, <3>2, <4>1 DEF Missed
    <3> QED BY <2>1, <3>1, <3>2
  <2>8. SeedWalk' BY <1>1, <2>1, <2>7 DEF SeedWalk
  <2> QED BY <1>3, <1>4, <1>5, <1>6, <1>7, <1>9, <1>10, <2>4, <2>8 DEF IInv
<1> QED BY <1>12, <1>13

-----------------------------------------------------------------------------
\* The transaction.

\* A step after which the transaction, whose map it keeps, cannot commit.
LEMMA GivenUp ==
    ASSUME IInv, OwnStep, state' \in {"ABORT_MUTATION", "OUTPUT"}, report' \in Reports,
           report.mapped, report'.mapped, report'.layout = report.layout,
           report'.era = report.era, ~Held, ~Held', report.layout \in Layouts
    PROVE  IInv'
<1>1. era' = era /\ active' = active BY DEF OwnStep, outside
<1>2. InPhase' BY DEF InPhase, Transacting
<1>3. EraOfMap' BY <1>1 DEF EraOfMap, IInv, active_valid
<1>4. CommandStays' /\ Planned' BY DEF CommandStays, Planned
<1> QED BY <1>2, <1>3, <1>4, OwnStepKeeps DEF IInv, States, Transacting

\* A step of a transaction that may still commit.
LEMMA GoesOn ==
    ASSUME IInv, OwnStep, state' \in {"MUTATE", "OUTPUT"}, report' \in Reports,
           Held, report'.mapped, report'.layout = report.layout, report'.map = report.map,
           report'.era = report.era, ~report'.invalidated, CommandStays', Planned',
           report.layout \in Layouts
    PROVE  IInv'
<1>1. era' = era /\ active' = active BY DEF OwnStep, outside
<1>2. InPhase' BY DEF InPhase, Transacting
<1>3. Held' BY <1>1 DEF Held, snapshot_matches, active_valid
<1>4. EraOfMap' BY <1>1, <1>3 DEF EraOfMap, IInv, active_valid, Held
<1> QED BY <1>2, <1>4, OwnStepKeeps DEF IInv, States, Transacting

\* What is in hand while a transaction runs.
LEMMA InHand ==
    ASSUME IInv, state \in {"PREPARE", "MUTATE"} \/ report.mapped
    PROVE  /\ report \in Reports /\ report.mapped /\ report.layout \in Layouts
           /\ report.physical \in -Clamp..Clamp /\ report.injected \in Int
           /\ report.new \in Records /\ report.new.motion \in Int
           /\ report.command \in Commands /\ staged \in Commands
           /\ owed \in [Layouts -> Int] /\ asked \in [Layouts -> Int]
<1>1. report \in Reports /\ report.mapped /\ report.layout \in Layouts
  BY DEF IInv, Typed, InPhase, Transacting
<1> QED BY <1>1 DEF IInv, Typed, Reports, Records

\* The command is read and the record prepared: what is owed is in it.
LEMMA PrepareStep ==
    ASSUME IInv, Prepare
    PROVE  IInv'
<1>1. OwnStep /\ state = "PREPARE"
  BY DEF Prepare, OwnStep, seeding
<1>2. report.command = NoCommand /\ report.injected = 0 BY <1>1 DEF IInv, InPhase
<1>3. CASE ~snapshot_matches
  <2>1. state' = "ABORT_MUTATION" /\ report' = report BY <1>3 DEF Prepare
  <2>2. ~Held BY <1>3 DEF Held
  <2>3. ~Held' BY <1>1, <1>3, <2>1 DEF Held, OwnStep, outside, snapshot_matches, active_valid
  <2> QED BY <1>1, <2>1, <2>2, <2>3, InHand, GivenUp
<1>4. CASE snapshot_matches
  <2> PICK l \in Layouts : l = report.layout BY <1>1, InHand
  <2>1. PICK c \in Commands, overflow \in BOOLEAN, new \in Records :
          /\ c = (IF targets THEN staged ELSE NoCommand)
          /\ overflow = (c.kind = "RELATIVE" /\ ~InRange(Captured(l).motion + c.value))
          /\ new = Prepared(c, Captured(l), overflow)
          /\ report' = [report EXCEPT !.command = c, !.overflow = overflow, !.new = new]
          /\ state' \in {"MUTATE", "OUTPUT"}
    <3> DEFINE c == IF targets THEN staged ELSE NoCommand
               overflow == c.kind = "RELATIVE" /\ ~InRange(Captured(l).motion + c.value)
               new == Prepared(c, Captured(l), overflow)
    <3>1. c \in Commands BY <1>1, InHand DEF Commands
    <3>2. Captured(l) \in Records BY CapturedFields DEF IInv
    <3>3. overflow \in BOOLEAN OBVIOUS
    <3>4. /\ report' = [report EXCEPT !.command = c, !.overflow = overflow, !.new = new]
          /\ state' \in {"MUTATE", "OUTPUT"}
      BY <1>4 DEF Prepare
    <3> HIDE DEF c, overflow
    <3>5. new \in Records
      <4>1. Typed BY DEF IInv
      <4> QED BY <3>1, <3>2, <3>3, <4>1, PreparedFields
    <3>6. /\ c = (IF targets THEN staged ELSE NoCommand)
          /\ overflow = (c.kind = "RELATIVE" /\ ~InRange(Captured(l).motion + c.value))
      BY Zenon DEF c, overflow
    <3> HIDE DEF new
    <3>7. new = Prepared(c, Captured(l), overflow) BY DEF new
    <3> QED BY <3>1, <3>3, <3>4, <3>5, <3>6, <3>7
  <2>2. /\ report' \in Reports /\ report'.mapped = report.mapped
        /\ report'.layout = report.layout /\ report'.map = report.map
        /\ report'.era = report.era /\ report'.invalidated = report.invalidated
        /\ report'.injected = report.injected
        /\ report'.command = c /\ report'.new = new
    BY <1>1, <2>1, InHand DEF Reports
  <2>3. Held /\ active_valid
    BY <1>1, <1>4 DEF Held, IInv, InPhase, snapshot_matches
  <2>4. CommandStays'
    <3>1. UNCHANGED <<staged, active, boot, era>> BY <1>1 DEF OwnStep, outside
    <3>2. fresh' <=> fresh BY <3>1 DEF fresh
    <3>3. c # NoCommand =>
            c = staged /\ fresh /\ (staged.kind # "CLEAR" => staged.layout = l)
      BY <2>1 DEF targets
    <3> QED BY <2>2, <3>1, <3>2, <3>3 DEF CommandStays
  <2>5. Planned'
    <3>1. UNCHANGED <<active, owed, asked>> /\ (Foreseen' <=> Foreseen)
      BY <1>1 DEF OwnStep, outside, Foreseen
    <3>2. PICK r \in Records :
            /\ r = Captured(l) /\ r.map = active
            /\ r.motion = MotionOf(l) /\ AfterClick(r) = ButtonsOf(l)
      BY <2>3, CapturedFields DEF IInv
    <3>3. /\ new.map = r.map
          /\ new.motion = IF Clears(c, "MOTION") THEN 0
                          ELSE IF c.kind = "RELATIVE" /\ ~overflow THEN r.motion + c.value
                          ELSE r.motion
          /\ AfterClick(new) =
               IF Clears(c, "BUTTONS") THEN 0
               ELSE IF c.kind = "BUTTON" /\ (c.hold = 0 \/ c.value = 0) THEN c.value
               ELSE AfterClick(r)
      <4>1. new = Prepared(c, r, overflow) /\ Typed BY <2>1, <3>2 DEF IInv
      <4> QED BY <4>1, PreparedFields
    <3>4. ASSUME Foreseen
          PROVE  /\ new.motion = Owing(l, c) /\ InRange(new.motion)
                 /\ AfterClick(new) = Asking(l, c)
      <4>1. MotionOf(l) = owed[l] /\ InRange(owed[l]) /\ ButtonsOf(l) = asked[l]
        BY <2>3, <3>4 DEF IInv, Promises
      <4>2. r.motion = owed[l] /\ AfterClick(r) = asked[l] BY <3>2, <4>1
      <4>3. new.motion = Owing(l, c) BY <2>1, <3>2, <3>3, <4>2 DEF Owing
      <4>4. InRange(0) BY ConstantsTyped DEF InRange
      <4>5. InRange(new.motion) BY <4>1, <4>3, <4>4 DEF Owing
      <4>6. AfterClick(new) = Asking(l, c) BY <3>3, <4>2 DEF Asking
      <4> QED BY <4>3, <4>5, <4>6
    <3>5. new.motion \in Int BY DEF Records
    <3>6. report'.new.map = active' BY <2>2, <3>1, <3>2, <3>3
    <3> QED BY <1>2, <2>2, <3>1, <3>4, <3>5, <3>6
            DEF Planned, InRange, AfterClick, Owing, Asking
  <2> QED BY <1>1, <2>1, <2>2, <2>3, <2>4, <2>5, InHand, GoesOn DEF Held
<1> QED BY <1>3, <1>4

\* A sum is clamped, and the rest stays in range.
LEMMA ClampedSum ==
    ASSUME NEW physical \in -Clamp..Clamp, NEW motion \in Int
    PROVE  /\ Clamped(physical + motion) - physical \in Int
           /\ (physical + motion) - Clamped(physical + motion) \in Int
           /\ InRange(motion) => InRange((physical + motion) - Clamped(physical + motion))
           /\ ((physical + motion) - Clamped(physical + motion))
                + (Clamped(physical + motion) - physical) = motion
           /\ motion = 0 => /\ (physical + motion) - Clamped(physical + motion) = 0
                            /\ Clamped(physical + motion) - physical = 0
<1> DEFINE total == physical + motion
           rest == total - Clamped(total)
           injected == Clamped(total) - physical
<1>1. Clamped(total) \in Int BY ConstantsTyped DEF Clamped
<1>2. InRange(motion) => InRange(rest) BY ConstantsTyped DEF Clamped, InRange
<1>3. motion = 0 => rest = 0 /\ injected = 0 BY ConstantsTyped DEF Clamped
<1> QED BY <1>1, <1>2, <1>3, ConstantsTyped

\* What goes out leaves the record.
LEMMA MutateStep ==
    ASSUME IInv, Mutate
    PROVE  IInv'
<1>1. OwnStep /\ state = "MUTATE"
  BY DEF Mutate, OwnStep, seeding
<1>2. CASE ~snapshot_matches
  <2>1. state' = "ABORT_MUTATION" /\ report' = report BY <1>2 DEF Mutate
  <2>2. ~Held BY <1>2 DEF Held
  <2>3. ~Held' BY <1>1, <1>2, <2>1 DEF Held, OwnStep, outside, snapshot_matches, active_valid
  <2> QED BY <1>1, <2>1, <2>2, <2>3, InHand, GivenUp
<1>3. CASE snapshot_matches
  <2>1. Held BY <1>1, <1>3 DEF Held, IInv, InPhase
  <2>0. PICK l \in Layouts, c \in Commands, motion \in Int, new \in Records :
        /\ l = report.layout /\ c = report.command /\ motion = report.new.motion
        /\ new = report.new
    BY <1>1, InHand
  <2>2. /\ new.map = active
        /\ Foreseen => /\ motion = Owing(l, c) /\ InRange(motion)
                       /\ Clears(c, "MOTION") => motion = 0
                       /\ AfterClick(new) = Asking(l, c)
    BY <1>1, <2>0, <2>1 DEF IInv, Planned, Owing
  <2>3. PICK injected \in Int, rest \in Int :
          /\ rest + injected = motion /\ (InRange(motion) => InRange(rest))
          /\ motion = 0 => rest = 0 /\ injected = 0
          /\ report' = [report EXCEPT !.injected = injected, !.new.motion = rest]
          /\ state' = "OUTPUT"
    <3> PICK physical \in -Clamp..Clamp : physical = report.physical BY <1>1, InHand
    <3> DEFINE total == physical + motion
               injected == Clamped(total) - physical
               rest == total - Clamped(total)
    <3>2. /\ injected \in Int /\ rest \in Int /\ rest + injected = motion
          /\ InRange(motion) => InRange(rest)
          /\ motion = 0 => rest = 0 /\ injected = 0
      BY ClampedSum
    <3>3. /\ report' = [report EXCEPT !.injected = injected, !.new.motion = rest]
          /\ state' = "OUTPUT"
      BY <1>3, <2>0 DEF Mutate
    <3> HIDE DEF injected, rest
    <3> QED BY <3>2, <3>3
  <2>4. PICK next \in Records :
          /\ report' = [report EXCEPT !.injected = injected, !.new = next]
          /\ next.motion = rest /\ next.map = new.map /\ AfterClick(next) = AfterClick(new)
    <3>1. /\ [new EXCEPT !.motion = rest] \in Records
          /\ [new EXCEPT !.motion = rest].motion = rest
          /\ [new EXCEPT !.motion = rest].map = new.map
          /\ [new EXCEPT !.motion = rest].click = new.click
          /\ [new EXCEPT !.motion = rest].restore = new.restore
          /\ [new EXCEPT !.motion = rest].buttons = new.buttons
      BY DEF Records
    <3>2. report' = [report EXCEPT !.injected = injected,
                       !.new = [new EXCEPT !.motion = rest]]
      BY <1>1, <2>0, <2>3, InHand DEF Reports
    <3> QED BY <3>1, <3>2 DEF AfterClick
  <2>6. /\ report' \in Reports /\ report'.mapped = report.mapped
        /\ report'.layout = report.layout /\ report'.map = report.map
        /\ report'.era = report.era /\ report'.invalidated = report.invalidated
        /\ report'.injected = injected
        /\ report'.command = report.command /\ report'.new = next
    BY <1>1, <2>4, InHand DEF Reports
  <2>7. UNCHANGED <<staged, active, boot, era, race, owed, asked>>
    BY <1>1 DEF OwnStep, outside
  <2>8. CommandStays'
    BY <2>1, <2>6, <2>7 DEF IInv, CommandStays, Foreseen, fresh, active_valid
  <2>9. Planned'
    <3>1. Owing(l, c)' = Owing(l, c) /\ Asking(l, c)' = Asking(l, c)
      BY <2>7 DEF Owing, Asking, InRange
    <3>2. /\ next.map = active
          /\ Foreseen => /\ next.motion + injected = Owing(l, c)
                         /\ InRange(next.motion) /\ AfterClick(next) = Asking(l, c)
                         /\ Clears(c, "MOTION") => injected = 0
      BY <2>2, <2>3, <2>4
    <3>3. Foreseen' <=> Foreseen BY <2>7 DEF Foreseen
    <3>5. /\ report'.layout = l /\ report'.command = c /\ report'.new = next
          /\ report'.injected = injected /\ state' # "MUTATE" /\ active' = active
      BY <2>0, <2>3, <2>6, <2>7
    <3> HIDE DEF Planned
    <3> QED BY <3>1, <3>2, <3>3, <3>5 DEF Planned, Owing, Asking, Clears, AfterClick, InRange
  <2> QED BY <1>1, <2>1, <2>3, <2>6, <2>8, <2>9, InHand, GoesOn DEF Held
<1> QED BY <1>2, <1>3

\* The transaction is given up, or goes on without its map.
LEMMA AbortMutationStep ==
    ASSUME IInv, AbortMutation
    PROVE  IInv'
<1>1. OwnStep /\ state = "ABORT_MUTATION"
  BY DEF AbortMutation, OwnStep, seeding
<1>2. /\ report \in Reports /\ report.layout \in Layouts
      /\ report.physical \in -Clamp..Clamp
  BY <1>1 DEF IInv, Typed, InPhase, Reports
<1>3. CASE state' = "CAPTURE" /\ report' = NoReport
  BY <1>1, <1>3, NoReportTyped, Unmapped DEF States
<1>4. CASE /\ state' = "OUTPUT"
           /\ report' = [NoReport EXCEPT !.layout = report.layout, !.physical = report.physical]
  <2>1. /\ report' \in Reports /\ ~report'.mapped /\ report'.era = 0 /\ report'.injected = 0
        /\ report'.command = NoCommand /\ ~report'.invalidated
        /\ report'.layout = report.layout
    BY <1>2, <1>4, NoReportTyped DEF Reports
  <2> QED BY <1>1, <1>2, <1>4, <2>1, Unmapped DEF States, Transacting
<1> QED BY <1>3, <1>4 DEF AbortMutation

\* The template of a new report: nothing is in hand.
LEMMA CacheCopyStep ==
    ASSUME IInv, CacheCopy
    PROVE  IInv'
<1>1. OwnStep /\ state = "CACHE_COPY" /\ state' = "CAPTURE" /\ report' = report
  BY DEF CacheCopy, OwnStep, seeding
<1>2. ~report.mapped BY <1>1 DEF IInv, InPhase, Transacting
<1>3. /\ report' \in Reports /\ ~report'.mapped /\ report'.era = report.era
      /\ report'.injected = 0 /\ report'.command = NoCommand /\ ~report'.invalidated
  BY <1>1, <1>2, NoMapYet
<1> QED BY <1>1, <1>3, Unmapped DEF States

\* The map is lost while the report goes out.
LEMMA OutputLostStep ==
    ASSUME IInv, OutputLost
    PROVE  IInv'
<1>1. /\ OwnStep /\ state = "OUTPUT" /\ state' \in {"ABORT_MUTATION", "OUTPUT"}
      /\ report.mapped /\ ~snapshot_matches
      /\ report' = [report EXCEPT !.invalidated = TRUE]
  BY DEF OutputLost, OwnStep, seeding, snapshot_lost
<1>2. /\ report' \in Reports /\ report'.mapped /\ report'.invalidated
      /\ report'.layout = report.layout /\ report'.era = report.era
  BY <1>1, InHand DEF Reports
<1> QED BY <1>1, <1>2, InHand, GivenUp DEF Held

\* A byte changes nothing of the transaction.
LEMMA OutputByteStep ==
    ASSUME IInv, OutputByte
    PROVE  IInv'
<1>1. /\ OwnStep /\ state = "OUTPUT" /\ state' = "OUTPUT"
      /\ report' = [report EXCEPT !.started = TRUE]
  BY DEF OutputByte, OwnStep, seeding, output_accept
<1>2. report \in Reports /\ report.layout \in Layouts
  BY <1>1 DEF IInv, Typed, InPhase
<1>3. /\ report' \in Reports /\ report'.mapped = report.mapped
      /\ report'.layout = report.layout /\ report'.map = report.map
      /\ report'.era = report.era /\ report'.invalidated = report.invalidated
      /\ report'.injected = report.injected
      /\ report'.command = report.command /\ report'.new = report.new
  BY <1>1, <1>2 DEF Reports
<1>4. UNCHANGED <<staged, active, boot, era, race, owed, asked>> BY <1>1 DEF OwnStep, outside
<1>5. Held' <=> Held BY <1>3, <1>4 DEF Held, snapshot_matches, active_valid
<1>6. InPhase' BY <1>1, <1>2, <1>3 DEF IInv, InPhase
<1>7. EraOfMap' BY <1>3, <1>4, <1>5 DEF IInv, EraOfMap, active_valid
<1>8. CommandStays'
  BY <1>3, <1>4, <1>5 DEF IInv, CommandStays, Foreseen, fresh, active_valid
<1>9. Planned'
  BY <1>1, <1>3, <1>4, <1>5
     DEF IInv, Planned, Foreseen, Owing, Asking, Clears, AfterClick, InRange
<1> QED BY <1>1, <1>3, <1>6, <1>7, <1>8, <1>9, OwnStepKeeps DEF IInv, States, Transacting

-----------------------------------------------------------------------------
\* The last byte: the transaction commits, or it does not.

\* What every last byte does.
LEMMA LastByteParts ==
    ASSUME IInv, OutputLast
    PROVE  /\ state = "OUTPUT" /\ state' \in {"CACHE_COPY", "CAPTURE"} /\ report' = NoReport
           /\ UNCHANGED <<up, active, spent, boot, era, race, seed_index, seed_pending>>
           /\ accepted' \in Nat /\ staged' \in Commands /\ Promised
           /\ commit_allowed <=> Held
           /\ owed' \in [Layouts -> Int] /\ asked' \in [Layouts -> Int]
           /\ InPhase' /\ EraOfMap' /\ CommandStays' /\ Planned' /\ MapInForce'
           /\ FillUnowed'
<1>1. /\ state = "OUTPUT" /\ state' \in {"CACHE_COPY", "CAPTURE"} /\ report' = NoReport
      /\ UNCHANGED <<up, active, spent, boot, era, race, seed_index, seed_pending>>
      /\ accepted' \in {accepted, accepted + 1} /\ Promised
      /\ staged' \in {NoCommand, staged}
  BY DEF OutputLast, output_accept, outside, seeding, Promised
<1>2. accepted' \in Nat BY <1>1 DEF IInv, Typed
<1>3. staged' \in Commands BY <1>1 DEF IInv, Typed, Commands
<1>4. commit_allowed <=> Held BY DEF commit_allowed, snapshot_lost, Held
<1>5. owed' \in [Layouts -> Int] /\ asked' \in [Layouts -> Int]
  <2> DEFINE c == IF acknowledged THEN staged ELSE NoCommand
  <2>1. staged \in Commands /\ report \in Reports /\ owed \in [Layouts -> Int]
        /\ asked \in [Layouts -> Int] /\ report.injected \in Int
    BY DEF IInv, Typed, Reports
  <2>2. c \in Commands BY <2>1 DEF Commands
  <2>3. c.kind \in {"RELATIVE", "BUTTON"} => c.value \in Int
    BY <2>2, CommandCases
  <2> HIDE DEF c
  <2>4. /\ owed' = [l \in Layouts |->
                      IF c.kind = "CLEAR" /\ "MOTION" \in c.clear THEN 0
                      ELSE owed[l]
                             + (IF c.kind = "RELATIVE" /\ c.layout = l
                                     /\ InRange(owed[l] + c.value)
                                THEN c.value ELSE 0)
                             - (IF l = report.layout /\ report.era = era
                                THEN report.injected ELSE 0)]
    BY <1>1 DEF Promised, c
  <2>5. asked' = [l \in Layouts |->
                    IF c.kind = "CLEAR" /\ "BUTTONS" \in c.clear THEN 0
                    ELSE IF c.kind = "BUTTON" /\ c.layout = l /\ (c.hold = 0 \/ c.value = 0)
                         THEN c.value ELSE asked[l]]
    BY <1>1 DEF Promised, c
  <2>6. owed' \in [Layouts -> Int] BY <2>1, <2>3, <2>4
  <2>7. asked' \in [Layouts -> Int] BY <2>1, <2>3, <2>5
  <2> QED BY <2>6, <2>7
<1>6. InPhase' BY <1>1, NoReportTyped DEF InPhase
<1>7. era \in Nat BY DEF IInv, Typed
<1>8. EraOfMap' BY <1>1, <1>7, NoReportTyped DEF EraOfMap
<1>9. CommandStays' /\ Planned' BY <1>1, NoReportTyped DEF CommandStays, Planned, Held
<1>10. MapInForce' BY <1>1 DEF IInv, MapInForce, active_valid
<1>11. FillUnowed' BY <1>1 DEF FillUnowed
<1> QED BY <1>1, <1>2, <1>3, <1>4, <1>5, <1>6, <1>8, <1>9, <1>10, <1>11

\* A transaction that cannot commit acknowledges nothing, and what it may have
\* sent was owed under another activation.
LEMMA LastByteLost ==
    ASSUME IInv, OutputLast, ~Held
    PROVE  IInv'
<1>1. /\ state' \in {"CACHE_COPY", "CAPTURE"} /\ report' = NoReport
      /\ UNCHANGED <<up, active, spent, boot, era, race, seed_index, seed_pending>>
      /\ ~commit_allowed /\ Promised
  BY LastByteParts
<1>2. UNCHANGED <<record, state_valid, motion_live, buttons_live>>
  BY <1>1 DEF OutputLast, records
<1>3. Typed'
  BY <1>1, <1>2, LastByteParts, NoReportTyped DEF IInv, Typed, States
<1>4. RecordsOfSpentMaps' BY <1>1, <1>2 DEF IInv, RecordsOfSpentMaps, Blank
<1>5. \A l : Current(l)' <=> Current(l) BY <1>1, <1>2 DEF Current, active_valid
<1>6. SeedWalk' BY <1>1, <1>5 DEF IInv, SeedWalk, Missed, active_valid
<1>7. ASSUME active_valid
      PROVE  owed' = owed /\ asked' = asked
  <2>1. ~acknowledged BY <1>1 DEF acknowledged
  <2>2. report.era = era => report.injected = 0
    BY <1>7 DEF IInv, EraOfMap, InPhase
  <2>3. NoCommand.kind = "NONE" BY DEF NoCommand
  <2>4. owed \in [Layouts -> Int] /\ asked \in [Layouts -> Int] BY DEF IInv, Typed
  <2>5. owed' = [l \in Layouts |-> owed[l] + 0 - 0]
    BY <1>1, <2>1, <2>2, <2>3 DEF Promised
  <2>6. asked' = [l \in Layouts |-> asked[l]]
    BY <1>1, <2>1, <2>3 DEF Promised
  <2> QED BY <2>4, <2>5, <2>6
<1>8. Promises'
  <2>1. (active_valid' <=> active_valid) /\ (Foreseen' <=> Foreseen)
    BY <1>1 DEF active_valid, Foreseen
  <2>2. ASSUME Foreseen, active_valid, NEW l \in Layouts
        PROVE  MotionOf(l)' = owed'[l] /\ InRange(owed'[l]) /\ ButtonsOf(l)' = asked'[l]
    <3>1. MotionOf(l) = owed[l] /\ InRange(owed[l]) /\ ButtonsOf(l) = asked[l]
      BY <2>2 DEF IInv, Promises
    <3>2. MotionOf(l)' = MotionOf(l) /\ ButtonsOf(l)' = ButtonsOf(l)
      BY <1>2, <1>5 DEF MotionOf, ButtonsOf, AfterClick
    <3> QED BY <1>7, <2>2, <3>1, <3>2
  <2> QED BY <2>1, <2>2 DEF Promises, InRange
<1> QED BY <1>3, <1>4, <1>6, <1>8, LastByteParts DEF IInv

\* A transaction that commits acknowledges the command it read, if it read one.
LEMMA LastByteCommits ==
    ASSUME IInv, OutputLast, Held
    PROVE  IInv'
<1>1. /\ state = "OUTPUT" /\ state' \in {"CACHE_COPY", "CAPTURE"} /\ report' = NoReport
      /\ UNCHANGED <<up, active, spent, boot, era, race, seed_index, seed_pending>>
      /\ commit_allowed /\ Promised
  BY LastByteParts
<1>2. /\ report.mapped /\ active_valid /\ report.era = era
  BY DEF Held, snapshot_matches, IInv, EraOfMap
<1> PICK l \in Layouts, c \in Commands, r \in Records, injected \in Int :
      /\ l = report.layout /\ c = report.command /\ r = report.new
      /\ injected = report.injected
  BY <1>2, InHand
<1>3. /\ r.map = active
      /\ Foreseen => /\ r.motion + injected = Owing(l, c) /\ InRange(r.motion)
                     /\ Clears(c, "MOTION") => injected = 0
                     /\ AfterClick(r) = Asking(l, c)
  BY <1>1 DEF IInv, Planned
<1> DEFINE cleared == IF c.kind = "CLEAR" THEN c.clear ELSE {}
<1>4. Written(l, r, cleared) BY <1>1 DEF OutputLast
<1>5. /\ "MOTION" \in cleared <=> Clears(c, "MOTION")
      /\ "BUTTONS" \in cleared <=> Clears(c, "BUTTONS")
  BY DEF Clears
<1> HIDE DEF cleared
<1>6. r.map \in spent BY <1>2, <1>3 DEF IInv, MapInForce
<1>7. /\ record' \in [Layouts -> Records] /\ state_valid' \subseteq Layouts
      /\ motion_live' \subseteq Layouts /\ buttons_live' \subseteq Layouts
      /\ RecordsOfSpentMaps'
  BY <1>1, <1>4, <1>6, WrittenShape
<1>8. /\ Current(l)' /\ MotionOf(l)' = r.motion /\ ButtonsOf(l)' = AfterClick(r)
      /\ \A m \in Layouts \ {l} :
           /\ Current(m)' <=> Current(m)
           /\ "MOTION" \in cleared => MotionOf(m)' = 0
           /\ "MOTION" \notin cleared => MotionOf(m)' = MotionOf(m)
           /\ "BUTTONS" \in cleared => ButtonsOf(m)' = 0
           /\ "BUTTONS" \notin cleared => ButtonsOf(m)' = ButtonsOf(m)
  BY <1>1, <1>2, <1>3, <1>4, WrittenEffect
<1>9. Typed' BY <1>1, <1>7, LastByteParts, NoReportTyped DEF IInv, Typed, States
<1>10. SeedWalk'
  BY <1>1, <1>2, <1>8 DEF IInv, SeedWalk, Missed, active_valid
<1>11. ASSUME Foreseen
       PROVE  \A m \in Layouts :
                MotionOf(m)' = owed'[m] /\ InRange(owed'[m]) /\ ButtonsOf(m)' = asked'[m]
  <2>1. c # NoCommand => c = staged /\ fresh /\ (c.kind # "CLEAR" => c.layout = l)
    BY <1>11 DEF IInv, CommandStays
  <2>2. c = IF acknowledged THEN staged ELSE NoCommand
    BY <1>1, <2>1 DEF acknowledged
  <2>3. /\ owed' = [m \in Layouts |->
                      IF Clears(c, "MOTION") THEN 0
                      ELSE owed[m]
                             + (IF c.kind = "RELATIVE" /\ c.layout = m
                                     /\ InRange(owed[m] + c.value)
                                THEN c.value ELSE 0)
                             - (IF m = l THEN injected ELSE 0)]
        /\ asked' = [m \in Layouts |->
                       IF Clears(c, "BUTTONS") THEN 0
                       ELSE IF c.kind = "BUTTON" /\ c.layout = m
                                 /\ (c.hold = 0 \/ c.value = 0)
                            THEN c.value ELSE asked[m]]
    BY <1>1, <1>2, <2>2 DEF Promised, Clears
  <2>4. c.kind \in {"RELATIVE", "BUTTON"} => c.value \in Int /\ c.layout = l
    BY <2>1, CommandCases
  <2>5. /\ owed \in [Layouts -> Int] /\ asked \in [Layouts -> Int] /\ r.motion \in Int
    BY DEF IInv, Typed, Records
  <2>6. /\ r.motion + injected = Owing(l, c) /\ InRange(r.motion)
        /\ Clears(c, "MOTION") => injected = 0
        /\ AfterClick(r) = Asking(l, c)
    BY <1>3, <1>11
  <2>7. owed'[l] = r.motion /\ asked'[l] = AfterClick(r)
    <3>1. owed'[l] = Owing(l, c) - injected
      BY <2>3, <2>4, <2>5, <2>6 DEF Owing
    <3>2. Owing(l, c) \in Int BY <2>4, <2>5 DEF Owing
    <3>3. owed'[l] = r.motion BY <2>5, <2>6, <3>1, <3>2
    <3>4. asked'[l] = Asking(l, c) BY <2>3, <2>4 DEF Asking
    <3> QED BY <2>6, <3>3, <3>4
  <2>8. \A m \in Layouts \ {l} :
          /\ owed'[m] = IF Clears(c, "MOTION") THEN 0 ELSE owed[m]
          /\ asked'[m] = IF Clears(c, "BUTTONS") THEN 0 ELSE asked[m]
    BY <2>3, <2>4, <2>5
  <2>9. \A m \in Layouts : MotionOf(m) = owed[m] /\ InRange(owed[m]) /\ ButtonsOf(m) = asked[m]
    BY <1>2, <1>11 DEF IInv, Promises
  <2>10. InRange(0) BY ConstantsTyped DEF InRange
  <2>11. MotionOf(l)' = owed'[l] /\ InRange(owed'[l]) /\ ButtonsOf(l)' = asked'[l]
    BY <1>8, <2>6, <2>7
  <2>12. \A m \in Layouts \ {l} :
           MotionOf(m)' = owed'[m] /\ InRange(owed'[m]) /\ ButtonsOf(m)' = asked'[m]
    BY <1>5, <1>8, <2>8, <2>9, <2>10
  <2> QED BY <2>11, <2>12
<1>12. Promises' BY <1>1, <1>11 DEF Promises, Foreseen, InRange
<1> QED BY <1>7, <1>9, <1>10, <1>12, LastByteParts DEF IInv

-----------------------------------------------------------------------------
\* Every step keeps the invariant.
LEMMA NextStep ==
    ASSUME IInv, [Next]_vars
    PROVE  IInv'
<1>1. CASE UNCHANGED vars
  <2>1. /\ UNCHANGED <<up, active, spent, boot, era, race, staged, state, report, record>>
        /\ UNCHANGED <<state_valid, motion_live, buttons_live, seed_index, seed_pending>>
        /\ UNCHANGED <<accepted, owed, asked, outside, records, seeding>>
    BY <1>1 DEF vars, outside, records, seeding
  <2>2. OwnStep /\ state' \in States /\ report' \in Reports
    BY <2>1 DEF OwnStep, IInv, Typed
  <2>3. InPhase' /\ EraOfMap'
    BY <2>1 DEF IInv, InPhase, EraOfMap, Held, snapshot_matches, active_valid
  <2>4. SeedWalk' /\ FillUnowed'
    BY <2>1 DEF IInv, SeedWalk, Filling, FillUnowed, Foreseen, Missed, active_valid, Current
  <2>5. CommandStays'
    BY <2>1 DEF IInv, CommandStays, Foreseen, Held, fresh, active_valid, snapshot_matches
  <2>6. Planned'
    BY <2>1 DEF IInv, Planned, Foreseen, Held, active_valid, snapshot_matches, Owing, Asking,
                Clears, AfterClick, InRange
  <2> QED BY <2>2, <2>3, <2>4, <2>5, <2>6, OwnStepKeeps DEF IInv
<1>2. CASE Surroundings
  BY <1>2, StageCommandStep, InvalidateStep, RestoreStep, ActivateStep, ProtocolChangesStep
     DEF Surroundings
<1>3. CASE DropStale BY <1>3, DropStaleStep
<1>4. CASE \E l \in Layouts, physical \in {0, Clamp} : Capture(l, physical)
  BY <1>4, CaptureStep
<1>5. CASE Scan BY <1>5, ScanStep
<1>6. CASE SeedNext BY <1>6, SeedNextStep
<1>7. CASE Work
  BY <1>7, QueryStep, QueryResultStep, PrepareStep, MutateStep, AbortMutationStep,
     SeedFillStep, OutputLostStep, CacheCopyStep
     DEF Work
<1>8. CASE OutputByte BY <1>8, OutputByteStep
<1>9. CASE OutputLast BY <1>9, LastByteLost, LastByteCommits
<1> QED BY <1>1, <1>2, <1>3, <1>4, <1>5, <1>6, <1>7, <1>8, <1>9 DEF Next

\* The engine's transactions are sound: a transaction in hand is of the map in
\* force exactly as long as its activation is the last; it holds the command the
\* plane still offers, and its record and report together are what is owed, until
\* an endpoint changes protocol under a report with a command for it; and the walk
\* leaves out one layout at most, if the map was activated in mid-fill.
THEOREM EngineInvariant == Spec => []IInv
<1>1. Init => IInv BY InitStep
<1>2. IInv /\ [Next]_vars => IInv' BY NextStep
<1> QED BY <1>1, <1>2, PTL DEF Spec

\* Of the map that is active, every layout's record holds the motion that was
\* acknowledged and has not gone out, and a click ends in the buttons held before
\* it: no transaction given up, lost, overflowed or cleared from another layout adds
\* to it or takes from it.  So long as no endpoint has changed protocol, under the
\* same map, while a report was in hand with a command for it.
THEOREM RecordsAsPromisedTheorem == Spec => []RecordsAsPromised
<1>1. IInv => RecordsAsPromised
  <2> SUFFICES ASSUME IInv, Foreseen, active_valid, NEW l \in Layouts
               PROVE  /\ Captured(l).motion = owed[l] /\ InRange(owed[l])
                      /\ AfterClick(Captured(l)) = asked[l]
    BY DEF RecordsAsPromised, MotionConserved, ClickReturns, AfterClick, Foreseen
  <2>1. Captured(l).motion = MotionOf(l) /\ AfterClick(Captured(l)) = ButtonsOf(l)
    BY CapturedFields DEF IInv
  <2> QED BY <2>1 DEF IInv, Promises
<1> QED BY <1>1, EngineInvariant, PTL

\* The walk leaves no layout without its record, but the first one where the map was
\* activated while a template was being filled.
THEOREM SeedsEveryLayoutTheorem == Spec => []SeedsEveryLayout
<1>1. IInv => SeedsEveryLayout BY DEF IInv, SeedWalk, SeedsEveryLayout
<1> QED BY <1>1, EngineInvariant, PTL
=============================================================================
