--------------------------- MODULE InjectionEngine ---------------------------
(***************************************************************************)
(* The transactional report engine (injection.py): it takes a native       *)
(* report, or the cached template of a still device, merges what the       *)
(* staged command and the layout's record ask for into it, and commits the *)
(* record and acknowledges the command with the last byte handed on.       *)
(*                                                                         *)
(* A report has one motion field and one button field.  MASK and ABSOLUTE  *)
(* are one kind, SET: they only replace a value and differ from BUTTON in  *)
(* no decision.  A step is one state of the code's FSM, or a run of states *)
(* in which only the next byte, entry or scan slot differs: the map may be *)
(* lost or replaced, and a command staged, between any two steps.          *)
(***************************************************************************)
EXTENDS Integers, FiniteSetsExt

CONSTANTS
  LayoutCount,   \* layouts a map declares, each on an endpoint of its own
  Clamp,         \* the motion field holds -Clamp..Clamp
  MaxResidual,   \* 2^31 - 1 in the code
  CommandSet,    \* the commands the MCU may send
  BootEndpoints, \* layouts whose endpoint may change to boot protocol
  Generations,   \* map generations; one comes round again only after a loss
  NativeOnly,    \* those whose map lets no report be made for a still device
  \* bounds on what the surroundings do
  MaxMaps, MaxLosses, MaxReports, MaxCommands, MaxChanges

Layouts == 1..LayoutCount

ASSUME EngineAssumption ==
  /\ LayoutCount \in Nat \ {0}
  /\ Clamp \in Nat \ {0} /\ MaxResidual \in Nat
  /\ BootEndpoints \subseteq Layouts
  /\ CommandSet \subseteq [kind : {"RELATIVE", "BUTTON", "SET", "CLEAR"}, layout : Layouts,
                           value : Int, hold : Nat, clear : SUBSET {"MOTION", "BUTTONS"}]
  /\ {MaxMaps, MaxLosses, MaxReports, MaxCommands, MaxChanges} \subseteq Nat
  /\ NativeOnly \subseteq Generations /\ Generations \subseteq Nat \ {0}

NoCommand == [kind |-> "NONE"]
NoRecord == [map |-> 0, motion |-> 0, buttons |-> 0, click |-> FALSE, due |-> 0, restore |-> 0]
NoReport ==
  [layout |-> 0, physical |-> 0, boot |-> FALSE, mapped |-> FALSE, stationary |-> FALSE,
   suppressed |-> FALSE, started |-> FALSE, invalidated |-> FALSE, map |-> 0, era |-> 0,
   command |-> NoCommand, overflow |-> FALSE, injected |-> 0, new |-> NoRecord]

VARIABLES
  up,            \* ~store.invalidate: link and session are up
  active,        \* generation of the store's active map, 0 if none is valid
  boot,          \* boot_protocol
  staged,        \* the command the plane offers, and the era it was staged in
  state,         \* the FSM's
  report,        \* the transaction in hand
  record,        \* state_memory
  state_valid, motion_live, buttons_live,
  seed_pending, seed_index, deferred_sof,
  accepted,      \* accepted_report_count
  count,         \* how much of each bound is used
  \* kept by nobody in the code
  spent,         \* generations activated since the last loss: 65535 uploads pass
                 \* before one comes round without a loss
  era,           \* activations so far
  race,          \* what befell the map in force that the code does not foresee: "fill",
                 \* its activation fell into the filling of a template; "protocol", an
                 \* endpoint changed protocol under a report with a command for it
  owed,          \* layout -> motion acknowledged and not yet handed on
  asked          \* layout -> buttons the last acknowledged command holds for good

records == <<record, state_valid, motion_live, buttons_live>>
seeding == <<seed_pending, seed_index>>
promises == <<era, race, owed, asked>>
outside == <<up, active, spent, boot, era, race>>
vars == <<outside, staged, state, report, records, seeding, deferred_sof, accepted, count,
          owed, asked>>

Init ==
  /\ up = TRUE /\ active = 0 /\ spent = {} /\ boot = {}
  /\ staged = NoCommand
  /\ state = "CAPTURE" /\ report = NoReport
  /\ record = [l \in Layouts |-> NoRecord]
  /\ state_valid = {} /\ motion_live = {} /\ buttons_live = {}
  /\ seed_pending = FALSE /\ seed_index = 1 /\ deferred_sof = FALSE
  /\ accepted = 0
  /\ count = [losses |-> 0, reports |-> 0, commands |-> 0, changes |-> 0]
  /\ era = 0 /\ race = {} /\ owed = [l \in Layouts |-> 0] /\ asked = [l \in Layouts |-> 0]

-----------------------------------------------------------------------------
\* command_fresh: the command cites the map that is active, and its endpoint is
\* not in boot protocol; CLEAR names none.
fresh ==
  /\ staged # NoCommand
  /\ active # 0 /\ staged.era = era
  /\ staged.kind = "CLEAR" \/ staged.layout \notin boot

active_valid == active # 0
active_native_only == active \in NativeOnly
snapshot_matches == active_valid /\ active = report.map

\* state_record_matches of the active map.
Current(l) == l \in state_valid /\ active_valid /\ record[l].map = active

\* What a record says once its live bits are taken into account.
Captured(l) ==
  LET r == record[l] IN
  IF ~Current(l) THEN [NoRecord EXCEPT !.map = active]
  ELSE [map |-> r.map,
        motion |-> IF l \in motion_live THEN r.motion ELSE 0,
        buttons |-> IF l \in buttons_live THEN r.buttons ELSE 0,
        click |-> l \in buttons_live /\ r.click,
        due |-> IF l \in buttons_live THEN r.due ELSE 0,
        restore |-> IF l \in buttons_live THEN r.restore ELSE 0]

InRange(x) == x \in -(MaxResidual + 1) .. MaxResidual

-----------------------------------------------------------------------------
\* The plane, the map store and the device.

\* The one-deep queue holds a command until it is acknowledged or not fresh.
StageCommand ==
  /\ staged = NoCommand /\ active_valid /\ up
  /\ count.commands < MaxCommands
  /\ \E c \in CommandSet :
       staged' = [kind |-> c.kind, layout |-> c.layout, value |-> c.value, hold |-> c.hold,
                  clear |-> c.clear, era |-> era]
  /\ count' = [count EXCEPT !.commands = @ + 1]
  /\ UNCHANGED <<outside, state, report, records, seeding, deferred_sof, accepted, owed, asked>>

DropStale ==
  /\ staged # NoCommand
  /\ ~fresh
  /\ staged' = NoCommand
  /\ UNCHANGED <<outside, state, report, records, seeding, deferred_sof, accepted, count,
                 owed, asked>>

Forgotten ==
  /\ state_valid' = {} /\ motion_live' = {} /\ buttons_live' = {}
  /\ seed_pending' = FALSE

\* The link or the session is lost: the plane drops what it staged, the store
\* its map, the engine its records, whatever the FSM is doing.
Invalidate ==
  /\ up
  /\ count.losses < MaxLosses
  /\ up' = FALSE
  /\ active' = 0 /\ spent' = {}
  /\ staged' = NoCommand
  /\ Forgotten
  /\ count' = [count EXCEPT !.losses = @ + 1]
  /\ UNCHANGED <<boot, state, report, record, seed_index, deferred_sof, accepted, promises>>

Restore ==
  /\ ~up
  /\ up' = TRUE
  /\ UNCHANGED <<active, spent, boot, staged, state, report, records, seeding, deferred_sof,
                 accepted, count, promises>>

\* An upload takes several slots of 125 us: the engine has seen the loss of one
\* map before the next is active, wherever it does not wait for others.
LossSeen ==
  \/ snapshot_matches
  \/ state \in {"CAPTURE", "CAPTURE_REST", "CACHE_COPY"}
  \/ state = "OUTPUT" /\ (report.mapped => report.invalidated)

\* store.activated: the walk that seeds the records starts again, and if a template
\* is being filled goes on behind its first layout.
Activate ==
  /\ up
  /\ era < MaxMaps
  /\ IF state = "SEED_FILL" THEN active_valid ELSE LossSeen
  /\ active' \in Generations \ spent
  /\ spent' = spent \union {active'}
  /\ era' = era + 1
  /\ race' = IF state = "SEED_FILL" THEN {"fill"} ELSE {}
  /\ owed' = [l \in Layouts |-> 0] /\ asked' = [l \in Layouts |-> 0]
  /\ seed_pending' = TRUE /\ seed_index' = 1
  /\ UNCHANGED <<up, boot, staged, state, report, records, deferred_sof, accepted, count>>

\* Boot protocol makes a command for the endpoint stale, also one that the report
\* in hand has read; a CLEAR names no endpoint.
ProtocolChanges ==
  /\ count.changes < MaxChanges
  /\ count' = [count EXCEPT !.changes = @ + 1]
  /\ \E l \in BootEndpoints :
       /\ boot' = IF l \in boot THEN boot \ {l} ELSE boot \union {l}
       /\ race' = IF report.layout = l /\ report.command.kind \notin {"NONE", "CLEAR"}
                  THEN race \union {"protocol"} ELSE race
  /\ UNCHANGED <<up, active, spent, era, staged, state, report, records, seeding, deferred_sof,
                 accepted, owed, asked>>

Surroundings == StageCommand \/ Invalidate \/ Restore \/ Activate \/ ProtocolChanges

-----------------------------------------------------------------------------
\* CAPTURE: a report first, then a frame's scan, then the walk of the layouts.

Capture(l, physical) ==
  /\ state = "CAPTURE"
  /\ count.reports < MaxReports
  /\ count' = [count EXCEPT !.reports = @ + 1]
  /\ report' = [NoReport EXCEPT !.layout = l, !.physical = physical, !.boot = l \in boot]
  /\ state' = "CAPTURE_REST"
  /\ UNCHANGED <<outside, staged, records, seeding, deferred_sof, accepted, owed, asked>>

\* The last byte is in: a boot-layout report is passed on, for another the map
\* is asked.
Query ==
  /\ state = "CAPTURE_REST"
  /\ IF report.boot
     THEN state' = "OUTPUT" /\ report' = report
     ELSE state' = "QUERY" /\ report' = [report EXCEPT !.map = active]
  /\ UNCHANGED <<outside, staged, records, seeding, deferred_sof, accepted, count, owed, asked>>

\* The directory has the layout, or has it not.
QueryResult ==
  /\ state = "QUERY"
  /\ \/ snapshot_matches
        /\ state' = "PREPARE" /\ report' = [report EXCEPT !.mapped = TRUE, !.era = era]
     \/ state' = "OUTPUT" /\ report' = report
  /\ UNCHANGED <<outside, staged, records, seeding, deferred_sof, accepted, count, owed, asked>>

\* Mutant: a command that changes nothing needs no report.
command_pending_changing(l) ==
  /\ fresh /\ staged.kind # "CLEAR" /\ staged.layout = l
  /\ staged.kind # "RELATIVE" => staged.value # Captured(l).buttons

\* scan_*_pending; CLEAR is global and waits for a report.
motion_pending(l) == Captured(l).motion # 0 /\ ~active_native_only
command_pending(l) == fresh /\ staged.kind # "CLEAR" /\ staged.layout = l
click_pending(l) == Captured(l).click /\ accepted >= Captured(l).due

scan_pending(l) ==
  /\ l \notin boot
  /\ Current(l)
  /\ motion_pending(l) \/ command_pending(l) \/ click_pending(l)

scan_possible == active_valid /\ state_valid # {}

\* A frame begins, or began unseen: the first layout with work gets a report of
\* its own, from the template.
Scan ==
  /\ state = "CAPTURE"
  /\ scan_possible
  /\ deferred_sof' = FALSE
  /\ LET pending == {l \in Layouts : scan_pending(l)} IN
     IF pending = {} THEN UNCHANGED <<state, report>>
     ELSE /\ state' = "PREPARE"
          /\ report' = [NoReport EXCEPT !.layout = Min(pending), !.mapped = TRUE,
                          !.stationary = TRUE, !.suppressed = active_native_only,
                          !.map = active, !.era = era]
  /\ UNCHANGED <<outside, staged, records, seeding, accepted, count, owed, asked>>

\* The next layout of the walk; SEED_CHECK keeps a record that is current.
SeedNext ==
  /\ state = "CAPTURE"
  /\ seed_pending
  /\ ~(deferred_sof /\ scan_possible)
  /\ IF ~active_valid \/ seed_index > LayoutCount
     THEN seed_pending' = FALSE /\ UNCHANGED <<state, report, seed_index, deferred_sof>>
     ELSE /\ deferred_sof' = TRUE
          /\ seed_pending' = TRUE
          /\ IF Current(seed_index)
             THEN seed_index' = seed_index + 1 /\ UNCHANGED <<state, report>>
             ELSE /\ state' = "SEED_FILL"
                  /\ report' = [NoReport EXCEPT !.layout = seed_index, !.map = active]
                  /\ UNCHANGED seed_index
  /\ UNCHANGED <<outside, staged, records, accepted, count, owed, asked>>

\* The layout's record and live bits, which an invalidation in force overrides.
Written(l, r, cleared) ==
  /\ record' = [record EXCEPT ![l] = r]
  /\ state_valid' = IF up THEN state_valid \union {l} ELSE {}
  /\ motion_live' = IF ~up THEN {} ELSE (IF "MOTION" \in cleared THEN {} ELSE motion_live) \union {l}
  /\ buttons_live' =
       IF ~up THEN {} ELSE (IF "BUTTONS" \in cleared THEN {} ELSE buttons_live) \union {l}

\* The last byte of the template is filled: a zero record.
SeedFill ==
  /\ state = "SEED_FILL"
  /\ Written(report.layout, [NoRecord EXCEPT !.map = report.map], {})
  /\ seed_index' = seed_index + 1
  /\ state' = "CACHE_COPY"
  /\ report' = NoReport
  /\ UNCHANGED <<outside, staged, seed_pending, deferred_sof, accepted, count, owed, asked>>

-----------------------------------------------------------------------------
\* relative_targets_report and the others; CLEAR is for every layout.
targets == fresh /\ (staged.kind = "CLEAR" \/ staged.layout = report.layout)

\* The record the transaction will write, but for the motion that goes out.
Prepared(c, r, overflow) ==
  LET cleared == IF c.kind = "CLEAR" THEN c.clear ELSE {}
      button == c.kind = "BUTTON"
      released == r.click /\ accepted >= r.due
  IN [map |-> r.map,
      motion |-> IF "MOTION" \in cleared THEN 0
                 ELSE IF c.kind = "RELATIVE" /\ ~overflow THEN r.motion + c.value ELSE r.motion,
      buttons |-> IF button THEN c.value
                  ELSE IF "BUTTONS" \in cleared THEN 0
                  ELSE IF released THEN r.restore ELSE r.buttons,
      click |-> IF button THEN c.hold # 0 /\ c.value # 0
                ELSE r.click /\ ~released /\ "BUTTONS" \notin cleared,
      due |-> IF button THEN accepted + c.hold ELSE r.due,
      restore |-> IF button /\ ~r.click THEN r.buttons ELSE r.restore]

\* BASE_CAPTURE, PREPARE: the record and the command are read together; a
\* suppressed transaction goes on at once.
Prepare ==
  /\ state = "PREPARE"
  /\ IF ~snapshot_matches THEN state' = "ABORT_MUTATION" /\ report' = report
     ELSE LET c == IF targets THEN staged ELSE NoCommand
              r == Captured(report.layout)
              overflow == c.kind = "RELATIVE" /\ ~InRange(r.motion + c.value)
          IN /\ report' = [report EXCEPT !.command = c, !.overflow = overflow,
                                         !.new = Prepared(c, r, overflow)]
             /\ state' = IF report.suppressed THEN "OUTPUT" ELSE "MUTATE"
  /\ UNCHANGED <<outside, staged, records, seeding, deferred_sof, accepted, count, owed, asked>>

\* CALCULATE_FIELD, COMMIT_FIELD: the sum is clamped, the rest stays.
Clamped(total) == IF total < -Clamp THEN -Clamp ELSE IF total > Clamp THEN Clamp ELSE total

Mutate ==
  /\ state = "MUTATE"
  /\ IF ~snapshot_matches THEN state' = "ABORT_MUTATION" /\ report' = report
     ELSE LET total == report.physical + report.new.motion IN
          /\ report' = [report EXCEPT !.injected = Clamped(total) - report.physical,
                                      !.new.motion = total - Clamped(total)]
          /\ state' = "OUTPUT"
  /\ UNCHANGED <<outside, staged, records, seeding, deferred_sof, accepted, count, owed, asked>>

\* A template's transaction is given up; a native report goes out unchanged.
AbortMutation ==
  /\ state = "ABORT_MUTATION"
  /\ IF report.stationary THEN state' = "CAPTURE" /\ report' = NoReport
     ELSE /\ state' = "OUTPUT"
          /\ report' = [NoReport EXCEPT !.layout = report.layout, !.physical = report.physical]
  /\ UNCHANGED <<outside, staged, records, seeding, deferred_sof, accepted, count, owed, asked>>

-----------------------------------------------------------------------------
\* OUTPUT_PRIME, OUTPUT
snapshot_lost == report.mapped /\ ~snapshot_matches

\* Before the first byte the report can still be given up; behind it, it only
\* commits nothing.
OutputLost ==
  /\ state = "OUTPUT"
  /\ snapshot_lost
  /\ ~report.invalidated
  /\ report' = [report EXCEPT !.invalidated = TRUE]
  /\ state' = IF report.started THEN "OUTPUT" ELSE "ABORT_MUTATION"
  /\ UNCHANGED <<outside, staged, records, seeding, deferred_sof, accepted, count, owed, asked>>

output_accept == state = "OUTPUT" /\ ~(snapshot_lost /\ ~report.started)

\* The first byte of a longer report.
OutputByte ==
  /\ output_accept
  /\ ~report.started
  /\ report' = [report EXCEPT !.started = TRUE]
  /\ UNCHANGED <<outside, staged, state, records, seeding, deferred_sof, accepted, count,
                 owed, asked>>

\* Mutant: a report once begun commits whatever happened to its map.
commit_allowed_once_started == report.mapped

commit_allowed == report.mapped /\ ~report.invalidated /\ ~snapshot_lost

\* *_ready of the kind the plane offers at that moment.
acknowledged ==
  commit_allowed /\ report.command # NoCommand /\ fresh /\ staged.kind = report.command.kind

\* What the MCU may count on when its command leaves the queue, and what the
\* computer was handed with the report.
Promised ==
  LET c == IF acknowledged THEN staged ELSE NoCommand
      out == [l \in Layouts |->
                IF l = report.layout /\ report.era = era THEN report.injected ELSE 0]
      in == [l \in Layouts |->
               IF c.kind = "RELATIVE" /\ c.layout = l /\ InRange(owed[l] + c.value)
               THEN c.value ELSE 0]
  IN /\ owed' = [l \in Layouts |->
                   IF c.kind = "CLEAR" /\ "MOTION" \in c.clear THEN 0
                   ELSE owed[l] + in[l] - out[l]]
     /\ asked' = [l \in Layouts |->
                    IF c.kind = "CLEAR" /\ "BUTTONS" \in c.clear THEN 0
                    ELSE IF c.kind = "BUTTON" /\ c.layout = l /\ (c.hold = 0 \/ c.value = 0)
                         THEN c.value ELSE asked[l]]
     /\ staged' = IF acknowledged THEN NoCommand ELSE staged

OutputLast ==
  /\ output_accept
  /\ Promised
  /\ accepted' = IF report.suppressed THEN accepted ELSE accepted + 1
  /\ IF commit_allowed
     THEN Written(report.layout, report.new,
                  IF report.command.kind = "CLEAR" THEN report.command.clear ELSE {})
     ELSE UNCHANGED records
  /\ state' = IF commit_allowed /\ ~report.stationary THEN "CACHE_COPY" ELSE "CAPTURE"
  /\ report' = NoReport
  /\ UNCHANGED <<outside, seeding, deferred_sof, count>>

\* The native report becomes the template; a frame that begins is noted.
CacheCopy ==
  /\ state = "CACHE_COPY"
  /\ state' = "CAPTURE"
  /\ deferred_sof' \in {deferred_sof, TRUE}
  /\ UNCHANGED <<outside, staged, report, records, seeding, accepted, count, owed, asked>>

-----------------------------------------------------------------------------
\* What the engine does by itself, and what it does when a byte is taken.
Work == \/ Query \/ QueryResult \/ Prepare \/ Mutate \/ AbortMutation
        \/ SeedFill \/ OutputLost \/ CacheCopy

Next ==
  \/ Surroundings
  \/ DropStale
  \/ \E l \in Layouts, physical \in {0, Clamp} : Capture(l, physical)
  \/ Scan
  \/ SeedNext
  \/ Work
  \/ OutputByte
  \/ OutputLast

Spec == Init /\ [][Next]_vars

\* The engine runs every cycle and the plane drops at once; the computer goes
\* on reading; frames go on beginning; the walk goes on between two frames,
\* which are at least 7500 cycles apart.
Fairness ==
  /\ WF_vars(Work) /\ WF_vars(DropStale) /\ WF_vars(OutputLast)
  /\ WF_vars(Scan) /\ SF_vars(SeedNext)

FairSpec == Spec /\ Fairness

-----------------------------------------------------------------------------
\* Of the map that is active, a layout's record holds the motion that was
\* acknowledged and has not gone out in a report, no more and no less, whatever
\* transactions were given up, went out after their map was lost, met a command
\* staged meanwhile, overflowed or were cleared from another layout.
MotionConserved ==
  active_valid => \A l \in Layouts : Captured(l).motion = owed[l] /\ InRange(owed[l])

\* A click ends in the buttons held before it, also when a second click, a
\* CLEAR or a plain press comes while it is held: never in a click's own button.
ClickReturns ==
  active_valid => \A l \in Layouts :
    LET r == Captured(l) IN (IF r.click THEN r.restore ELSE r.buttons) = asked[l]

\* Both, as long as no endpoint has changed protocol under a report with a command
\* for it: the plane then drops the command that the report still commits, and
\* another of its kind, for whichever layout, may be acknowledged in its place.
RecordsAsPromised == "protocol" \notin race => MotionConserved /\ ClickReturns

\* What the walk leaves out when the map was activated in mid-fill: the first layout,
\* as the fill's end moves the index that the activation has just set back.
Missed(l) == "fill" \in race /\ l = 1

\* A command leaves the one-deep queue, acknowledged or dropped, though the
\* device never moves; but a CLEAR, which waits for a report, and a command for
\* the layout that the walk left out.
CommandsServed ==
  (staged # NoCommand /\ staged.kind # "CLEAR")
    ~> staged = NoCommand \/ Missed(staged.layout)

\* When the walk is over every layout has its record ("a map activated mid-walk
\* restarts it from slot 0", injection.py, after the FSM), but for that one.
SeedsEveryLayout ==
  active_valid /\ ~seed_pending => \A l \in Layouts : Current(l) \/ Missed(l)
=============================================================================
