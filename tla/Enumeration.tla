----------------------------- MODULE Enumeration -----------------------------
(***************************************************************************)
(* The enumerator between its neighbours: the control-transfer engine, the  *)
(* descriptor store it captures into, devices that come and go, and the    *)
(* clone that shows the store to the PC while the host is READY.            *)
(*                                                                         *)
(* The engine and the store keep what the enumerator sees of them: a       *)
(* transfer's phases and result, the capture under way and what is kept.   *)
(* seen is the sequence of the devices plugged in so far; device.n is the  *)
(* one that is plugged in, 0 for none.                                     *)
(***************************************************************************)
EXTENDS Enumerator

CONSTANTS
    Profiles,        \* devices: speed, string indexes, interface of each endpoint
    MaxPlugs,        \* bound: devices plugged in
    MaxFaults        \* bound: wrong or lost answers, a full store, failing polls

VARIABLES
    seen,            \* the devices plugged in so far
    faults,          \* faults so far
    copy_rearm_armed \* the clone's: the store has not changed since READY

vars == <<enumeratorVars, engine, store, device, unresponsive, seen, faults, copy_rearm_armed>>

ASSUME EnumerationAssumption ==
    /\ MaxPlugs \in Nat /\ MaxFaults \in Nat
    /\ \A p \in Profiles :
          /\ p.speed \in {"low", "full", "high"} /\ p.strings \in [1..3 -> Nat]
          /\ p.interfaces \in Seq(Nat) /\ p.interfaces # <<>>

NoProfile == [speed |-> "full", strings |-> <<0, 0, 0>>, interfaces |-> <<>>]
NoDevice == [n |-> 0, address |-> 0, chirp |-> "no", pairs |-> 0, high_speed |-> FALSE,
             reset |-> FALSE]
IdleEngine == [phase |-> "idle", kind |-> "none", to |-> 0, left |-> 0, flaw |-> "none",
               n |-> 0, source |-> NoProfile, done |-> "none"]
NoStore == [active |-> FALSE, allocated |-> FALSE, overflow |-> FALSE,
            key |-> NoKey, n |-> 0, units |-> 0, kept |-> {}]

Init ==
    /\ fsm = "POWER_OFF" /\ session = NoSession /\ count = NoCount
    /\ parse = NoParse /\ strobe = NoStrobe
    /\ engine = IdleEngine /\ store = NoStore
    /\ device = NoDevice /\ seen = <<>> /\ unresponsive = FALSE
    /\ faults = 0 /\ copy_rearm_armed = TRUE

-----------------------------------------------------------------------------
\* The device on the line.
profile == IF device.n = 0 THEN NoProfile ELSE seen[device.n]

answers(address) ==
    /\ device.n # 0 /\ device.address = address
    /\ device.high_speed = session.high_speed /\ ~reset_active

\* A SOF of the host drives the line off idle for less than a frame.
glitch == IF fsm = "RESET_RECOVERY" /\ count.nonj = 0 THEN {TRUE, FALSE} ELSE {FALSE}

lines ==
    IF device.n = 0 THEN {"SE0"}
    ELSE IF reset_active THEN {IF device.chirp = "K" THEN "K" ELSE "SE0"}
    ELSE IF profile.speed = "low" THEN {"K"}
    ELSE {IF device.high_speed = g THEN "J" ELSE "SE0" : g \in glitch}

\* At high speed the PHY may or may not see that no high-speed device is there
\* (host_disconnect "did not assert on unplug"); a device at high speed it sees.
buses ==
    [line : lines,
     host_disconnect : IF session.high_speed /\ ~device.high_speed THEN BOOLEAN ELSE {FALSE}]

NewDevice(n) == [NoDevice EXCEPT !.n = n]

\* Under a reset the device goes back to address 0 and to full speed; one that
\* knows high speed may chirp, once, and then counts the host's pairs.  d.reset:
\* it has been there since the reset began.
UnderReset(d, chirps) ==
    LET paired == fsm = "CHIRP_DRIVE_J" /\ drive_ended /\ d.chirp = "done"
                  /\ d.pairs < HOST_CHIRP_PAIRS
        pairs == IF paired THEN d.pairs + 1 ELSE d.pairs
        begins == fsm = "BUS_RESET" /\ count.reset = 0
    IN  [d EXCEPT !.reset = @ \/ begins, !.address = 0, !.pairs = pairs, !.high_speed = pairs = HOST_CHIRP_PAIRS,
                  !.chirp = IF ~chirps THEN @ ELSE IF @ = "no" THEN "K" ELSE "done"]

\* Without traffic a device gives up high speed (within 3 ms, and WAIT_ATTACH
\* takes 100).
AtRest(d) ==
    [d EXCEPT !.chirp = "no", !.pairs = 0, !.high_speed = @ /\ fsm # "WAIT_ATTACH",
              !.reset = @ /\ fsm # "WAIT_ATTACH"]

\* SET_ADDRESS takes effect with its status stage, whether the host sees it or not.
Addressed(d) ==
    IF engine.phase = "status" /\ engine.kind = "SET_ADDRESS_WAIT" /\ answers(engine.to)
       /\ engine.n = d.n /\ session.connected
    THEN [d EXCEPT !.address = 1] ELSE d

DeviceStep(event, chirps) ==
    /\ device' = IF event.kind = "unplug" THEN NoDevice
                 ELSE IF event.kind = "plug" THEN NewDevice(Len(seen) + 1)
                 ELSE IF device.n = 0 THEN NoDevice
                 ELSE IF reset_active THEN UnderReset(device, chirps)
                 ELSE Addressed(AtRest(device))
    /\ seen' = IF event.kind = "plug" THEN Append(seen, event.profile) ELSE seen

NoEvent == [kind |-> "none", profile |-> NoProfile]
Events ==
    {NoEvent} \cup (IF device.n # 0 THEN {[NoEvent EXCEPT !.kind = "unplug"]}
                    ELSE IF Len(seen) < MaxPlugs THEN [kind : {"plug"}, profile : Profiles]
                    ELSE {})

Chirps ==
    IF reset_active /\ profile.speed = "high" /\ device.chirp \in {"no", "K"}
       /\ fsm \notin {"CHIRP_DRIVE_K", "CHIRP_DRIVE_J"}
    THEN BOOLEAN ELSE {FALSE}

-----------------------------------------------------------------------------
\* The control-transfer engine.
Flaws == [
    GET8_WAIT |-> {"short", "header"},
    SET_ADDRESS_WAIT |-> {},
    DEVICE_WAIT |-> {"short", "header", "malformed", "unsupported"},
    CONFIG_HEADER_WAIT |-> {"short", "header", "malformed", "unsupported"},
    CONFIG_WAIT |-> {"short", "malformed", "oversized", "unsupported"},
    LANGUAGE_WAIT |-> {"short", "header"},
    STRING_WAIT |-> {"short", "header"},
    SET_CONFIGURATION_WAIT |-> {},
    REPORT_WAIT |-> {"short"},
    relay |-> {}]

Asked(kind) == IF kind \in Waits THEN Units[kind] ELSE 1

Finished(status) == [IdleEngine EXCEPT !.done = status]

\* `outcome`: what becomes of the transfer in this cycle, if it is undecided.
EngineStep(outcome, relayed, bus) ==
    engine' =
        CASE engine.phase = "idle" ->
                IF ~(sending(bus) \/ relayed) THEN IdleEngine
                ELSE IF ~session.connected THEN Finished("DISCONNECTED")
                ELSE [IdleEngine EXCEPT
                        !.phase = "setup", !.kind = IF relayed THEN "relay" ELSE Starts[fsm],
                        !.to = IF relayed THEN session.address ELSE target_address]
          [] engine.phase # "idle" /\ ~session.connected -> Finished("DISCONNECTED")
          [] engine.phase = "setup" /\ session.connected ->
                IF outcome = "hold" THEN engine
                ELSE IF outcome = "lost" THEN Finished("TIMEOUT")
                ELSE LET units == IF outcome = "short" THEN Asked(engine.kind) - 1
                                  ELSE Asked(engine.kind)
                     IN  [engine EXCEPT
                            !.phase = IF units = 0 THEN "status" ELSE "data", !.left = units,
                            !.flaw = outcome, !.n = device.n, !.source = profile]
          [] engine.phase = "data" /\ session.connected ->
                IF ~data_ready THEN engine
                ELSE [engine EXCEPT !.left = @ - 1,
                                    !.phase = IF engine.left = 1 THEN "status" ELSE @]
          [] engine.phase = "status" /\ session.connected ->
                Finished(IF outcome = "lost" THEN "TIMEOUT" ELSE "SUCCESS")

\* A transfer ends well only with the device it began with.
Outcomes ==
    IF ~session.connected \/ engine.phase \in {"idle", "data"} THEN {"none"}
    ELSE IF engine.phase = "setup"
    THEN {"hold"} \cup (IF answers(engine.to) THEN {"none", "lost"} \cup Flaws[engine.kind]
                        ELSE {"lost"})
    ELSE IF answers(engine.to) /\ device.n = engine.n THEN {"none", "lost"} ELSE {"lost"}

OutcomeIsFault(outcome) ==
    outcome \notin {"none", "hold"} /\ (outcome = "lost" => answers(engine.to) /\ engine.n \in {0, device.n})

-----------------------------------------------------------------------------
\* The store's capture side (DescriptorStore has it cycle by cycle).
unit_offered == engine.phase = "data" /\ fsm \in Captures

\* A commit that is not refused replaces the entry of its key.
Kept ==
    IF store.allocated /\ ~store.overflow
    THEN {e \in store.kept : e.key # store.key}
         \cup {[key |-> store.key, n |-> store.n, units |-> store.units]}
    ELSE store.kept

\* Mutant: the clear is not registered on its way to the store.
clear_at_once == strobe'.clear

clear == strobe.clear

StoreStep(full) ==
    store' =
        IF clear THEN NoStore
        ELSE IF ~store.active THEN
             IF strobe.start = NoKey THEN store
             ELSE [NoStore EXCEPT !.active = TRUE, !.key = strobe.start, !.kept = store.kept]
        ELSE IF strobe.abort THEN [NoStore EXCEPT !.kept = store.kept]
        ELSE IF strobe.commit THEN [NoStore EXCEPT !.kept = Kept]
        ELSE IF store.allocated /\ ~store.overflow /\ unit_offered THEN
             IF full THEN [store EXCEPT !.overflow = TRUE]
             ELSE [store EXCEPT !.units = @ + 1, !.n = engine.n]
        ELSE [store EXCEPT !.allocated = TRUE]

-----------------------------------------------------------------------------
\* The clone (device.py).
source_mutating == strobe.clear \/ strobe.start # NoKey \/ store.active
enumerated == session.ready /\ ~unresponsive
clone_connected == enumerated /\ copy_rearm_armed /\ ~source_mutating

CloneStep ==
    copy_rearm_armed' = (~enumerated \/ (copy_rearm_armed /\ ~source_mutating))

\* The pollers: three polls that nothing answered, until `connected` drops.
PollersStep(failing) ==
    unresponsive' = (session.connected /\ (unresponsive \/ failing))

Cycle(bus, event, chirps, outcome, relayed, full, failing) ==
    /\ EnumeratorStep(bus)
    /\ EngineStep(outcome, relayed, bus)
    /\ StoreStep(full)
    /\ DeviceStep(event, chirps)
    /\ PollersStep(failing)
    /\ CloneStep

\* The faults of a cycle, of which there is at most one.
FaultOf(outcome, full, failing) ==
    OutcomeIsFault(outcome) \/ full \/ (failing /\ answers(session.address))

Steps(events, relays) ==
    \E bus \in buses, event \in events, chirps \in Chirps, outcome \in Outcomes,
       relayed \in relays, full \in {FALSE, unit_offered /\ store.allocated},
       failing \in {FALSE, session.ready} :
        /\ FaultOf(outcome, full, failing) => faults < MaxFaults
        /\ faults' = IF FaultOf(outcome, full, failing) THEN faults + 1 ELSE faults
        /\ Cycle(bus, event, chirps, outcome, relayed, full, failing)

Next == Steps(Events, {FALSE, session.ready /\ engine.phase = "idle"})

Spec == Init /\ [][Next]_vars

\* The clock runs, whatever the PC's requests and the user's plugs.
ClockRuns == []<>~ENABLED <<Steps({NoEvent}, {FALSE})>>_vars \/ []<><<TRUE>>_vars

\* A transfer is decided (the engine's own timeouts), a device ends its chirp,
\* and polls that nothing answers fail.
OthersAct ==
    /\ []<>(engine.phase # "setup")
    /\ []<>(device.chirp # "K")
    /\ []<>(session.ready => answers(session.address) \/ unresponsive)

FairSpec == Spec /\ ClockRuns /\ OthersAct

-----------------------------------------------------------------------------
TypeOK ==
    /\ fsm \in States
    /\ session.enum_attempt \in 0..(MAX_ENUM_ATTEMPTS - 1)
    /\ session.address \in {0, 1}
    /\ count.reset \in 0..(reset_cycles - 1)
    /\ count.attach \in 0..(attach_stable_cycles - 1)
    /\ count.detach \in 0..detach_stable_cycles
    /\ count.wait \in 0..recovery_timeout_cycles
    /\ parse.byte_count \in 0..2
    /\ engine.left \in 0..2 /\ store.units \in 0..2
    /\ device.n \in 0..Len(seen) /\ seen \in Seq(Profiles) /\ faults \in 0..MaxFaults

\* The keys of a device's descriptors.
Wanted(p) ==
    LET indexes == {p.strings[i] : i \in 1..3} \ {0}
    IN  {<<"device", 0>>, <<"config", 0>>}
        \cup (IF indexes = {} THEN {} ELSE {<<"string", i>> : i \in indexes \cup {0}})
        \cup {<<"report", p.interfaces[i]>> : i \in 1..Len(p.interfaces)}

\* In READY the store holds all descriptors of one device, whole, and none of
\* another, however often the enumeration was started over or devices swapped.
ReadyMeansComplete ==
    session.ready =>
        \E n \in 1..Len(seen) :
            store.kept = {[key |-> k, n |-> n, units |-> 2] : k \in Wanted(seen[n])}

\* The requests and the captures do not overlap: none is started while one is
\* under way, of the session before, of the relay, or of an attempt given up.
NoOverlap ==
    /\ fsm \in DOMAIN Starts => engine.phase = "idle" /\ engine.done = "none"
    /\ strobe.start # NoKey => ~store.active
    /\ strobe.commit => store.active /\ store.allocated /\ ~store.overflow /\ store.units = 2

\* What the PC is shown does not change while it can see it.
CloneSeesFrozenStore ==
    [][clone_connected => store'.kept = store.kept]_vars

\* Host and device agree on the speed they have negotiated, in every attempt
\* and whatever came before, when the device was there throughout the reset.
SpeedAgreed ==
    fsm = "GET8_START" /\ device.reset => device.high_speed = session.high_speed

\* Every enumeration ends, in READY, in ERROR, or with the device gone.
EnumerationEnds == session.enumerating ~> ~session.enumerating

\* The ways into ERROR that have none out of it.  A detach needs `connected`, which
\* a device of unsupported speed never sets; at high speed it needs the PHY, or
\* the pollers, and these run only in READY.
DeadEnd == fsm = "ERROR" /\ (session.high_speed \/ ~session.connected)

\* Without a device the host comes back to where it waits for one, though the PHY
\* may never see a high-speed device go, unless it is in a dead end.
BackToAttach == <>[](device.n = 0) => <>[](fsm = "WAIT_ATTACH") \/ <>[]DeadEnd

\* When nothing goes wrong any more, a device that is attached, or that took the
\* place of one that was in use, gets to READY and is the one that answers there.
Settled == Len(seen) = MaxPlugs /\ faults = MaxFaults /\ device.n # 0
GoodDeviceReady ==
    Settled /\ profile.speed # "low" /\ fsm \in {"WAIT_ATTACH", "READY"}
        ~> (fsm = "READY" /\ answers(session.address)) \/ device.n = 0

\* The host recovers from every device that leaves, and enumerates the next, but
\* for the dead ends of ERROR.
Recovers == BackToAttach /\ GoodDeviceReady

-----------------------------------------------------------------------------
(***************************************************************************)
(* What makes NoOverlap and ReadyMeansComplete inductive: first the shape   *)
(* of the registers.                                                       *)
(***************************************************************************)
Keys == {"none", "device", "config", "string", "report"} \X Nat
Levels == {"SE0", "J", "K"}
Errors == {"NONE", "DISCONNECTED", "UNSUPPORTED_SPEED", "CONTROL_FAILURE",
           "MALFORMED_DESCRIPTOR", "OVERSIZED_DESCRIPTOR", "UNSUPPORTED_TOPOLOGY"}
Kinds == Waits \cup {"relay", "none"}
Sources == Profiles \cup {NoProfile}

Sessions == [
    connected : BOOLEAN, enumerating : BOOLEAN, ready : BOOLEAN, address : {0, 1},
    ep_interface : Seq(Nat), traffic_enable : BOOLEAN, high_speed : BOOLEAN,
    error_code : Errors, enum_attempt : Nat]

Counts == [
    attach : Nat, attach_state : Levels, reset : Nat, chirp : Nat, pairs : Nat,
    chirp_done : BOOLEAN, recovery : Nat, wait : Nat, nonj : Nat, address : Nat, detach : Nat]

Parses == [
    byte_count : Nat, header : {"none", "ok", "bad"}, malformed : BOOLEAN, oversized : BOOLEAN,
    unsupported : BOOLEAN, string_indexes : [1..3 -> Nat], string_cursor : Nat,
    report_cursor : Nat, fetched : SUBSET Nat]

Strobes == [clear : BOOLEAN, start : Keys, commit : BOOLEAN, abort : BOOLEAN]

Engines == [phase : {"idle", "setup", "data", "status"}, kind : Kinds, to : Nat, left : Nat,
            n : Nat,
            flaw : {"none", "short", "header", "malformed", "oversized", "unsupported"},
            source : Sources, done : {"none", "SUCCESS", "TIMEOUT", "DISCONNECTED"}]

Stores == [active : BOOLEAN, allocated : BOOLEAN, overflow : BOOLEAN,
           key : Keys, n : Nat, units : Nat, kept : SUBSET [key : Keys, n : Nat, units : Nat]]

Devices == [n : Nat, address : {0, 1}, chirp : {"no", "K", "done"}, pairs : Nat, high_speed : BOOLEAN,
            reset : BOOLEAN]

Shape ==
    /\ session \in Sessions /\ count \in Counts /\ parse \in Parses /\ strobe \in Strobes
    /\ engine \in Engines /\ (engine.phase # "idle" => engine.kind # "none")
    /\ engine.phase = "data" => engine.left # 0
    /\ store \in Stores
    /\ device \in Devices /\ device.n \in 0..Len(seen) /\ (device.n = 0 => device.address = 0)
    /\ unresponsive \in BOOLEAN /\ seen \in Seq(Profiles) /\ faults \in Nat

(***************************************************************************)
(* The stages of an enumeration, from the address on, and the captures of   *)
(* each.                                                                   *)
(***************************************************************************)
Unaddressed ==
    Resets \cup {"RESET_RECOVERY", "GET8_START", "GET8_WAIT", "SET_ADDRESS_START", "SET_ADDRESS_WAIT"}
AtDevice == {"SET_ADDRESS_RECOVERY", "DEVICE_START", "DEVICE_WAIT"}
AtConfig == {"CONFIG_HEADER_START", "CONFIG_HEADER_WAIT", "CONFIG_PREP", "CONFIG_START", "CONFIG_WAIT"}
AtLanguage == {"LANGUAGE_PREP", "LANGUAGE_START", "LANGUAGE_WAIT"}
ThisString == {"STRING_PREP", "STRING_START", "STRING_WAIT"}
AtStrings == {"STRING_SELECT"} \cup ThisString
AtConfiguration == {"SET_CONFIGURATION_START", "SET_CONFIGURATION_WAIT"}
ThisReport == {"REPORT_PREP", "REPORT_START", "REPORT_WAIT"}
AtReports == {"REPORT_SELECT"} \cup ThisReport
Addressing ==
    AtDevice \cup AtConfig \cup AtLanguage \cup AtStrings \cup AtConfiguration \cup AtReports
    \cup {"READY"}

CaptureStarts == {"DEVICE_START", "CONFIG_START", "LANGUAGE_START", "STRING_START", "REPORT_START"}

\* The states that an enumeration without a session, or after it, waits in.
Resting == {"POWER_OFF", "DISCHARGE", "WAIT_ATTACH", "ERROR"}

\* The session, the engine and the FSM agree on what is under way: one request
\* per wait, of this session, and none when the next may be started.
SessionSound ==
    /\ session.ready <=> fsm = "READY"
    /\ fsm \notin Resting => session.connected
    /\ fsm \in {"POWER_OFF", "DISCHARGE", "WAIT_ATTACH"} => ~session.connected
    /\ session.connected => seen # <<>>
    /\ fsm \in Addressing => session.address = 1

EngineSound ==
    /\ engine.done # "none" => engine.phase = "idle"
    /\ fsm \notin Waits \cup {"READY", "ERROR", "WAIT_ATTACH"} =>
          engine.phase = "idle" /\ engine.done = "none"
    /\ fsm = "WAIT_ATTACH" /\ engine.phase # "idle" => count.attach = 0
    /\ fsm = "READY" /\ engine.phase # "idle" => engine.kind = "relay"
    /\ fsm \in Waits /\ engine.phase # "idle" =>
          /\ engine.kind = fsm
          /\ engine.to = IF fsm \in {"GET8_WAIT", "SET_ADDRESS_WAIT"} THEN 0 ELSE session.address

\* The capture under way is the one the FSM started, and it has the units that
\* the FSM has counted.
CaptureKey ==
    CASE fsm \in AtDevice -> <<"device", 0>>
      [] fsm \in AtConfig -> <<"config", 0>>
      [] fsm \in AtLanguage -> <<"string", 0>>
      [] fsm \in AtStrings -> <<"string", current_string>>
      [] OTHER -> <<"report", current_interface>>

StrobeSound ==
    /\ strobe.clear => fsm \in {"WAIT_ATTACH", "BUS_RESET"}
    /\ strobe.abort => fsm \in {"WAIT_ATTACH", "BUS_RESET", "ERROR"}
    /\ fsm \in CaptureStarts => strobe.start = CaptureKey
    /\ strobe.start # NoKey => fsm \in CaptureStarts
    /\ fsm \in CaptureStarts => parse.byte_count = 0
    /\ strobe.commit => /\ fsm \in {"CONFIG_HEADER_START", "LANGUAGE_PREP", "STRING_SELECT",
                                    "SET_CONFIGURATION_START", "REPORT_SELECT"}
                        /\ store.active /\ store.allocated /\ ~store.overflow /\ store.units = 2

StoreSound ==
    /\ fsm \in Unaddressed => strobe.clear \/ (~store.active /\ store.kept = {})
    /\ fsm \in Addressing \ Captures => strobe.commit \/ ~store.active
    /\ fsm \in Captures =>
          /\ store.active /\ store.key = CaptureKey
          /\ store.units > 0 => store.allocated
          /\ ~store.overflow => store.units = parse.byte_count

\* What the device m has given so far.
Strings(i) == {<<"string", k>> : k \in {parse.string_indexes[j] : j \in 1..i} \ {0}}
Languages == IF HasStrings THEN {<<"string", 0>>} ELSE {}
Reports(i) == {<<"report", session.ep_interface[j]>> : j \in 1..i}

Captured ==
    CASE fsm \in AtDevice -> {}
      [] fsm \in AtConfig -> {<<"device", 0>>}
      [] fsm \in AtLanguage -> {<<"device", 0>>, <<"config", 0>>}
      [] fsm \in AtStrings ->
            {<<"device", 0>>, <<"config", 0>>} \cup Languages \cup Strings(parse.string_cursor)
      [] fsm \in AtConfiguration ->
            {<<"device", 0>>, <<"config", 0>>} \cup Languages \cup Strings(3)
      [] fsm \in AtReports ->
            {<<"device", 0>>, <<"config", 0>>} \cup Languages \cup Strings(3)
            \cup Reports(parse.report_cursor)
      [] OTHER ->
            {<<"device", 0>>, <<"config", 0>>} \cup Languages \cup Strings(3)
            \cup Reports(Len(session.ep_interface))

Entries(n, keys) == {[key |-> k, n |-> n, units |-> 2] : k \in keys}

WillKeep == IF strobe.commit THEN Kept ELSE store.kept

StringsRead == fsm \notin AtDevice \/ (fsm = "DEVICE_WAIT" /\ parse.byte_count = 2)
TableFilled ==
    fsm \notin AtDevice \cup AtConfig \/ (fsm = "CONFIG_WAIT" /\ parse.byte_count = 2)

\* Everything since the address is of device m.
Of(m) ==
    /\ device.address = 1 => device.n = m
    /\ fsm \in Waits /\ engine.phase \in {"data", "status"} =>
          engine.n = m /\ engine.source = seen[m]
    /\ fsm \in Captures /\ store.units > 0 => store.n = m
    /\ WillKeep = Entries(m, Captured)
    /\ StringsRead => parse.string_indexes = seen[m].strings
    /\ TableFilled => session.ep_interface = seen[m].interfaces

CursorsSound ==
    /\ fsm \in AtLanguage \cup AtStrings => HasStrings
    /\ fsm \in AtStrings => parse.string_cursor \in 0..3
    /\ fsm \in ThisString => parse.string_cursor # 3 /\ current_string # 0
    /\ fsm \in AtReports => /\ parse.report_cursor \in 0..Len(session.ep_interface)
                            /\ parse.fetched \subseteq {session.ep_interface[j] :
                                 j \in 1..(IF fsm = "REPORT_SELECT" THEN parse.report_cursor
                                           ELSE parse.report_cursor + 1)}
    /\ fsm \in ThisReport => ~reports_read

OneDevice ==
    fsm \in Addressing => CursorsSound /\ \E m \in 1..Len(seen) : Of(m)

Complete == Shape /\ SessionSound /\ EngineSound /\ StrobeSound /\ StoreSound /\ OneDevice

\* What makes SpeedAgreed inductive: under a reset, host and device count the
\* same pairs, as the device has ended its chirp before the host drives one.
reset_begins == fsm = "BUS_RESET" /\ count.reset = 0

Negotiated ==
    /\ reset_begins => count.pairs = 0 /\ device.pairs = 0 /\ device.chirp = "no"
    /\ reset_active => /\ count.pairs <= HOST_CHIRP_PAIRS
                       /\ session.high_speed <=> count.pairs = HOST_CHIRP_PAIRS
                       /\ count.pairs = HOST_CHIRP_PAIRS => count.chirp_done
                       /\ device.chirp # "done" => device.pairs = 0
    /\ reset_active /\ ~reset_begins /\ device.reset =>
          /\ device.pairs = count.pairs
          /\ device.high_speed <=> device.pairs = HOST_CHIRP_PAIRS
          /\ fsm = "CHIRP_AWAIT_DEVICE_END" => device.chirp # "no"
          /\ fsm \in {"CHIRP_DRIVE_K", "CHIRP_DRIVE_J"} => device.chirp = "done"
    /\ fsm \in {"RESET_RECOVERY", "GET8_START"} /\ device.reset =>
          device.high_speed = session.high_speed

\* What makes the bounds of TypeOK inductive.  A counter that is compared for
\* equality is never past what it is compared with.
CountersBounded ==
    /\ session.enum_attempt < MAX_ENUM_ATTEMPTS
    /\ count.attach < attach_stable_cycles /\ count.detach <= detach_stable_cycles
    /\ count.wait <= recovery_timeout_cycles /\ count.reset < reset_cycles

\* How far the reset may have run: the device began to chirp in time, and the host
\* is in the middle of its next pair, which ends in the tail if all are done, and
\* before it if not.
last_chance == chirp_timeout_cycles + chirp_detect_cycles

InTime ==
    /\ fsm = "BUS_RESET" /\ ~count.chirp_done =>
          /\ count.chirp < chirp_detect_cycles
          /\ count.reset < chirp_timeout_cycles + count.chirp
    /\ fsm = "CHIRP_AWAIT_DEVICE_END" => count.pairs = 0 /\ count.reset < last_chance
    /\ fsm \in {"CHIRP_DRIVE_K", "CHIRP_DRIVE_J"} =>
          LET pair == IF fsm = "CHIRP_DRIVE_J" THEN chirp_drive_cycles + count.chirp ELSE count.chirp
          IN  /\ count.chirp < chirp_drive_cycles
              /\ count.reset <= reset_cycles - chirp_tail_cycles + pair
              /\ count.pairs < HOST_CHIRP_PAIRS =>
                    count.reset < last_chance + 2 * (count.pairs * chirp_drive_cycles) + pair

\* What is read and what is to come is no more than was asked for.
UnitsAsked ==
    /\ parse.byte_count <= 2 /\ engine.left <= 2 /\ store.units <= 2
    /\ fsm \in Waits /\ Units[fsm] # 0 /\ engine.phase = "setup" => parse.byte_count = 0
    /\ fsm \in Waits /\ engine.phase = "data" => parse.byte_count + engine.left <= Units[fsm]
=============================================================================
