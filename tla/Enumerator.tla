----------------------------- MODULE Enumerator -----------------------------
(***************************************************************************)
(* BoundedMouseEnumerator (enumerator.py): power, attach, bus reset with    *)
(* the high-speed chirp, the sequence of control requests that captures a  *)
(* device's descriptors, its retries, and the ways out of READY and ERROR. *)
(* A step is one cycle of the usb clock.                                   *)
(*                                                                         *)
(* host.py ties `enable` to 1, so the branches for ~enable are left out    *)
(* and `powered` stays 1 once the discharge is over.  The content of a     *)
(* descriptor is one or two units, a header and a body; the configuration's *)
(* bytes are ConfigurationParser's subject.                                *)
(***************************************************************************)
EXTENDS Naturals, Sequences, FiniteSets

CONSTANTS
    \* HostTiming, in cycles
    attach_stable_cycles, detach_stable_cycles, reset_cycles,
    chirp_detect_cycles, chirp_drive_cycles, chirp_timeout_cycles, chirp_tail_cycles,
    reset_recovery_cycles, recovery_timeout_cycles, nonj_tolerance_cycles,
    address_recovery_cycles,
    HOST_CHIRP_PAIRS,
    MAX_ENUM_ATTEMPTS

VARIABLES
    fsm,             \* state of the enumerator
    session,         \* its outputs
    count,           \* its counters
    parse,           \* what it has read of the answer under way
    strobe,          \* the registered control strobes of the store
    engine,          \* the control-transfer engine
    store,           \* the descriptor store: the capture, and what is kept
    device,          \* what is plugged in
    unresponsive     \* device_unresponsive

(***************************************************************************)
(* WAIT_ATTACH counts a first level as one cycle, so it needs more than one, *)
(* or its equality test is missed, and for ever.  The pair K-J that runs    *)
(* into the tail must end before the reset does, or that of BUS_RESET is    *)
(* missed; all pairs fit after the last chance for the device to chirp.    *)
(***************************************************************************)
ASSUME TimingAssumption ==
    /\ {attach_stable_cycles, detach_stable_cycles, reset_cycles, chirp_detect_cycles,
        chirp_drive_cycles, chirp_timeout_cycles, chirp_tail_cycles, reset_recovery_cycles,
        recovery_timeout_cycles, nonj_tolerance_cycles, address_recovery_cycles,
        HOST_CHIRP_PAIRS, MAX_ENUM_ATTEMPTS} \subseteq Nat \ {0}
    /\ attach_stable_cycles > 1
    /\ 2 * chirp_drive_cycles < chirp_tail_cycles
    /\ chirp_timeout_cycles + chirp_detect_cycles + 2 * HOST_CHIRP_PAIRS * chirp_drive_cycles
          <= reset_cycles - chirp_tail_cycles

NoKey == <<"none", 0>>

\* The states that start a request, and the state that awaits its answer,
\* which names the request.
Starts == [
    GET8_START |-> "GET8_WAIT", SET_ADDRESS_START |-> "SET_ADDRESS_WAIT",
    DEVICE_START |-> "DEVICE_WAIT", CONFIG_HEADER_START |-> "CONFIG_HEADER_WAIT",
    CONFIG_START |-> "CONFIG_WAIT", LANGUAGE_START |-> "LANGUAGE_WAIT",
    STRING_START |-> "STRING_WAIT", SET_CONFIGURATION_START |-> "SET_CONFIGURATION_WAIT",
    REPORT_START |-> "REPORT_WAIT"]

\* The units asked for: header and body, a header, or none.
Units == [
    GET8_WAIT |-> 1, SET_ADDRESS_WAIT |-> 0, DEVICE_WAIT |-> 2, CONFIG_HEADER_WAIT |-> 1,
    CONFIG_WAIT |-> 2, LANGUAGE_WAIT |-> 2, STRING_WAIT |-> 2, SET_CONFIGURATION_WAIT |-> 0,
    REPORT_WAIT |-> 2]

Waits == DOMAIN Units
Captures == {"DEVICE_WAIT", "CONFIG_WAIT", "LANGUAGE_WAIT", "STRING_WAIT", "REPORT_WAIT"}
Resets == {"BUS_RESET", "CHIRP_AWAIT_DEVICE_END", "CHIRP_DRIVE_K", "CHIRP_DRIVE_J"}
Preps == {"CONFIG_PREP", "LANGUAGE_PREP", "STRING_PREP", "REPORT_PREP"}
States == {"POWER_OFF", "DISCHARGE", "WAIT_ATTACH", "RESET_RECOVERY", "SET_ADDRESS_RECOVERY",
           "STRING_SELECT", "REPORT_SELECT", "READY", "ERROR"}
          \cup Resets \cup Preps \cup DOMAIN Starts \cup Waits

NoStrobe == [clear |-> FALSE, start |-> NoKey, commit |-> FALSE, abort |-> FALSE]

NoSession == [
    connected |-> FALSE, enumerating |-> FALSE, ready |-> FALSE, address |-> 0,
    ep_interface |-> <<>>, traffic_enable |-> FALSE, high_speed |-> FALSE,
    error_code |-> "NONE", enum_attempt |-> 0]

NoCount == [
    attach |-> 0, attach_state |-> "SE0", reset |-> 0, chirp |-> 0, pairs |-> 0,
    chirp_done |-> FALSE, recovery |-> 0, wait |-> 0, nonj |-> 0, address |-> 0, detach |-> 0]

NoParse == [
    byte_count |-> 0, header |-> "none", malformed |-> FALSE, oversized |-> FALSE,
    unsupported |-> FALSE, string_indexes |-> <<0, 0, 0>>, string_cursor |-> 0,
    report_cursor |-> 0, fetched |-> {}]

enumeratorVars == <<fsm, session, count, parse, strobe>>

-----------------------------------------------------------------------------
\* Wires.  `bus` is the line state and the PHY's host_disconnect.
reset_active == fsm \in Resets

\* Mutant: the pollers' failure is no evidence of a device gone.
disconnect_unseen(bus) ==
    IF session.high_speed THEN bus.host_disconnect ELSE bus.line = "SE0"

disconnect_seen(bus) ==
    unresponsive \/ IF session.high_speed THEN bus.host_disconnect ELSE bus.line = "SE0"

detached(bus) == disconnect_seen(bus) /\ count.detach >= detach_stable_cycles - 1

idle_line_state == IF session.high_speed THEN "SE0" ELSE "J"

\* The counters, with the debounce of a detach, which runs in every state.
Ticked(bus) ==
    [count EXCEPT !.detach =
        IF ~session.connected \/ reset_active \/ ~disconnect_seen(bus) THEN 0
        ELSE IF @ < detach_stable_cycles THEN @ + 1 ELSE @]

\* Mutant: a session is cleared, but for `connected`.
ClearedKeepsConnected(error) ==
    [NoSession EXCEPT !.error_code = error, !.enum_attempt = session.enum_attempt,
                      !.connected = session.connected]

\* clear_session, which keeps enum_attempt
Cleared(error) ==
    [NoSession EXCEPT !.error_code = error, !.enum_attempt = session.enum_attempt]

Stay(bus) == /\ count' = Ticked(bus) /\ strobe' = NoStrobe
             /\ UNCHANGED <<fsm, session>>

Goto(state, bus) == /\ fsm' = state
                    /\ count' = Ticked(bus) /\ strobe' = NoStrobe
                    /\ UNCHANGED session

\* Mutant: the capture is given up, and the store kept.
EmptiedNot == [NoStrobe EXCEPT !.abort = TRUE]

\* What a detach and a retry do to the store.
Emptied == [NoStrobe EXCEPT !.clear = TRUE, !.abort = TRUE]

go_detached(bus) ==
    /\ fsm' = "WAIT_ATTACH"
    /\ session' = Cleared("DISCONNECTED")
    /\ count' = [count EXCEPT !.attach = 0, !.detach = 0]
    /\ strobe' = Emptied

fail(error, bus) ==
    /\ fsm' = "ERROR"
    /\ session' = [session EXCEPT !.enumerating = FALSE, !.ready = FALSE, !.error_code = error]
    /\ count' = Ticked(bus)
    /\ strobe' = [NoStrobe EXCEPT !.abort = TRUE]

\* Mutant: the speed of the attempt before is kept.
RetriedKeepsSpeed ==
    [Cleared("NONE") EXCEPT
        !.connected = TRUE, !.enumerating = TRUE, !.traffic_enable = session.traffic_enable,
        !.high_speed = session.high_speed, !.enum_attempt = session.enum_attempt + 1]

\* The session of the next attempt: what the device told is forgotten.
Retried ==
    [Cleared("NONE") EXCEPT
        !.connected = TRUE, !.enumerating = TRUE, !.traffic_enable = session.traffic_enable,
        !.enum_attempt = session.enum_attempt + 1]

retry_enumeration(bus) ==
    /\ fsm' = "BUS_RESET"
    /\ session' = Retried
    /\ count' = [Ticked(bus) EXCEPT !.reset = 0, !.chirp = 0, !.pairs = 0, !.chirp_done = FALSE]
    /\ strobe' = Emptied

retry_or_fail(bus) ==
    IF session.enum_attempt < MAX_ENUM_ATTEMPTS - 1 THEN retry_enumeration(bus)
    ELSE fail("CONTROL_FAILURE", bus)

handle_control_failure(bus) ==
    IF engine.done = "DISCONNECTED" THEN go_detached(bus) ELSE retry_or_fail(bus)

\* begin_capture: the registers it clears.
Begun == [parse EXCEPT !.byte_count = 0, !.header = "none", !.malformed = FALSE,
                       !.oversized = FALSE, !.unsupported = FALSE]

-----------------------------------------------------------------------------
\* Power and attach.
PowerOff(bus) ==
    /\ fsm = "POWER_OFF"
    /\ Goto("DISCHARGE", bus) /\ UNCHANGED parse

Discharge(bus) ==
    /\ fsm = "DISCHARGE"
    /\ fsm' = "WAIT_ATTACH" /\ session' = [session EXCEPT !.error_code = "DISCONNECTED"]
    /\ count' = [Ticked(bus) EXCEPT !.attach = 0] /\ strobe' = NoStrobe
    /\ UNCHANGED parse

\* A line level starts the debounce over, SE0 ends it; a stable J is a device.
WaitAttach(bus) ==
    /\ fsm = "WAIT_ATTACH"
    /\ UNCHANGED parse
    /\ LET c == Ticked(bus)
           restarted == count.attach = 0 \/ count.attach_state # bus.line
       IN  \/ /\ bus.line = "SE0"
              /\ count' = [c EXCEPT !.attach = 0] /\ strobe' = NoStrobe
              /\ session' = [session EXCEPT !.error_code = "DISCONNECTED"] /\ UNCHANGED fsm
           \/ /\ bus.line # "SE0" /\ restarted
              /\ count' = [c EXCEPT !.attach = 1, !.attach_state = bus.line] /\ strobe' = NoStrobe
              /\ session' = [session EXCEPT !.error_code = "NONE"] /\ UNCHANGED fsm
           \/ /\ bus.line # "SE0" /\ ~restarted /\ count.attach # attach_stable_cycles - 1
              /\ count' = [c EXCEPT !.attach = @ + 1] /\ strobe' = NoStrobe
              /\ UNCHANGED <<fsm, session>>
           \/ /\ bus.line # "SE0" /\ ~restarted /\ count.attach = attach_stable_cycles - 1
              /\ bus.line # "J"
              /\ fsm' = "ERROR" /\ session' = [session EXCEPT !.error_code = "UNSUPPORTED_SPEED"]
              /\ count' = [c EXCEPT !.attach = 0] /\ strobe' = NoStrobe
           \/ /\ bus.line = "J" /\ ~restarted /\ count.attach = attach_stable_cycles - 1
              /\ fsm' = "BUS_RESET"
              /\ session' = [NoSession EXCEPT !.connected = TRUE, !.enumerating = TRUE]
              /\ count' = [c EXCEPT !.attach = 0, !.detach = 0, !.reset = 0, !.chirp = 0,
                                    !.pairs = 0, !.chirp_done = FALSE]
              /\ strobe' = [NoStrobe EXCEPT !.clear = TRUE]

-----------------------------------------------------------------------------
\* Bus reset and the chirp.
BusReset(bus) ==
    LET c == Ticked(bus)
        over == count.reset = reset_cycles - 1
        looking == ~count.chirp_done
        detected == looking /\ bus.line = "K" /\ count.chirp >= chirp_detect_cycles - 1
        late == count.reset >= chirp_timeout_cycles - 1
    IN  /\ fsm = "BUS_RESET"
        /\ fsm' = IF over THEN "RESET_RECOVERY"
                  ELSE IF detected THEN "CHIRP_AWAIT_DEVICE_END" ELSE fsm
        /\ count' =
              IF over THEN [c EXCEPT !.reset = 0, !.recovery = 0, !.wait = 0]
              ELSE IF ~looking THEN [c EXCEPT !.reset = @ + 1]
              ELSE IF detected THEN [c EXCEPT !.reset = @ + 1, !.chirp = 0, !.pairs = 0]
              ELSE IF bus.line = "K" THEN [c EXCEPT !.reset = @ + 1, !.chirp = @ + 1]
              ELSE [c EXCEPT !.reset = @ + 1, !.chirp = 0, !.chirp_done = late]
        /\ strobe' = NoStrobe /\ UNCHANGED <<session, parse>>

\* The reset counter stands still while the device chirps.
ChirpAwaitDeviceEnd(bus) ==
    LET ended == bus.line # "K" /\ count.chirp >= chirp_detect_cycles - 1
    IN  /\ fsm = "CHIRP_AWAIT_DEVICE_END"
        /\ fsm' = IF ended THEN "CHIRP_DRIVE_K" ELSE fsm
        /\ count' = [Ticked(bus) EXCEPT
                        !.chirp = IF ended \/ bus.line = "K" THEN 0 ELSE @ + 1]
        /\ strobe' = NoStrobe /\ UNCHANGED <<session, parse>>

drive_ended == count.chirp >= chirp_drive_cycles - 1

\* Mutant: the host chirps to the very end of the reset.
in_tail_late == count.reset >= reset_cycles - 1

in_tail == count.reset >= reset_cycles - chirp_tail_cycles

ChirpDriveK(bus) ==
    /\ fsm = "CHIRP_DRIVE_K"
    /\ fsm' = IF drive_ended THEN "CHIRP_DRIVE_J" ELSE fsm
    /\ count' = [Ticked(bus) EXCEPT !.reset = @ + 1,
                     !.chirp = IF drive_ended THEN 0 ELSE @ + 1]
    /\ strobe' = NoStrobe /\ UNCHANGED <<session, parse>>

\* The speed is latched with the last pair the device needs; the alternation
\* goes on into the tail of the reset.
ChirpDriveJ(bus) ==
    LET paired == drive_ended /\ count.pairs < HOST_CHIRP_PAIRS
        trained == paired /\ count.pairs = HOST_CHIRP_PAIRS - 1
    IN  /\ fsm = "CHIRP_DRIVE_J"
        /\ fsm' = IF ~drive_ended THEN fsm ELSE IF in_tail THEN "BUS_RESET" ELSE "CHIRP_DRIVE_K"
        /\ session' = [session EXCEPT !.high_speed = @ \/ trained]
        /\ count' = [Ticked(bus) EXCEPT !.reset = @ + 1,
                         !.chirp = IF drive_ended THEN 0 ELSE @ + 1,
                         !.pairs = IF paired THEN @ + 1 ELSE @,
                         !.chirp_done = @ \/ trained]
        /\ strobe' = NoStrobe /\ UNCHANGED parse

\* Mutant: the wait for the idle line has no end.
recovery_over_never == FALSE

recovery_over == count.wait = recovery_timeout_cycles - 1

\* The line is to be idle for a while; a departure shorter than a frame only
\* pauses the debounce.  A detach is not looked at.
ResetRecovery(bus) ==
    LET c == [Ticked(bus) EXCEPT !.wait = IF @ < recovery_timeout_cycles THEN @ + 1 ELSE 0]
        settled == count.recovery = reset_recovery_cycles - 1
    IN  /\ fsm = "RESET_RECOVERY"
        /\ UNCHANGED parse
        /\ \/ recovery_over /\ retry_or_fail(bus)
           \/ /\ ~recovery_over
              /\ strobe' = NoStrobe
              /\ session' = [session EXCEPT !.traffic_enable = TRUE]
              /\ \/ /\ bus.line # idle_line_state /\ UNCHANGED fsm
                    /\ count' = IF count.nonj = nonj_tolerance_cycles - 1
                                THEN [c EXCEPT !.recovery = 0, !.nonj = 0]
                                ELSE [c EXCEPT !.nonj = @ + 1]
                 \/ /\ bus.line = idle_line_state /\ settled
                    /\ fsm' = "GET8_START"
                    /\ count' = [c EXCEPT !.recovery = 0, !.nonj = 0]
                 \/ /\ bus.line = idle_line_state /\ ~settled /\ UNCHANGED fsm
                    /\ count' = [c EXCEPT !.recovery = @ + 1, !.nonj = 0]

-----------------------------------------------------------------------------
\* The requests.
sending(bus) == fsm \in DOMAIN Starts /\ ~(fsm = "DEVICE_START" /\ detached(bus))

\* The address a request goes to: the first two name address 0.
target_address ==
    IF fsm \in {"GET8_START", "SET_ADDRESS_START"} THEN 0 ELSE session.address

Start(bus) ==
    /\ fsm \in DOMAIN Starts
    /\ IF sending(bus) THEN Goto(Starts[fsm], bus) ELSE go_detached(bus)
    /\ parse' = IF fsm = "GET8_START"
                THEN [parse EXCEPT !.byte_count = 0, !.header = "none"]
                ELSE IF fsm = "CONFIG_HEADER_START"
                THEN [parse EXCEPT !.byte_count = 0, !.header = "none",
                                   !.unsupported = FALSE, !.malformed = FALSE]
                ELSE parse

\* A unit offered is accepted: at once, or when the store takes it.
data_ready ==
    IF fsm \in Captures THEN store.active /\ store.allocated /\ ~store.overflow
    ELSE fsm = "GET8_WAIT" \/ fsm = "CONFIG_HEADER_WAIT" \/ session.ready

accepted == engine.phase = "data" /\ data_ready /\ fsm \in Waits

\* The unit at byte_count: a header, which may be wrong, or the body.
Received ==
    LET header == parse.byte_count = 0
        final == parse.byte_count = Units[fsm] - 1
        counted == [parse EXCEPT !.byte_count = @ + 1,
                        !.header = IF ~header THEN @ ELSE IF engine.flaw = "header" THEN "bad" ELSE "ok"]
        judged == [counted EXCEPT
                        !.malformed = @ \/ (final /\ engine.flaw = "malformed"),
                        !.oversized = @ \/ (final /\ engine.flaw = "oversized"),
                        !.unsupported = @ \/ (final /\ engine.flaw = "unsupported")]
    IN  IF ~accepted THEN parse
        ELSE IF fsm \in {"GET8_WAIT", "LANGUAGE_WAIT", "STRING_WAIT", "REPORT_WAIT"} THEN counted
        ELSE IF fsm = "DEVICE_WAIT" /\ final
        THEN [judged EXCEPT !.string_indexes = engine.source.strings]
        ELSE judged

\* The endpoint table, filled as the configuration is read.
TableRead ==
    IF accepted /\ fsm = "CONFIG_WAIT" /\ parse.byte_count = 1
    THEN engine.source.interfaces ELSE session.ep_interface

\* What is wrong with a complete answer.
Refusal ==
    LET judged == fsm \in {"DEVICE_WAIT", "CONFIG_HEADER_WAIT", "CONFIG_WAIT"}
    IN  CASE Units[fsm] = 0 -> "NONE"
          [] \/ Units[fsm] # 0 /\ parse.byte_count # Units[fsm]
             \/ Units[fsm] # 0 /\ fsm # "REPORT_WAIT" /\ parse.header # "ok"
             \/ judged /\ parse.malformed -> "MALFORMED_DESCRIPTOR"
          [] OTHER -> IF fsm = "CONFIG_WAIT" /\ parse.oversized THEN "OVERSIZED_DESCRIPTOR"
                      ELSE IF judged /\ parse.unsupported THEN "UNSUPPORTED_TOPOLOGY" ELSE "NONE"

HasStrings == \E i \in 1..3 : parse.string_indexes[i] # 0

Onward == [
    GET8_WAIT |-> "SET_ADDRESS_START", SET_ADDRESS_WAIT |-> "SET_ADDRESS_RECOVERY",
    DEVICE_WAIT |-> "CONFIG_HEADER_START", CONFIG_HEADER_WAIT |-> "CONFIG_PREP",
    CONFIG_WAIT |-> IF HasStrings THEN "LANGUAGE_PREP" ELSE "SET_CONFIGURATION_START",
    LANGUAGE_WAIT |-> "STRING_SELECT", STRING_WAIT |-> "STRING_SELECT",
    SET_CONFIGURATION_WAIT |-> "REPORT_SELECT", REPORT_WAIT |-> "REPORT_SELECT"]

\* The answer is good: what is captured is committed.
Advance(bus) ==
    /\ fsm' = Onward[fsm]
    /\ session' = [session EXCEPT !.address = IF fsm = "SET_ADDRESS_WAIT" THEN 1 ELSE @]
    /\ count' = [Ticked(bus) EXCEPT !.address = IF fsm = "SET_ADDRESS_WAIT" THEN 0 ELSE @]
    /\ strobe' = [NoStrobe EXCEPT !.commit = fsm \in Captures]
    /\ parse' = CASE fsm = "LANGUAGE_WAIT" -> [parse EXCEPT !.string_cursor = 0]
                  [] fsm = "STRING_WAIT" -> [parse EXCEPT !.string_cursor = @ + 1]
                  [] fsm = "SET_CONFIGURATION_WAIT" ->
                        [parse EXCEPT !.report_cursor = 0, !.fetched = {}]
                  [] fsm = "REPORT_WAIT" -> [parse EXCEPT !.report_cursor = @ + 1]
                  [] OTHER -> parse

\* An answer is awaited: a detach first, then the store's overflow, then the
\* end of the transfer and the checks of what it brought.
Await(bus) ==
    LET overflowed == fsm \in Captures /\ store.overflow
    IN  /\ fsm \in Waits
        /\ \/ /\ detached(bus) /\ go_detached(bus) /\ parse' = Received
           \/ /\ ~detached(bus) /\ overflowed
              /\ fail("OVERSIZED_DESCRIPTOR", bus) /\ parse' = Received
           \/ /\ ~detached(bus) /\ ~overflowed /\ engine.done = "none"
              /\ count' = Ticked(bus) /\ strobe' = NoStrobe /\ UNCHANGED fsm
              /\ session' = [session EXCEPT !.ep_interface = TableRead]
              /\ parse' = Received
           \/ /\ ~detached(bus) /\ ~overflowed /\ engine.done \notin {"none", "SUCCESS"}
              /\ handle_control_failure(bus) /\ UNCHANGED parse
           \/ /\ ~detached(bus) /\ ~overflowed /\ engine.done = "SUCCESS"
              /\ IF Refusal # "NONE" THEN fail(Refusal, bus) /\ UNCHANGED parse
                 ELSE Advance(bus)

SetAddressRecovery(bus) ==
    LET over == count.address = address_recovery_cycles - 1
    IN  /\ fsm = "SET_ADDRESS_RECOVERY"
        /\ \/ detached(bus) /\ go_detached(bus) /\ UNCHANGED parse
           \/ /\ ~detached(bus) /\ ~over
              /\ count' = [Ticked(bus) EXCEPT !.address = @ + 1] /\ strobe' = NoStrobe
              /\ UNCHANGED <<fsm, session, parse>>
           \/ /\ ~detached(bus) /\ over
              /\ fsm' = "DEVICE_START" /\ UNCHANGED session
              /\ strobe' = [NoStrobe EXCEPT !.start = <<"device", 0>>]
              /\ count' = [Ticked(bus) EXCEPT !.address = 0]
              /\ parse' = [Begun EXCEPT !.string_indexes = <<0, 0, 0>>]

current_interface == session.ep_interface[parse.report_cursor + 1]
current_string == parse.string_indexes[parse.string_cursor + 1]

\* CONFIG_PREP, LANGUAGE_PREP, STRING_PREP, REPORT_PREP
Prepare(bus) ==
    /\ count' = Ticked(bus)
    /\ \/ /\ fsm = "CONFIG_PREP" /\ fsm' = "CONFIG_START"
          /\ strobe' = [NoStrobe EXCEPT !.start = <<"config", 0>>]
          /\ session' = [session EXCEPT !.ep_interface = <<>>] /\ parse' = Begun
       \/ /\ fsm = "LANGUAGE_PREP" /\ fsm' = "LANGUAGE_START"
          /\ strobe' = [NoStrobe EXCEPT !.start = <<"string", 0>>]
          /\ parse' = Begun /\ UNCHANGED session
       \/ /\ fsm = "STRING_PREP" /\ fsm' = "STRING_START"
          /\ strobe' = [NoStrobe EXCEPT !.start = <<"string", current_string>>]
          /\ parse' = Begun /\ UNCHANGED session
       \/ /\ fsm = "REPORT_PREP" /\ fsm' = "REPORT_START"
          /\ strobe' = [NoStrobe EXCEPT !.start = <<"report", current_interface>>]
          /\ parse' = [Begun EXCEPT !.fetched = {current_interface}] /\ UNCHANGED session

\* Each string once: an index that is 0 or came before is passed over.
StringSelect(bus) ==
    LET c == parse.string_cursor
        repeated == \E i \in 1..c : parse.string_indexes[i] = current_string
    IN  /\ fsm = "STRING_SELECT"
        /\ IF c = 3 THEN Goto("SET_CONFIGURATION_START", bus) /\ UNCHANGED parse
           ELSE IF current_string = 0 \/ repeated
           THEN Stay(bus) /\ parse' = [parse EXCEPT !.string_cursor = @ + 1]
           ELSE Goto("STRING_PREP", bus) /\ UNCHANGED parse

reports_read == parse.report_cursor = Len(session.ep_interface)

\* A report descriptor per interface, whose endpoints are neighbours in the
\* table; behind the last, READY.
ReportSelect(bus) ==
    /\ fsm = "REPORT_SELECT"
    /\ \/ detached(bus) /\ go_detached(bus) /\ UNCHANGED parse
       \/ /\ ~detached(bus) /\ reports_read
          /\ fsm' = "READY" /\ count' = Ticked(bus) /\ strobe' = NoStrobe
          /\ session' = [session EXCEPT !.ready = TRUE, !.enumerating = FALSE,
                                        !.error_code = "NONE"]
          /\ UNCHANGED parse
       \/ /\ ~detached(bus) /\ ~reports_read /\ current_interface \in parse.fetched
          /\ Stay(bus) /\ parse' = [parse EXCEPT !.report_cursor = @ + 1]
       \/ /\ ~detached(bus) /\ ~reports_read /\ current_interface \notin parse.fetched
          /\ Goto("REPORT_PREP", bus) /\ UNCHANGED parse

\* READY and ERROR end with a detach, and with nothing else.
Terminal(bus) ==
    /\ fsm \in {"READY", "ERROR"} /\ UNCHANGED parse
    /\ IF detached(bus) THEN go_detached(bus) ELSE Stay(bus)

EnumeratorStep(bus) ==
    \/ PowerOff(bus) \/ Discharge(bus) \/ WaitAttach(bus)
    \/ BusReset(bus) \/ ChirpAwaitDeviceEnd(bus) \/ ChirpDriveK(bus) \/ ChirpDriveJ(bus)
    \/ ResetRecovery(bus)
    \/ Start(bus) \/ Await(bus) \/ SetAddressRecovery(bus) \/ Prepare(bus)
    \/ StringSelect(bus) \/ ReportSelect(bus) \/ Terminal(bus)
=============================================================================
