-------------------------- MODULE EnumerationProofs --------------------------
(***************************************************************************)
(* Proofs about Enumeration, for every timing, set of devices and bound.   *)
(***************************************************************************)
EXTENDS Enumeration, TLAPS, SequenceTheorems

\* The constants are counts of cycles, of pairs and of attempts.
LEMMA ConstantsType ==
    /\ attach_stable_cycles \in Nat /\ detach_stable_cycles \in Nat /\ reset_cycles \in Nat
    /\ chirp_detect_cycles \in Nat /\ chirp_drive_cycles \in Nat
    /\ chirp_timeout_cycles \in Nat /\ chirp_tail_cycles \in Nat
    /\ reset_recovery_cycles \in Nat /\ recovery_timeout_cycles \in Nat
    /\ nonj_tolerance_cycles \in Nat /\ address_recovery_cycles \in Nat
    /\ HOST_CHIRP_PAIRS \in Nat /\ MAX_ENUM_ATTEMPTS \in Nat
BY TimingAssumption

\* What a device tells: three string indexes, and an interface per endpoint.
LEMMA SourcesType ==
    \A p \in Sources : p.strings \in [1..3 -> Nat] /\ p.interfaces \in Seq(Nat)
<1>1. <<0, 0, 0>> \in [1..3 -> Nat] /\ <<>> \in Seq(Nat)
  OBVIOUS
<1>2. /\ NoProfile.strings = <<0, 0, 0>>
      /\ NoProfile.interfaces = <<>>
  BY DEF NoProfile
<1> QED
  BY <1>1, <1>2, EnumerationAssumption DEF Sources

\* The line is at one of three levels.
LEMMA BusesType ==
    ASSUME NEW bus \in buses
    PROVE  bus.line \in Levels
<1>1. bus.line \in lines
  BY DEF buses
<1>2. CASE device.n = 0
  BY <1>1, <1>2 DEF lines, Levels
<1>3. CASE device.n # 0 /\ reset_active
  BY <1>1, <1>3 DEF lines, Levels
<1>4. CASE device.n # 0 /\ ~reset_active /\ profile.speed = "low"
  BY <1>1, <1>4 DEF lines, Levels
<1>5. CASE device.n # 0 /\ ~reset_active /\ profile.speed # "low"
  BY <1>1, <1>5 DEF lines, Levels
<1> QED BY <1>2, <1>3, <1>4, <1>5

\* The detach counter ticks, and nothing else does.
LEMMA TickedShape ==
    ASSUME Shape, NEW bus
    PROVE  Ticked(bus) \in Counts /\ Ticked(bus).attach = count.attach
<1>1. count \in Counts BY DEF Shape
<1>2. count.detach \in Nat /\ count.detach + 1 \in Nat
  BY <1>1 DEF Counts
<1> QED BY <1>1, <1>2, ConstantsType DEF Ticked, Counts

\* A session that is none.
LEMMA SessionShape ==
    /\ NoSession \in Sessions
    /\ NoSession.connected = FALSE /\ NoSession.ready = FALSE /\ NoSession.address = 0
    /\ NoSession.ep_interface = <<>>
<1>1. <<>> \in Seq(Nat) /\ 0 \in Nat /\ 0 \in {0, 1} /\ "NONE" \in Errors
      /\ FALSE \in BOOLEAN
  BY DEF Errors
<1>2. NoSession \in Sessions
  BY <1>1, Zenon DEF NoSession, Sessions
<1> QED BY <1>2 DEF NoSession

\* clear_session leaves no session.
LEMMA ClearedShape ==
    ASSUME Shape, NEW error \in Errors
    PROVE  /\ Cleared(error) \in Sessions
           /\ Cleared(error).connected = FALSE /\ Cleared(error).ready = FALSE
<1>1. session.enum_attempt \in Nat BY DEF Shape, Sessions
<1> QED BY <1>1, SessionShape DEF Cleared, Sessions

\* The strobes that the steps raise.
LEMMA StrobeShapes ==
    /\ NoStrobe \in Strobes /\ NoStrobe.clear = FALSE /\ NoStrobe.commit = FALSE
    /\ NoStrobe.abort = FALSE /\ NoStrobe.start = NoKey
    /\ Emptied \in Strobes /\ Emptied.clear = TRUE /\ Emptied.commit = FALSE
    /\ Emptied.abort = TRUE /\ Emptied.start = NoKey
    /\ [NoStrobe EXCEPT !.abort = TRUE] \in Strobes
    /\ [NoStrobe EXCEPT !.abort = TRUE].clear = FALSE
    /\ [NoStrobe EXCEPT !.abort = TRUE].commit = FALSE
    /\ [NoStrobe EXCEPT !.abort = TRUE].abort = TRUE
    /\ [NoStrobe EXCEPT !.abort = TRUE].start = NoKey
    /\ [NoStrobe EXCEPT !.clear = TRUE] \in Strobes
    /\ [NoStrobe EXCEPT !.clear = TRUE].clear = TRUE
    /\ [NoStrobe EXCEPT !.clear = TRUE].commit = FALSE
    /\ [NoStrobe EXCEPT !.clear = TRUE].abort = FALSE
    /\ [NoStrobe EXCEPT !.clear = TRUE].start = NoKey
<1>1. NoKey \in Keys BY DEF NoKey, Keys
<1>2. NoStrobe \in Strobes BY <1>1 DEF NoStrobe, Strobes
<1>3. /\ NoStrobe.clear = FALSE /\ NoStrobe.commit = FALSE
      /\ NoStrobe.abort = FALSE /\ NoStrobe.start = NoKey
  BY DEF NoStrobe
<1> QED BY <1>1, <1>2, <1>3 DEF Strobes, Emptied

-----------------------------------------------------------------------------
\* The ways an attempt is given up.
Quiet == ~strobe'.clear /\ ~strobe'.commit /\ ~strobe'.abort /\ strobe'.start = NoKey

Detaches ==
    /\ fsm' = "WAIT_ATTACH" /\ ~session'.connected /\ ~session'.ready
    /\ count'.attach = 0
    /\ strobe'.clear /\ ~strobe'.commit /\ strobe'.start = NoKey
Fails ==
    /\ fsm' = "ERROR" /\ ~session'.ready /\ session'.connected = session.connected
    /\ ~strobe'.clear /\ ~strobe'.commit /\ strobe'.start = NoKey
Retries ==
    /\ fsm' = "BUS_RESET" /\ session'.connected /\ ~session'.ready
    /\ strobe'.clear /\ ~strobe'.commit /\ strobe'.start = NoKey

GivesUp == Detaches \/ Fails \/ Retries

\* What a step leaves of the registers' shape.
ShapeKept == session' \in Sessions /\ count' \in Counts /\ strobe' \in Strobes

\* go_detached: no session, an empty store, and back to the attach.
LEMMA DetachEffect ==
    ASSUME Shape, NEW bus, go_detached(bus)
    PROVE  Detaches /\ ShapeKept
<1>1. count \in Counts BY DEF Shape
<1>2. count' \in Counts /\ count'.attach = 0
  BY <1>1 DEF go_detached, Counts
<1>3. "DISCONNECTED" \in Errors BY DEF Errors
<1>4. session' \in Sessions /\ ~session'.connected /\ ~session'.ready
  BY <1>3, ClearedShape DEF go_detached
<1>5. strobe' = Emptied BY DEF go_detached
<1> QED BY <1>2, <1>4, <1>5, StrobeShapes DEF go_detached, Detaches, ShapeKept

\* fail: the capture is given up, and the session stays connected.
LEMMA FailEffect ==
    ASSUME Shape, NEW bus, NEW error \in Errors, fail(error, bus)
    PROVE  Fails /\ ShapeKept
<1>1. session \in Sessions BY DEF Shape
<1>2. /\ session' \in Sessions /\ ~session'.ready
      /\ session'.connected = session.connected
  BY <1>1 DEF fail, Sessions
<1>3. strobe' = [NoStrobe EXCEPT !.abort = TRUE] BY DEF fail
<1> QED BY <1>2, <1>3, StrobeShapes, TickedShape DEF fail, Fails, ShapeKept

\* retry_enumeration: an empty store, and the reset again.
LEMMA RetryEffect ==
    ASSUME Shape, NEW bus, retry_enumeration(bus)
    PROVE  Retries /\ ShapeKept
<1>1. session \in Sessions BY DEF Shape
<1>2. Cleared("NONE") \in Sessions /\ Cleared("NONE").ready = FALSE
  BY ClearedShape DEF Errors
<1>3. session' \in Sessions /\ session'.connected /\ ~session'.ready
  <2>1. ASSUME NEW s \in Sessions, NEW a \in BOOLEAN, NEW n \in Nat
        PROVE  LET t == [s EXCEPT !.connected = TRUE, !.enumerating = TRUE,
                                  !.traffic_enable = a, !.enum_attempt = n]
               IN  t \in Sessions /\ t.connected = TRUE /\ t.ready = s.ready
    BY DEF Sessions
  <2>2. session.traffic_enable \in BOOLEAN /\ session.enum_attempt + 1 \in Nat
    BY <1>1 DEF Sessions
  <2> QED BY <1>2, <2>1, <2>2 DEF retry_enumeration, Retried
<1>4. Ticked(bus) \in Counts BY TickedShape
<1>5. count' \in Counts
  BY <1>4 DEF retry_enumeration, Counts
<1>6. strobe' = Emptied BY DEF retry_enumeration
<1> QED BY <1>3, <1>5, <1>6, StrobeShapes DEF retry_enumeration, Retries, ShapeKept

\* retry_or_fail does one of the two.
LEMMA RetryOrFailEffect ==
    ASSUME Shape, NEW bus, retry_or_fail(bus)
    PROVE  GivesUp /\ ShapeKept
<1>1. "CONTROL_FAILURE" \in Errors BY DEF Errors
<1> QED BY <1>1, RetryEffect, FailEffect DEF retry_or_fail, GivesUp

\* handle_control_failure does one of the three.
LEMMA ControlFailureEffect ==
    ASSUME Shape, NEW bus, handle_control_failure(bus)
    PROVE  GivesUp /\ ShapeKept
BY DetachEffect, RetryOrFailEffect DEF handle_control_failure, GivesUp

-----------------------------------------------------------------------------
\* The parts of an enumeration that invariants speak about are kept.
SessionKept ==
    /\ session'.connected = session.connected /\ session'.ready = session.ready
    /\ session'.address = session.address /\ session'.ep_interface = session.ep_interface
ParseKept ==
    /\ parse'.byte_count = parse.byte_count /\ parse'.string_indexes = parse.string_indexes
    /\ parse'.string_cursor = parse.string_cursor
    /\ parse'.report_cursor = parse.report_cursor /\ parse'.fetched = parse.fetched

\* The states of the power-up and of the attach.
PowerUp == {"POWER_OFF", "DISCHARGE", "WAIT_ATTACH"}

\* Power and attach: a session begins with a stable J, and with an empty store.
LEMMA AttachEffect ==
    ASSUME Shape, NEW bus \in buses,
           PowerOff(bus) \/ Discharge(bus) \/ WaitAttach(bus)
    PROVE  /\ ShapeKept /\ parse' = parse /\ fsm \in PowerUp
           /\ \/ /\ fsm' \in {"DISCHARGE", "WAIT_ATTACH", "ERROR"}
                 /\ fsm' = "DISCHARGE" => fsm = "POWER_OFF"
                 /\ session'.connected = session.connected /\ session'.ready = session.ready
                 /\ Quiet
                 /\ fsm' = "WAIT_ATTACH" /\ fsm # "WAIT_ATTACH" => count'.attach = 0
              \/ /\ fsm = "WAIT_ATTACH" /\ fsm' = "BUS_RESET" /\ bus.line = "J"
                 /\ session'.connected /\ ~session'.ready /\ count.attach # 0
                 /\ strobe'.clear /\ ~strobe'.commit /\ strobe'.start = NoKey
<1>0. session \in Sessions /\ count \in Counts BY DEF Shape
<1>1. Ticked(bus) \in Counts /\ bus.line \in Levels
  BY TickedShape, BusesType
<1>2. "DISCONNECTED" \in Errors /\ "NONE" \in Errors /\ "UNSUPPORTED_SPEED" \in Errors
  BY DEF Errors
<1>3. CASE PowerOff(bus)
  BY <1>0, <1>1, <1>3, StrobeShapes DEF PowerOff, Goto, ShapeKept, Quiet, PowerUp
<1>4. CASE Discharge(bus)
  <2>1. session' \in Sessions /\ session'.connected = session.connected
        /\ session'.ready = session.ready
    BY <1>0, <1>2, <1>4 DEF Discharge, Sessions
  <2>2. count' \in Counts /\ count'.attach = 0
    BY <1>1, <1>4 DEF Discharge, Counts
  <2> QED BY <1>4, <2>1, <2>2, StrobeShapes DEF Discharge, ShapeKept, Quiet, PowerUp
<1>5. CASE WaitAttach(bus)
  <2>1. ASSUME NEW e \in Errors
        PROVE  /\ [session EXCEPT !.error_code = e] \in Sessions
               /\ [session EXCEPT !.error_code = e].connected = session.connected
               /\ [session EXCEPT !.error_code = e].ready = session.ready
    BY <1>0 DEF Sessions
  <2>2. CASE /\ session' = session \/ \E e \in Errors : session' = [session EXCEPT !.error_code = e]
             /\ strobe' = NoStrobe /\ fsm' \in {"WAIT_ATTACH", "ERROR"}
             /\ \/ \E n \in Nat : count' = [Ticked(bus) EXCEPT !.attach = n]
                \/ \E n \in Nat : count' = [Ticked(bus) EXCEPT !.attach = n, !.attach_state = bus.line]
    <3>1. /\ session' \in Sessions /\ session'.connected = session.connected
          /\ session'.ready = session.ready
      <4>1. CASE session' = session BY <1>0, <4>1
      <4>2. CASE \E e \in Errors : session' = [session EXCEPT !.error_code = e] BY <2>1, <4>2
      <4> QED BY <2>2, <4>1, <4>2
    <3>2. count' \in Counts
      BY <1>1, <2>2 DEF Counts
    <3> QED BY <1>5, <2>2, <3>1, <3>2, StrobeShapes DEF WaitAttach, ShapeKept, Quiet, PowerUp
  <2>3. CASE /\ fsm' = "BUS_RESET" /\ bus.line = "J" /\ count.attach # 0
             /\ session' = [NoSession EXCEPT !.connected = TRUE, !.enumerating = TRUE]
             /\ count' = [Ticked(bus) EXCEPT !.attach = 0, !.detach = 0, !.reset = 0,
                             !.chirp = 0, !.pairs = 0, !.chirp_done = FALSE]
             /\ strobe' = [NoStrobe EXCEPT !.clear = TRUE]
    <3>1. session' \in Sessions /\ session'.connected /\ ~session'.ready
      BY <2>3, SessionShape DEF Sessions
    <3>2. count' \in Counts
      BY <1>1, <2>3 DEF Counts
    <3> QED BY <1>5, <2>3, <3>1, <3>2, StrobeShapes DEF WaitAttach, ShapeKept, PowerUp
  <2>4. Ticked(bus).attach + 1 \in Nat BY <1>1 DEF Counts
  <2> QED BY <1>2, <1>5, <2>2, <2>3, <2>4 DEF WaitAttach
<1> QED BY <1>3, <1>4, <1>5

\* The bus reset and the chirp leave session, parser and store alone.
LEMMA ResetEffect ==
    ASSUME Shape, NEW bus \in buses,
           \/ BusReset(bus) \/ ChirpAwaitDeviceEnd(bus) \/ ChirpDriveK(bus)
           \/ ChirpDriveJ(bus) \/ ResetRecovery(bus)
    PROVE  /\ ShapeKept /\ parse' = parse /\ fsm \in Resets \cup {"RESET_RECOVERY"}
           /\ \/ GivesUp
              \/ fsm' \in Resets \cup {"RESET_RECOVERY", "GET8_START"} /\ SessionKept /\ Quiet
<1>0. session \in Sessions BY DEF Shape
<1>1. Ticked(bus) \in Counts BY TickedShape
<1> DEFINE c == Ticked(bus)
<1>2. count.reset + 1 \in Nat /\ count.chirp + 1 \in Nat
      /\ count.pairs + 1 \in Nat /\ count.recovery + 1 \in Nat /\ count.wait + 1 \in Nat
      /\ count.nonj + 1 \in Nat
  <2>1. count \in Counts BY DEF Shape
  <2> QED BY <2>1 DEF Counts
<1>3. c.reset + 1 \in Nat /\ c.chirp + 1 \in Nat /\ c.pairs + 1 \in Nat
      /\ c.recovery + 1 \in Nat /\ c.wait + 1 \in Nat /\ c.nonj + 1 \in Nat
  BY <1>1 DEF Counts
<1>4. CASE BusReset(bus)
  <2>1. count' \in Counts
    <3>1. c.chirp_done \in BOOLEAN /\ (count.reset >= chirp_timeout_cycles - 1) \in BOOLEAN
      BY <1>1 DEF Counts
    <3>2. \/ count' = [c EXCEPT !.reset = 0, !.recovery = 0, !.wait = 0]
          \/ count' = [c EXCEPT !.reset = @ + 1]
          \/ count' = [c EXCEPT !.reset = @ + 1, !.chirp = 0, !.pairs = 0]
          \/ count' = [c EXCEPT !.reset = @ + 1, !.chirp = @ + 1]
          \/ \E late \in BOOLEAN : count' = [c EXCEPT !.reset = @ + 1, !.chirp = 0, !.chirp_done = late]
      <4> DEFINE late == count.reset >= chirp_timeout_cycles - 1
      <4>1. late \in BOOLEAN BY <3>1
      <4>2. CASE count.reset = reset_cycles - 1
        <5>1. count' = [c EXCEPT !.reset = 0, !.recovery = 0, !.wait = 0]
          BY <1>4, <4>2 DEF BusReset
        <5> QED BY <5>1
      <4>3. CASE count.reset # reset_cycles - 1
        <5>1. \/ count' = [c EXCEPT !.reset = @ + 1]
              \/ count' = [c EXCEPT !.reset = @ + 1, !.chirp = 0, !.pairs = 0]
              \/ count' = [c EXCEPT !.reset = @ + 1, !.chirp = @ + 1]
              \/ count' = [c EXCEPT !.reset = @ + 1, !.chirp = 0, !.chirp_done = late]
          BY <1>4, <4>3 DEF BusReset
        <5> HIDE DEF late
        <5> QED BY <4>1, <5>1
      <4> QED BY <4>2, <4>3
    <3> HIDE DEF c
    <3>3. c \in Counts BY <1>1 DEF c
    <3>4. ASSUME NEW late \in BOOLEAN
          PROVE  [c EXCEPT !.reset = @ + 1, !.chirp = 0, !.chirp_done = late] \in Counts
      BY <1>3, <3>3 DEF Counts
    <3>5. c.reset + 1 \in Nat /\ c.chirp + 1 \in Nat BY <1>3
    <3>6. [c EXCEPT !.reset = 0, !.recovery = 0, !.wait = 0] \in Counts BY <3>3 DEF Counts
    <3>7. [c EXCEPT !.reset = @ + 1] \in Counts BY <3>3, <3>5 DEF Counts
    <3>8. [c EXCEPT !.reset = @ + 1, !.chirp = 0, !.pairs = 0] \in Counts
      BY <3>3, <3>5 DEF Counts
    <3>9. [c EXCEPT !.reset = @ + 1, !.chirp = @ + 1] \in Counts BY <3>3, <3>5 DEF Counts
    <3> QED BY <3>2, <3>4, <3>6, <3>7, <3>8, <3>9
  <2> QED BY <1>0, <1>4, <2>1, StrobeShapes DEF BusReset, ShapeKept, SessionKept, Quiet, Resets
<1>5. CASE ChirpAwaitDeviceEnd(bus)
  <2>1. count' \in Counts
    BY <1>1, <1>2, <1>3, <1>5 DEF ChirpAwaitDeviceEnd, Counts
  <2> QED BY <1>0, <1>5, <2>1, StrobeShapes
          DEF ChirpAwaitDeviceEnd, ShapeKept, SessionKept, Quiet, Resets
<1>6. CASE ChirpDriveK(bus)
  <2>1. count' \in Counts
    BY <1>1, <1>2, <1>3, <1>6 DEF ChirpDriveK, Counts
  <2> QED BY <1>0, <1>6, <2>1, StrobeShapes DEF ChirpDriveK, ShapeKept, SessionKept, Quiet, Resets
<1>7. CASE ChirpDriveJ(bus)
  <2>1. count' \in Counts
    BY <1>1, <1>2, <1>3, <1>7 DEF ChirpDriveJ, Counts
  <2>2. session' \in Sessions /\ SessionKept
    BY <1>0, <1>7 DEF ChirpDriveJ, Sessions, SessionKept
  <2> QED BY <1>7, <2>1, <2>2, StrobeShapes DEF ChirpDriveJ, ShapeKept, Quiet, Resets
<1>8. CASE ResetRecovery(bus)
  <2>1. CASE recovery_over /\ retry_or_fail(bus)
    BY <1>8, <2>1, RetryOrFailEffect DEF ResetRecovery
  <2>2. CASE ~(recovery_over /\ retry_or_fail(bus))
    <3>1. session' \in Sessions /\ SessionKept
      <4>1. session' = [session EXCEPT !.traffic_enable = TRUE]
        BY <1>8, <2>2 DEF ResetRecovery
      <4> QED BY <1>0, <4>1 DEF Sessions, SessionKept
    <3>2. count' \in Counts
      <4> DEFINE d == [c EXCEPT !.wait = IF @ < recovery_timeout_cycles THEN @ + 1 ELSE 0]
      <4>1. d \in Counts /\ d.nonj + 1 \in Nat /\ d.recovery + 1 \in Nat
        BY <1>1, <1>3, ConstantsType DEF Counts
      <4>2. \/ count' = [d EXCEPT !.recovery = 0, !.nonj = 0]
            \/ count' = [d EXCEPT !.nonj = @ + 1]
            \/ count' = [d EXCEPT !.recovery = @ + 1, !.nonj = 0]
        BY <1>8, <2>2 DEF ResetRecovery
      <4> HIDE DEF c, d
      <4>3. CASE count' = [d EXCEPT !.recovery = 0, !.nonj = 0]
        BY <4>1, <4>3 DEF Counts
      <4>4. CASE count' = [d EXCEPT !.nonj = @ + 1]
        BY <4>1, <4>4 DEF Counts
      <4>5. CASE count' = [d EXCEPT !.recovery = @ + 1, !.nonj = 0]
        BY <4>1, <4>5 DEF Counts
      <4> QED BY <4>2, <4>3, <4>4, <4>5
    <3> QED BY <1>8, <2>2, <3>1, <3>2, StrobeShapes DEF ResetRecovery, ShapeKept, Quiet, Resets
  <2> QED BY <2>1, <2>2
<1> QED BY <1>4, <1>5, <1>6, <1>7, <1>8

\* A request is started, or a detach comes first.
LEMMA StartEffect ==
    ASSUME Shape, NEW bus \in buses, Start(bus)
    PROVE  /\ ShapeKept /\ parse' \in Parses /\ fsm \in DOMAIN Starts
           /\ \/ Detaches /\ ~sending(bus)
              \/ /\ sending(bus) /\ fsm' = Starts[fsm] /\ session' = session /\ Quiet
                 /\ parse'.string_indexes = parse.string_indexes
                 /\ parse'.string_cursor = parse.string_cursor
                 /\ parse'.report_cursor = parse.report_cursor
                 /\ parse'.fetched = parse.fetched
                 /\ parse'.byte_count = IF fsm \in {"GET8_START", "CONFIG_HEADER_START"} THEN 0
                                        ELSE parse.byte_count
<1>0. session \in Sessions /\ parse \in Parses BY DEF Shape
<1>1. /\ parse' \in Parses
      /\ parse'.string_indexes = parse.string_indexes
      /\ parse'.string_cursor = parse.string_cursor
      /\ parse'.report_cursor = parse.report_cursor
      /\ parse'.fetched = parse.fetched
      /\ parse'.byte_count = IF fsm \in {"GET8_START", "CONFIG_HEADER_START"} THEN 0
                             ELSE parse.byte_count
  <2>1. CASE fsm = "GET8_START"
    BY <1>0, <2>1 DEF Start, Parses
  <2>2. CASE fsm = "CONFIG_HEADER_START"
    BY <1>0, <2>2 DEF Start, Parses
  <2>3. CASE fsm \notin {"GET8_START", "CONFIG_HEADER_START"}
    BY <1>0, <2>3 DEF Start
  <2> QED BY <2>1, <2>2, <2>3
<1>2. CASE sending(bus)
  BY <1>0, <1>1, <1>2, StrobeShapes, TickedShape DEF Start, Goto, ShapeKept, Quiet
<1>3. CASE ~sending(bus)
  BY <1>1, <1>3, DetachEffect DEF Start
<1> QED BY <1>2, <1>3

\* Behind the address: a wait, and the capture of the device descriptor.
LEMMA RecoveryEffect ==
    ASSUME Shape, NEW bus \in buses, SetAddressRecovery(bus)
    PROVE  /\ ShapeKept /\ parse' \in Parses /\ fsm = "SET_ADDRESS_RECOVERY"
           /\ \/ Detaches
              \/ fsm' = fsm /\ session' = session /\ parse' = parse /\ Quiet
              \/ /\ fsm' = "DEVICE_START" /\ session' = session
                 /\ ~strobe'.clear /\ ~strobe'.commit /\ ~strobe'.abort
                 /\ strobe'.start = <<"device", 0>>
                 /\ parse'.byte_count = 0
<1>0. session \in Sessions /\ parse \in Parses BY DEF Shape
<1>1. Ticked(bus) \in Counts BY TickedShape
<1>2. CASE detached(bus)
  BY <1>0, <1>2, DetachEffect DEF SetAddressRecovery
<1>3. CASE ~detached(bus) /\ count.address # address_recovery_cycles - 1
  <2>1. Ticked(bus).address + 1 \in Nat BY <1>1 DEF Counts
  <2>2. count' \in Counts
    BY <1>1, <1>3, <2>1 DEF SetAddressRecovery, Counts
  <2> QED BY <1>0, <1>3, <2>2, StrobeShapes DEF SetAddressRecovery, ShapeKept, Quiet
<1>4. CASE ~detached(bus) /\ count.address = address_recovery_cycles - 1
  <2>1. count' \in Counts
    BY <1>1, <1>4 DEF SetAddressRecovery, Counts
  <2>2. /\ strobe' \in Strobes /\ ~strobe'.clear /\ ~strobe'.commit /\ ~strobe'.abort
        /\ strobe'.start = <<"device", 0>>
    <3>1. <<"device", 0>> \in Keys BY DEF Keys
    <3> QED BY <1>4, <3>1, StrobeShapes DEF SetAddressRecovery, Strobes
  <2>3. parse' \in Parses /\ parse'.byte_count = 0
    <3>1. <<0, 0, 0>> \in [1..3 -> Nat] OBVIOUS
    <3>2. parse' = [Begun EXCEPT !.string_indexes = <<0, 0, 0>>]
      BY <1>4 DEF SetAddressRecovery
    <3>3. Begun \in Parses /\ Begun.byte_count = 0
      BY <1>0 DEF Begun, Parses
    <3> QED BY <3>1, <3>2, <3>3 DEF Parses
  <2> QED BY <1>0, <1>4, <2>1, <2>2, <2>3 DEF SetAddressRecovery, ShapeKept
<1> QED BY <1>2, <1>3, <1>4

\* READY and ERROR end with a detach.
LEMMA TerminalEffect ==
    ASSUME Shape, NEW bus \in buses, Terminal(bus)
    PROVE  /\ ShapeKept /\ parse' = parse /\ fsm \in {"READY", "ERROR"}
           /\ Detaches \/ (fsm' = fsm /\ session' = session /\ Quiet)
<1>0. session \in Sessions BY DEF Shape
<1>1. CASE detached(bus)
  BY <1>1, DetachEffect DEF Terminal
<1>2. CASE ~detached(bus)
  BY <1>0, <1>2, TickedShape, StrobeShapes DEF Terminal, Stay, ShapeKept, Quiet
<1> QED BY <1>1, <1>2

-----------------------------------------------------------------------------
\* The cursors stay within what they run over, so that the string and the
\* interface that are fetched are of the device's descriptors.
LEMMA CurrentString ==
    ASSUME Shape, CursorsSound, fsm \in ThisString
    PROVE  current_string \in Nat /\ current_string # 0 /\ parse.string_cursor \in 0..2
<1>1. parse.string_indexes \in [1..3 -> Nat] BY DEF Shape, Parses
<1>2. parse.string_cursor \in 0..3 /\ parse.string_cursor # 3 /\ current_string # 0
  BY DEF CursorsSound, AtStrings
<1> QED BY <1>1, <1>2 DEF current_string

\* The report cursor is on an entry of the endpoint table.
LEMMA CurrentInterface ==
    ASSUME Shape, CursorsSound, fsm \in AtReports, ~reports_read
    PROVE  current_interface \in Nat /\ parse.report_cursor \in Nat
           /\ parse.report_cursor + 1 \in 1..Len(session.ep_interface)
<1>1. session.ep_interface \in Seq(Nat) BY DEF Shape, Sessions
<1>2. parse.report_cursor \in 0..Len(session.ep_interface)
      /\ parse.report_cursor # Len(session.ep_interface)
  BY DEF CursorsSound, reports_read
<1>3. Len(session.ep_interface) \in Nat BY <1>1
<1>4. parse.report_cursor + 1 \in 1..Len(session.ep_interface)
  BY <1>2, <1>3
<1>5. current_interface \in Nat
  BY <1>1, <1>4, ElementOfSeq DEF current_interface
<1> QED BY <1>2, <1>4, <1>5

\* The strobes and the registers of a capture that begins.
LEMMA BegunEffect ==
    ASSUME Shape, NEW key \in Keys, strobe' = [NoStrobe EXCEPT !.start = key]
    PROVE  /\ strobe' \in Strobes /\ strobe'.start = key
           /\ ~strobe'.clear /\ ~strobe'.commit /\ ~strobe'.abort
           /\ Begun \in Parses /\ Begun.byte_count = 0
           /\ Begun.string_indexes = parse.string_indexes
           /\ Begun.string_cursor = parse.string_cursor
           /\ Begun.report_cursor = parse.report_cursor /\ Begun.fetched = parse.fetched
<1>1. parse \in Parses BY DEF Shape
<1>2. /\ Begun \in Parses /\ Begun.byte_count = 0
      /\ Begun.string_indexes = parse.string_indexes
      /\ Begun.string_cursor = parse.string_cursor
      /\ Begun.report_cursor = parse.report_cursor /\ Begun.fetched = parse.fetched
  BY <1>1 DEF Begun, Parses
<1> QED BY <1>2, StrobeShapes DEF Strobes

\* A preparation names the capture that the request then fills.
LEMMA PrepareEffect ==
    ASSUME Shape, fsm \in Preps => CursorsSound, NEW bus \in buses, Prepare(bus)
    PROVE  /\ ShapeKept /\ parse' \in Parses
           /\ ~strobe'.clear /\ ~strobe'.commit /\ ~strobe'.abort /\ strobe'.start \in Keys
           /\ parse'.byte_count = 0
           /\ parse'.string_indexes = parse.string_indexes
           /\ parse'.string_cursor = parse.string_cursor
           /\ parse'.report_cursor = parse.report_cursor
           /\ \/ /\ fsm = "CONFIG_PREP" /\ fsm' = "CONFIG_START"
                 /\ strobe'.start = <<"config", 0>> /\ parse'.fetched = parse.fetched
                 /\ session'.connected = session.connected /\ session'.ready = session.ready
                 /\ session'.address = session.address
              \/ /\ fsm = "LANGUAGE_PREP" /\ fsm' = "LANGUAGE_START" /\ session' = session
                 /\ strobe'.start = <<"string", 0>> /\ parse'.fetched = parse.fetched
              \/ /\ fsm = "STRING_PREP" /\ fsm' = "STRING_START" /\ session' = session
                 /\ strobe'.start = <<"string", current_string>> /\ parse'.fetched = parse.fetched
              \/ /\ fsm = "REPORT_PREP" /\ fsm' = "REPORT_START" /\ session' = session
                 /\ strobe'.start = <<"report", current_interface>>
                 /\ parse'.fetched = {current_interface}
<1>0. session \in Sessions BY DEF Shape
<1>1. count' \in Counts
  BY TickedShape DEF Prepare
<1>2. CASE fsm = "CONFIG_PREP"
  <2>1. /\ strobe' = [NoStrobe EXCEPT !.start = <<"config", 0>>] /\ parse' = Begun
        /\ session' = [session EXCEPT !.ep_interface = <<>>] /\ fsm' = "CONFIG_START"
    BY <1>2 DEF Prepare
  <2>2. <<"config", 0>> \in Keys BY DEF Keys
  <2>3. <<>> \in Seq(Nat) OBVIOUS
  <2>4. /\ session' \in Sessions
        /\ session'.connected = session.connected /\ session'.ready = session.ready
        /\ session'.address = session.address
    BY <1>0, <2>1, <2>3 DEF Sessions
  <2> QED BY <1>1, <1>2, <2>1, <2>2, <2>4, BegunEffect DEF ShapeKept
<1>3. CASE fsm = "LANGUAGE_PREP"
  <2>1. /\ strobe' = [NoStrobe EXCEPT !.start = <<"string", 0>>] /\ parse' = Begun
        /\ session' = session /\ fsm' = "LANGUAGE_START"
    BY <1>3 DEF Prepare
  <2>2. <<"string", 0>> \in Keys BY DEF Keys
  <2> QED BY <1>0, <1>1, <1>3, <2>1, <2>2, BegunEffect DEF ShapeKept
<1>4. CASE fsm = "STRING_PREP"
  <2>1. /\ strobe' = [NoStrobe EXCEPT !.start = <<"string", current_string>>]
        /\ parse' = Begun /\ session' = session /\ fsm' = "STRING_START"
    BY <1>4 DEF Prepare
  <2>2. <<"string", current_string>> \in Keys
    BY <1>4, CurrentString DEF Keys, ThisString, Preps
  <2> QED BY <1>0, <1>1, <1>4, <2>1, <2>2, BegunEffect DEF ShapeKept
<1>5. CASE fsm = "REPORT_PREP"
  <2>1. /\ strobe' = [NoStrobe EXCEPT !.start = <<"report", current_interface>>]
        /\ parse' = [Begun EXCEPT !.fetched = {current_interface}]
        /\ session' = session /\ fsm' = "REPORT_START"
    BY <1>5 DEF Prepare
  <2>2. CursorsSound /\ ~reports_read /\ fsm \in AtReports
    BY <1>5 DEF CursorsSound, Preps, AtReports, ThisReport
  <2>3. current_interface \in Nat
    BY <2>2, CurrentInterface
  <2>4. <<"report", current_interface>> \in Keys
    BY <2>3 DEF Keys
  <2>5. Begun \in Parses /\ Begun.byte_count = 0
        /\ Begun.string_indexes = parse.string_indexes
        /\ Begun.string_cursor = parse.string_cursor
        /\ Begun.report_cursor = parse.report_cursor
    BY <2>1, <2>4, BegunEffect
  <2>6. /\ parse' \in Parses /\ parse'.byte_count = 0
        /\ parse'.string_indexes = parse.string_indexes
        /\ parse'.string_cursor = parse.string_cursor
        /\ parse'.report_cursor = parse.report_cursor /\ parse'.fetched = {current_interface}
    BY <2>1, <2>3, <2>5 DEF Parses
  <2> QED BY <1>0, <1>1, <1>5, <2>1, <2>4, <2>6, BegunEffect DEF ShapeKept
<1> QED BY <1>2, <1>3, <1>4, <1>5 DEF Prepare

\* The string cursor: on to the next, to a request, or to the end.
LEMMA StringSelectEffect ==
    ASSUME Shape, NEW bus \in buses, StringSelect(bus)
    PROVE  /\ ShapeKept /\ parse' \in Parses /\ fsm = "STRING_SELECT"
           /\ session' = session /\ Quiet
           /\ \/ /\ fsm' = "SET_CONFIGURATION_START" /\ parse.string_cursor = 3
                 /\ parse' = parse
              \/ /\ fsm' = "STRING_SELECT" /\ parse.string_cursor # 3
                 /\ \/ current_string = 0
                    \/ \E i \in 1..parse.string_cursor : parse.string_indexes[i] = current_string
                 /\ parse'.string_cursor = parse.string_cursor + 1
                 /\ parse'.string_indexes = parse.string_indexes
              \/ /\ fsm' = "STRING_PREP" /\ parse.string_cursor # 3 /\ current_string # 0
                 /\ parse' = parse
<1>0. session \in Sessions /\ parse \in Parses BY DEF Shape
<1>1. /\ [parse EXCEPT !.string_cursor = @ + 1] \in Parses
      /\ [parse EXCEPT !.string_cursor = @ + 1].string_cursor = parse.string_cursor + 1
      /\ [parse EXCEPT !.string_cursor = @ + 1].string_indexes = parse.string_indexes
  BY <1>0 DEF Parses
<1> QED BY <1>0, <1>1, TickedShape, StrobeShapes DEF StringSelect, Goto, Stay, ShapeKept, Quiet

\* The report cursor: on to the next, to a request, or to READY.
LEMMA ReportSelectEffect ==
    ASSUME Shape, NEW bus \in buses, ReportSelect(bus)
    PROVE  /\ ShapeKept /\ parse' \in Parses /\ fsm = "REPORT_SELECT"
           /\ \/ Detaches
              \/ /\ fsm' = "READY" /\ reports_read /\ parse' = parse /\ Quiet
                 /\ session'.connected = session.connected /\ session'.ready
                 /\ session'.address = session.address
                 /\ session'.ep_interface = session.ep_interface
              \/ /\ fsm' = "REPORT_SELECT" /\ session' = session /\ Quiet
                 /\ ~reports_read /\ current_interface \in parse.fetched
                 /\ parse'.report_cursor = parse.report_cursor + 1
                 /\ parse'.string_indexes = parse.string_indexes
                 /\ parse'.fetched = parse.fetched
              \/ /\ fsm' = "REPORT_PREP" /\ session' = session /\ Quiet
                 /\ ~reports_read /\ parse' = parse
<1>0. session \in Sessions /\ parse \in Parses BY DEF Shape
<1>1. CASE detached(bus)
  BY <1>0, <1>1, DetachEffect DEF ReportSelect
<1>2. CASE ~detached(bus) /\ reports_read
  <2>1. "NONE" \in Errors BY DEF Errors
  <2>2. /\ session' \in Sessions
        /\ session'.connected = session.connected /\ session'.ready
        /\ session'.address = session.address
        /\ session'.ep_interface = session.ep_interface
    BY <1>0, <1>2, <2>1 DEF ReportSelect, Sessions
  <2> QED BY <1>0, <1>2, <2>2, TickedShape, StrobeShapes DEF ReportSelect, ShapeKept, Quiet
<1>3. CASE ~detached(bus) /\ ~reports_read
  <2>1. /\ [parse EXCEPT !.report_cursor = @ + 1] \in Parses
        /\ [parse EXCEPT !.report_cursor = @ + 1].report_cursor = parse.report_cursor + 1
        /\ [parse EXCEPT !.report_cursor = @ + 1].string_indexes = parse.string_indexes
        /\ [parse EXCEPT !.report_cursor = @ + 1].fetched = parse.fetched
    BY <1>0 DEF Parses
  <2> QED BY <1>0, <1>3, <2>1, TickedShape, StrobeShapes
          DEF ReportSelect, Goto, Stay, ShapeKept, Quiet
<1> QED BY <1>1, <1>2, <1>3

-----------------------------------------------------------------------------
\* The tables.
LEMMA WaitsAre ==
    /\ Waits = {"GET8_WAIT", "SET_ADDRESS_WAIT", "DEVICE_WAIT", "CONFIG_HEADER_WAIT",
                "CONFIG_WAIT", "LANGUAGE_WAIT", "STRING_WAIT", "SET_CONFIGURATION_WAIT",
                "REPORT_WAIT"}
    /\ Units["GET8_WAIT"] = 1 /\ Units["SET_ADDRESS_WAIT"] = 0 /\ Units["DEVICE_WAIT"] = 2
    /\ Units["CONFIG_HEADER_WAIT"] = 1 /\ Units["CONFIG_WAIT"] = 2
    /\ Units["LANGUAGE_WAIT"] = 2 /\ Units["STRING_WAIT"] = 2
    /\ Units["SET_CONFIGURATION_WAIT"] = 0 /\ Units["REPORT_WAIT"] = 2
    /\ \A w \in Waits : Units[w] \in {0, 1, 2}
BY DEF Waits, Units

\* Each start goes to its wait.
LEMMA StartsAre ==
    /\ DOMAIN Starts = {"GET8_START", "SET_ADDRESS_START", "DEVICE_START",
                        "CONFIG_HEADER_START", "CONFIG_START", "LANGUAGE_START",
                        "STRING_START", "SET_CONFIGURATION_START", "REPORT_START"}
    /\ Starts["GET8_START"] = "GET8_WAIT" /\ Starts["SET_ADDRESS_START"] = "SET_ADDRESS_WAIT"
    /\ Starts["DEVICE_START"] = "DEVICE_WAIT"
    /\ Starts["CONFIG_HEADER_START"] = "CONFIG_HEADER_WAIT"
    /\ Starts["CONFIG_START"] = "CONFIG_WAIT" /\ Starts["LANGUAGE_START"] = "LANGUAGE_WAIT"
    /\ Starts["STRING_START"] = "STRING_WAIT"
    /\ Starts["SET_CONFIGURATION_START"] = "SET_CONFIGURATION_WAIT"
    /\ Starts["REPORT_START"] = "REPORT_WAIT"
BY DEF Starts

\* Each good answer leads on.
LEMMA OnwardIs ==
    /\ Onward["GET8_WAIT"] = "SET_ADDRESS_START"
    /\ Onward["SET_ADDRESS_WAIT"] = "SET_ADDRESS_RECOVERY"
    /\ Onward["DEVICE_WAIT"] = "CONFIG_HEADER_START"
    /\ Onward["CONFIG_HEADER_WAIT"] = "CONFIG_PREP"
    /\ Onward["CONFIG_WAIT"] = IF HasStrings THEN "LANGUAGE_PREP" ELSE "SET_CONFIGURATION_START"
    /\ Onward["LANGUAGE_WAIT"] = "STRING_SELECT" /\ Onward["STRING_WAIT"] = "STRING_SELECT"
    /\ Onward["SET_CONFIGURATION_WAIT"] = "REPORT_SELECT"
    /\ Onward["REPORT_WAIT"] = "REPORT_SELECT"
BY DEF Onward

\* A unit that is accepted counts; the body of the device descriptor brings the
\* indexes of its strings.
LEMMA ReceivedEffect ==
    ASSUME Shape, fsm \in Waits
    PROVE  /\ Received \in Parses
           /\ Received.byte_count = IF accepted THEN parse.byte_count + 1 ELSE parse.byte_count
           /\ Received.string_cursor = parse.string_cursor
           /\ Received.report_cursor = parse.report_cursor
           /\ Received.fetched = parse.fetched
           /\ Received.string_indexes =
                 IF accepted /\ fsm = "DEVICE_WAIT" /\ parse.byte_count = 1
                 THEN engine.source.strings ELSE parse.string_indexes
<1>0. parse \in Parses /\ engine \in Engines BY DEF Shape
<1> DEFINE header == parse.byte_count = 0
           final == parse.byte_count = Units[fsm] - 1
           h == IF ~header THEN parse.header ELSE IF engine.flaw = "header" THEN "bad" ELSE "ok"
           counted == [parse EXCEPT !.byte_count = @ + 1,
                            !.header = IF ~header THEN @ ELSE IF engine.flaw = "header" THEN "bad" ELSE "ok"]
           judged == [counted EXCEPT
                        !.malformed = @ \/ (final /\ engine.flaw = "malformed"),
                        !.oversized = @ \/ (final /\ engine.flaw = "oversized"),
                        !.unsupported = @ \/ (final /\ engine.flaw = "unsupported")]
           filled == [judged EXCEPT !.string_indexes = engine.source.strings]
           Plain(p) == /\ p \in Parses /\ p.byte_count = parse.byte_count + 1
                       /\ p.string_cursor = parse.string_cursor
                       /\ p.report_cursor = parse.report_cursor
                       /\ p.fetched = parse.fetched
<1>1. Plain(counted) /\ counted.string_indexes = parse.string_indexes
  <2>1. parse.byte_count + 1 \in Nat /\ h \in {"none", "ok", "bad"}
    BY <1>0 DEF Parses
  <2> QED BY <1>0, <2>1 DEF Parses
<1>2. Plain(judged) /\ judged.string_indexes = parse.string_indexes
  <2> DEFINE a == counted.malformed \/ (final /\ engine.flaw = "malformed")
             b == counted.oversized \/ (final /\ engine.flaw = "oversized")
             c == counted.unsupported \/ (final /\ engine.flaw = "unsupported")
  <2>1. a \in BOOLEAN /\ b \in BOOLEAN /\ c \in BOOLEAN
    OBVIOUS
  <2>2. judged = [counted EXCEPT !.malformed = a, !.oversized = b, !.unsupported = c]
    OBVIOUS
  <2>3. counted \in Parses BY <1>1
  <2> HIDE DEF counted, judged, a, b, c
  <2>4. /\ judged \in Parses /\ judged.byte_count = counted.byte_count
        /\ judged.string_cursor = counted.string_cursor
        /\ judged.report_cursor = counted.report_cursor
        /\ judged.fetched = counted.fetched /\ judged.string_indexes = counted.string_indexes
    BY <2>1, <2>2, <2>3 DEF Parses
  <2> QED BY <1>1, <2>4
<1>3. Plain(filled) /\ filled.string_indexes = engine.source.strings
  <2>1. engine.source.strings \in [1..3 -> Nat]
    BY <1>0, SourcesType DEF Engines
  <2> HIDE DEF judged
  <2> QED BY <1>2, <2>1 DEF Parses
<1>4. Received = IF ~accepted THEN parse
                 ELSE IF fsm \in {"GET8_WAIT", "LANGUAGE_WAIT", "STRING_WAIT", "REPORT_WAIT"}
                 THEN counted
                 ELSE IF fsm = "DEVICE_WAIT" /\ final THEN filled
                 ELSE judged
  BY DEF Received
<1>5. fsm = "DEVICE_WAIT" => (final <=> parse.byte_count = 1)
  BY <1>0, WaitsAre DEF Parses
<1> HIDE DEF counted, judged, filled, final
<1> QED BY <1>0, <1>1, <1>2, <1>3, <1>4, <1>5

\* An answer is awaited, is good and leads on, or the enumeration gives up.
LEMMA AwaitEffect ==
    ASSUME Shape, NEW bus \in buses, Await(bus)
    PROVE  /\ ShapeKept /\ parse' \in Parses /\ fsm \in Waits
           /\ \/ GivesUp /\ (Retries => engine.done # "none")
              \/ /\ fsm' = fsm /\ Quiet /\ parse' = Received
                 /\ ~(fsm \in Captures /\ store.overflow) /\ engine.done = "none"
                 /\ session'.connected = session.connected /\ session'.ready = session.ready
                 /\ session'.address = session.address /\ session'.ep_interface = TableRead
              \/ /\ fsm' = Onward[fsm] /\ engine.done = "SUCCESS" /\ Refusal = "NONE"
                 /\ ~(fsm \in Captures /\ store.overflow)
                 /\ session'.connected = session.connected /\ session'.ready = session.ready
                 /\ session'.address = IF fsm = "SET_ADDRESS_WAIT" THEN 1 ELSE session.address
                 /\ session'.ep_interface = session.ep_interface
                 /\ ~strobe'.clear /\ (strobe'.commit <=> fsm \in Captures)
                 /\ ~strobe'.abort /\ strobe'.start = NoKey
                 /\ parse'.byte_count = parse.byte_count
                 /\ parse'.string_indexes = parse.string_indexes
                 /\ parse'.string_cursor = IF fsm = "LANGUAGE_WAIT" THEN 0
                       ELSE IF fsm = "STRING_WAIT" THEN parse.string_cursor + 1
                       ELSE parse.string_cursor
                 /\ parse'.report_cursor = IF fsm = "SET_CONFIGURATION_WAIT" THEN 0
                       ELSE IF fsm = "REPORT_WAIT" THEN parse.report_cursor + 1
                       ELSE parse.report_cursor
                 /\ parse'.fetched = IF fsm = "SET_CONFIGURATION_WAIT" THEN {} ELSE parse.fetched
<1>0. session \in Sessions /\ parse \in Parses /\ engine \in Engines BY DEF Shape
<1>1. fsm \in Waits BY DEF Await
<1>2. Ticked(bus) \in Counts BY TickedShape
<1>3. Received \in Parses BY <1>1, ReceivedEffect
<1> DEFINE overflowed == fsm \in Captures /\ store.overflow
<1>4. CASE detached(bus)
  BY <1>1, <1>3, <1>4, DetachEffect DEF Await, GivesUp, Detaches, Retries
<1>5. CASE ~detached(bus) /\ overflowed
  <2>1. "OVERSIZED_DESCRIPTOR" \in Errors BY DEF Errors
  <2>2. fail("OVERSIZED_DESCRIPTOR", bus) /\ parse' = Received
    BY <1>5 DEF Await
  <2> QED BY <1>1, <1>3, <2>1, <2>2, FailEffect DEF GivesUp, Fails, Retries
<1>6. CASE ~detached(bus) /\ ~overflowed /\ engine.done = "none"
  <2>1. TableRead \in Seq(Nat)
    <3>1. engine.source.interfaces \in Seq(Nat)
      BY <1>0, SourcesType DEF Engines
    <3> QED BY <1>0, <3>1 DEF TableRead, Sessions
  <2>2. /\ session' \in Sessions
        /\ session'.connected = session.connected /\ session'.ready = session.ready
        /\ session'.address = session.address /\ session'.ep_interface = TableRead
    BY <1>0, <1>6, <2>1 DEF Await, Sessions
  <2>3. parse' = Received /\ fsm' = fsm /\ strobe' = NoStrobe /\ count' = Ticked(bus)
    BY <1>6 DEF Await
  <2> QED BY <1>1, <1>2, <1>3, <1>6, <2>2, <2>3, StrobeShapes DEF ShapeKept, Quiet
<1>7. CASE ~detached(bus) /\ ~overflowed /\ engine.done \notin {"none", "SUCCESS"}
  BY <1>0, <1>1, <1>7, ControlFailureEffect DEF Await
<1>8. CASE ~detached(bus) /\ ~overflowed /\ engine.done = "SUCCESS" /\ Refusal # "NONE"
  <2>1. Refusal \in Errors
    BY DEF Refusal, Errors
  <2>2. fail(Refusal, bus) /\ parse' = parse
    BY <1>8 DEF Await
  <2> QED BY <1>0, <1>1, <2>1, <2>2, FailEffect DEF GivesUp, Fails, Retries
<1>9. CASE ~detached(bus) /\ ~overflowed /\ engine.done = "SUCCESS" /\ Refusal = "NONE"
  <2>1. Advance(bus)
    BY <1>9 DEF Await
  <2>2. /\ session' \in Sessions
        /\ session'.connected = session.connected /\ session'.ready = session.ready
        /\ session'.address = IF fsm = "SET_ADDRESS_WAIT" THEN 1 ELSE session.address
        /\ session'.ep_interface = session.ep_interface
    BY <1>0, <2>1 DEF Advance, Sessions
  <2>3. count' \in Counts
    BY <1>2, <2>1 DEF Advance, Counts
  <2>4. /\ strobe' \in Strobes /\ ~strobe'.clear /\ (strobe'.commit <=> fsm \in Captures)
        /\ ~strobe'.abort /\ strobe'.start = NoKey
    <3>1. ASSUME NEW b \in BOOLEAN
          PROVE  /\ [NoStrobe EXCEPT !.commit = b] \in Strobes
                 /\ [NoStrobe EXCEPT !.commit = b].clear = FALSE
                 /\ [NoStrobe EXCEPT !.commit = b].commit = b
                 /\ [NoStrobe EXCEPT !.commit = b].abort = FALSE
                 /\ [NoStrobe EXCEPT !.commit = b].start = NoKey
      BY StrobeShapes DEF Strobes
    <3> DEFINE b == fsm \in Captures
    <3>2. b \in BOOLEAN /\ strobe' = [NoStrobe EXCEPT !.commit = b]
      BY <2>1 DEF Advance
    <3> HIDE DEF b
    <3>3. strobe' \in Strobes /\ ~strobe'.clear /\ (strobe'.commit <=> b)
          /\ ~strobe'.abort /\ strobe'.start = NoKey
      BY <3>1, <3>2
    <3> QED BY <3>3 DEF b
  <2>5. /\ parse' \in Parses /\ parse'.byte_count = parse.byte_count
        /\ parse'.string_indexes = parse.string_indexes
        /\ parse'.string_cursor = IF fsm = "LANGUAGE_WAIT" THEN 0
              ELSE IF fsm = "STRING_WAIT" THEN parse.string_cursor + 1
              ELSE parse.string_cursor
        /\ parse'.report_cursor = IF fsm = "SET_CONFIGURATION_WAIT" THEN 0
              ELSE IF fsm = "REPORT_WAIT" THEN parse.report_cursor + 1
              ELSE parse.report_cursor
        /\ parse'.fetched = IF fsm = "SET_CONFIGURATION_WAIT" THEN {} ELSE parse.fetched
    <3>1. CASE fsm = "LANGUAGE_WAIT"
      <4>1. parse' = [parse EXCEPT !.string_cursor = 0]
        BY <2>1, <3>1 DEF Advance
      <4> QED BY <1>0, <3>1, <4>1 DEF Parses
    <3>2. CASE fsm = "STRING_WAIT"
      <4>1. parse' = [parse EXCEPT !.string_cursor = @ + 1]
        BY <2>1, <3>2 DEF Advance
      <4> QED BY <1>0, <3>2, <4>1 DEF Parses
    <3>3. CASE fsm = "SET_CONFIGURATION_WAIT"
      <4>1. parse' = [parse EXCEPT !.report_cursor = 0, !.fetched = {}]
        BY <2>1, <3>3 DEF Advance
      <4> QED BY <1>0, <3>3, <4>1 DEF Parses
    <3>4. CASE fsm = "REPORT_WAIT"
      <4>1. parse' = [parse EXCEPT !.report_cursor = @ + 1]
        BY <2>1, <3>4 DEF Advance
      <4> QED BY <1>0, <3>4, <4>1 DEF Parses
    <3>5. CASE fsm \notin {"LANGUAGE_WAIT", "STRING_WAIT", "SET_CONFIGURATION_WAIT", "REPORT_WAIT"}
      BY <1>0, <2>1, <3>5 DEF Advance
    <3> QED BY <3>1, <3>2, <3>3, <3>4, <3>5
  <2>6. fsm' = Onward[fsm] BY <2>1 DEF Advance
  <2> QED BY <1>1, <1>9, <2>2, <2>3, <2>4, <2>5, <2>6 DEF ShapeKept
<1> QED BY <1>0, <1>4, <1>5, <1>6, <1>7, <1>8, <1>9

-----------------------------------------------------------------------------
\* The engine, the store and the device in a cycle.
LEMMA FlawsAre ==
    \A k \in Waits \cup {"relay"} :
        /\ Flaws[k] \subseteq {"short", "header", "malformed", "oversized", "unsupported"}
        /\ "short" \in Flaws[k] => Asked(k) # 0
BY WaitsAre DEF Flaws, Asked

\* The engine at rest, before a transfer and behind one.
LEMMA EngineShapes ==
    /\ IdleEngine \in Engines /\ IdleEngine.phase = "idle" /\ IdleEngine.done = "none"
    /\ IdleEngine.flaw = "none" /\ IdleEngine.kind = "none"
    /\ \A status \in {"SUCCESS", "TIMEOUT", "DISCONNECTED"} :
          /\ Finished(status) \in Engines /\ Finished(status).phase = "idle"
          /\ Finished(status).kind = "none"
<1>1. NoProfile \in Sources BY DEF Sources
<1>2. IdleEngine \in Engines
  <2>1. "none" \in Kinds BY DEF Kinds
  <2>2. "idle" \in {"idle", "setup", "data", "status"} /\ 0 \in Nat
        /\ "none" \in {"none", "short", "header", "malformed", "oversized", "unsupported"}
        /\ "none" \in {"none", "SUCCESS", "TIMEOUT", "DISCONNECTED"}
    OBVIOUS
  <2> QED BY <1>1, <2>1, <2>2, Zenon DEF IdleEngine, Engines
<1>3. /\ IdleEngine.phase = "idle" /\ IdleEngine.done = "none"
      /\ IdleEngine.flaw = "none" /\ IdleEngine.kind = "none"
  BY DEF IdleEngine
<1> QED BY <1>2, <1>3 DEF Finished, Engines

\* The device on the line is one of the profiles, or none.
LEMMA ProfileType ==
    ASSUME Shape
    PROVE  profile \in Sources
<1>1. CASE device.n = 0
  BY <1>1 DEF profile, Sources
<1>2. CASE device.n # 0
  <2>1. seen \in Seq(Profiles) /\ device.n \in 1..Len(seen)
    BY <1>2 DEF Shape
  <2> QED BY <1>2, <2>1, ElementOfSeq DEF profile, Sources
<1> QED BY <1>1, <1>2

\* A request begins, is undecided, answered, passed on unit by unit, or ends.
LEMMA EngineEffect ==
    ASSUME Shape, NEW bus, NEW outcome \in Outcomes,
           NEW relayed \in {FALSE, session.ready /\ engine.phase = "idle"},
           EngineStep(outcome, relayed, bus)
    PROVE  /\ engine' \in Engines /\ (engine'.phase # "idle" => engine'.kind # "none")
           /\ engine'.phase = "data" => engine'.left # 0
           /\ engine'.phase # "idle" => session.connected
           /\ \/ /\ engine.phase = "idle" /\ ~sending(bus) /\ ~relayed
                 /\ engine'.phase = "idle" /\ engine'.done = "none"
              \/ /\ engine.phase = "idle" /\ (sending(bus) \/ relayed) /\ ~session.connected
                 /\ engine'.phase = "idle"
              \/ /\ engine.phase = "idle" /\ (sending(bus) \/ relayed)
                 /\ engine'.phase = "setup" /\ engine'.done = "none"
                 /\ engine'.kind = IF relayed THEN "relay" ELSE Starts[fsm]
                 /\ engine'.to = IF relayed THEN session.address ELSE target_address
              \/ engine.phase # "idle" /\ engine'.phase = "idle"
              \/ engine.phase = "setup" /\ engine' = engine
              \/ /\ engine.phase = "setup" /\ engine'.phase \in {"data", "status"}
                 /\ engine'.kind = engine.kind /\ engine'.to = engine.to
                 /\ engine'.done = engine.done
                 /\ answers(engine.to) /\ engine'.n = device.n /\ engine'.source = profile
              \/ /\ engine.phase = "data" /\ engine'.phase \in {"data", "status"}
                 /\ engine'.kind = engine.kind /\ engine'.to = engine.to
                 /\ engine'.done = engine.done
                 /\ engine'.n = engine.n /\ engine'.source = engine.source
<1>0. engine \in Engines /\ session \in Sessions /\ device \in Devices BY DEF Shape
<1>1. CASE engine.phase = "idle" /\ ~(sending(bus) \/ relayed)
  <2>1. engine' = IdleEngine
    BY <1>1 DEF EngineStep
  <2> QED BY <1>1, <2>1, EngineShapes
<1>2. CASE engine.phase = "idle" /\ (sending(bus) \/ relayed) /\ ~session.connected
  <2>1. engine' = Finished("DISCONNECTED")
    BY <1>2 DEF EngineStep
  <2> QED BY <1>2, <2>1, EngineShapes
<1>3. CASE engine.phase = "idle" /\ (sending(bus) \/ relayed) /\ session.connected
  <2> DEFINE kind == IF relayed THEN "relay" ELSE Starts[fsm]
             to == IF relayed THEN session.address ELSE target_address
  <2>1. engine' = [IdleEngine EXCEPT !.phase = "setup", !.kind = kind, !.to = to]
    BY <1>3 DEF EngineStep
  <2>2. kind \in Kinds /\ kind # "none"
    <3>1. ~relayed => fsm \in DOMAIN Starts
      BY <1>3 DEF sending
    <3> QED BY <3>1, StartsAre, WaitsAre DEF Kinds
  <2>3. to \in Nat
    BY <1>0 DEF Sessions, target_address
  <2> HIDE DEF kind, to
  <2>4. /\ engine' \in Engines /\ engine'.phase = "setup" /\ engine'.done = "none"
        /\ engine'.kind = kind /\ engine'.to = to
    BY <2>1, <2>2, <2>3, EngineShapes DEF Engines
  <2> QED BY <1>3, <2>2, <2>4 DEF kind, to
<1>4. CASE engine.phase # "idle" /\ ~session.connected
  <2>1. engine' = Finished("DISCONNECTED")
    BY <1>0, <1>4 DEF EngineStep, Engines
  <2> QED BY <1>4, <2>1, EngineShapes
<1>5. CASE engine.phase = "setup" /\ session.connected
  <2>1. CASE outcome = "hold"
    <3>1. engine' = engine BY <1>5, <2>1 DEF EngineStep
    <3> QED BY <1>0, <1>5, <3>1 DEF Shape
  <2>2. CASE outcome = "lost"
    <3>1. engine' = Finished("TIMEOUT") BY <1>5, <2>2 DEF EngineStep
    <3> QED BY <1>5, <3>1, EngineShapes
  <2>3. CASE outcome \notin {"hold", "lost"}
    <3> DEFINE units == IF outcome = "short" THEN Asked(engine.kind) - 1 ELSE Asked(engine.kind)
               next == IF units = 0 THEN "status" ELSE "data"
    <3>1. answers(engine.to) /\ outcome \in {"none"} \cup Flaws[engine.kind]
      BY <1>5, <2>3 DEF Outcomes
    <3>2. engine.kind \in Waits \cup {"relay"}
      BY <1>0, <1>5 DEF Shape, Engines, Kinds
    <3>3. /\ outcome \in {"none", "short", "header", "malformed", "oversized", "unsupported"}
          /\ outcome = "short" => Asked(engine.kind) # 0
      BY <3>1, <3>2, FlawsAre
    <3>4. Asked(engine.kind) \in {0, 1, 2}
      BY <3>2, WaitsAre DEF Asked
    <3>5. units \in Nat
      BY <3>3, <3>4
    <3>6. engine' = [engine EXCEPT !.phase = next, !.left = units,
                                   !.flaw = outcome, !.n = device.n, !.source = profile]
      BY <1>5, <2>3 DEF EngineStep
    <3>7. next \in {"data", "status"} /\ (next = "data" => units # 0)
      OBVIOUS
    <3>8. device.n \in Nat /\ profile \in Sources
      BY <1>0, ProfileType DEF Devices
    <3> HIDE DEF units, next
    <3>9. /\ engine' \in Engines /\ engine'.phase = next /\ engine'.left = units
          /\ engine'.kind = engine.kind /\ engine'.to = engine.to
          /\ engine'.done = engine.done
          /\ engine'.n = device.n /\ engine'.source = profile
      BY <1>0, <3>3, <3>5, <3>6, <3>7, <3>8 DEF Engines
    <3> QED BY <1>5, <3>1, <3>2, <3>7, <3>9, WaitsAre
  <2> QED BY <2>1, <2>2, <2>3
<1>6. CASE engine.phase = "data" /\ session.connected
  <2>1. CASE ~data_ready
    <3>1. engine' = engine BY <1>6, <2>1 DEF EngineStep
    <3> QED BY <1>0, <1>6, <3>1 DEF Shape
  <2>2. CASE data_ready
    <3> DEFINE next == IF engine.left = 1 THEN "status" ELSE engine.phase
               left == engine.left - 1
    <3>1. engine' = [engine EXCEPT !.left = left, !.phase = next]
      BY <1>6, <2>2 DEF EngineStep
    <3>2. left \in Nat /\ (next = "data" => left # 0) /\ next \in {"data", "status"}
      <4>1. engine.left \in Nat /\ engine.left # 0
        BY <1>0, <1>6 DEF Shape, Engines
      <4> QED BY <1>6, <4>1
    <3> HIDE DEF next, left
    <3>3. /\ engine' \in Engines /\ engine'.phase = next /\ engine'.left = left
          /\ engine'.kind = engine.kind /\ engine'.to = engine.to
          /\ engine'.done = engine.done
          /\ engine'.n = engine.n /\ engine'.source = engine.source
      BY <1>0, <3>1, <3>2 DEF Engines
    <3>4. engine.kind # "none" BY <1>6 DEF Shape
    <3> QED BY <1>6, <3>2, <3>3, <3>4
  <2> QED BY <2>1, <2>2
<1>7. CASE engine.phase = "status" /\ session.connected
  <2>1. engine' \in {Finished("TIMEOUT"), Finished("SUCCESS")}
    BY <1>7 DEF EngineStep
  <2> QED BY <1>7, <2>1, EngineShapes
<1> QED BY <1>0, <1>1, <1>2, <1>3, <1>4, <1>5, <1>6, <1>7 DEF Engines

\* An empty store.
LEMMA NoStoreShape ==
    /\ NoStore \in Stores /\ NoStore.active = FALSE /\ NoStore.allocated = FALSE
    /\ NoStore.overflow = FALSE /\ NoStore.units = 0 /\ NoStore.kept = {}
<1>1. NoKey \in Keys /\ FALSE \in BOOLEAN /\ 0 \in Nat
      /\ {} \in SUBSET [key : Keys, n : Nat, units : Nat]
  BY DEF NoKey, Keys
<1>2. NoStore \in Stores
  BY <1>1, Zenon DEF NoStore, Stores
<1> QED BY <1>2 DEF NoStore

\* A commit keeps the store's shape.
LEMMA KeptShape ==
    ASSUME Shape
    PROVE  Kept \in SUBSET [key : Keys, n : Nat, units : Nat]
<1>1. store \in Stores BY DEF Shape
<1>2. [key |-> store.key, n |-> store.n, units |-> store.units] \in [key : Keys, n : Nat, units : Nat]
  BY <1>1 DEF Stores
<1> QED BY <1>1, <1>2 DEF Kept, Stores

\* A capture is cleared, begins, is given up, is committed, takes a unit or
\* has none to take.
LEMMA StoreEffect ==
    ASSUME Shape, NEW full \in BOOLEAN, StoreStep(full)
    PROVE  /\ store' \in Stores
           /\ \/ strobe.clear /\ ~store'.active /\ store'.kept = {}
              \/ ~strobe.clear /\ ~store.active /\ strobe.start = NoKey /\ store' = store
              \/ /\ ~strobe.clear /\ ~store.active /\ strobe.start # NoKey
                 /\ store'.active /\ store'.key = strobe.start /\ store'.units = 0
                 /\ ~store'.allocated /\ ~store'.overflow /\ store'.kept = store.kept
              \/ /\ ~strobe.clear /\ store.active /\ strobe.abort
                 /\ ~store'.active /\ store'.kept = store.kept
              \/ /\ ~strobe.clear /\ store.active /\ ~strobe.abort /\ strobe.commit
                 /\ ~store'.active /\ store'.kept = Kept
              \/ /\ ~strobe.clear /\ store.active /\ ~strobe.abort /\ ~strobe.commit
                 /\ store.allocated /\ ~store.overflow /\ unit_offered
                 /\ store'.active /\ store'.key = store.key /\ store'.kept = store.kept
                 /\ store'.allocated
                 /\ \/ store'.overflow /\ store'.units = store.units /\ store'.n = store.n
                    \/ /\ ~store'.overflow /\ store'.units = store.units + 1
                       /\ store'.n = engine.n
              \/ /\ ~strobe.clear /\ store.active /\ ~strobe.abort /\ ~strobe.commit
                 /\ ~(store.allocated /\ ~store.overflow /\ unit_offered)
                 /\ store'.active /\ store'.key = store.key /\ store'.kept = store.kept
                 /\ store'.allocated /\ (store'.overflow <=> store.overflow)
                 /\ store'.units = store.units /\ store'.n = store.n
<1>0. store \in Stores /\ strobe \in Strobes /\ engine \in Engines BY DEF Shape
<1>1. CASE strobe.clear
  <2>1. store' = NoStore BY <1>1 DEF StoreStep, clear
  <2> QED BY <1>1, <2>1, NoStoreShape
<1>2. CASE ~strobe.clear /\ ~store.active /\ strobe.start = NoKey
  <2>1. store' = store BY <1>2 DEF StoreStep, clear
  <2> QED BY <1>0, <1>2, <2>1
<1>3. CASE ~strobe.clear /\ ~store.active /\ strobe.start # NoKey
  <2>1. store' = [NoStore EXCEPT !.active = TRUE, !.key = strobe.start, !.kept = store.kept]
    BY <1>3 DEF StoreStep, clear
  <2>2. strobe.start \in Keys /\ store.kept \in SUBSET [key : Keys, n : Nat, units : Nat]
    BY <1>0 DEF Strobes, Stores
  <2>3. /\ store' \in Stores
        /\ store'.active /\ store'.key = strobe.start /\ store'.units = 0
        /\ ~store'.allocated /\ ~store'.overflow /\ store'.kept = store.kept
    BY <2>1, <2>2, NoStoreShape DEF Stores
  <2> QED BY <1>3, <2>3
<1>4. CASE ~strobe.clear /\ store.active /\ strobe.abort
  <2>1. store' = [NoStore EXCEPT !.kept = store.kept]
    BY <1>4 DEF StoreStep, clear
  <2>2. store' \in Stores /\ ~store'.active /\ store'.kept = store.kept
    BY <1>0, <2>1, NoStoreShape DEF Stores
  <2> QED BY <1>4, <2>2
<1>5. CASE ~strobe.clear /\ store.active /\ ~strobe.abort /\ strobe.commit
  <2>1. store' = [NoStore EXCEPT !.kept = Kept]
    BY <1>5 DEF StoreStep, clear
  <2>2. store' \in Stores /\ ~store'.active /\ store'.kept = Kept
    BY <2>1, NoStoreShape, KeptShape DEF Stores
  <2> QED BY <1>5, <2>2
<1>6. CASE /\ ~strobe.clear /\ store.active /\ ~strobe.abort /\ ~strobe.commit
           /\ store.allocated /\ ~store.overflow /\ unit_offered
  <2>1. CASE full
    <3>1. store' = [store EXCEPT !.overflow = TRUE]
      BY <1>6, <2>1 DEF StoreStep, clear
    <3>2. /\ store' \in Stores /\ store'.active = store.active /\ store'.key = store.key
          /\ store'.kept = store.kept /\ store'.allocated = store.allocated
          /\ store'.overflow = TRUE /\ store'.units = store.units /\ store'.n = store.n
      BY <1>0, <3>1 DEF Stores
    <3> QED BY <1>6, <3>2
  <2>2. CASE ~full
    <3> DEFINE units == store.units + 1
    <3>1. store' = [store EXCEPT !.units = units, !.n = engine.n]
      BY <1>6, <2>2 DEF StoreStep, clear
    <3>2. engine.n \in Nat /\ units \in Nat BY <1>0 DEF Engines, Stores
    <3> HIDE DEF units
    <3>3. /\ store' \in Stores /\ store'.active = store.active /\ store'.key = store.key
          /\ store'.kept = store.kept /\ store'.allocated = store.allocated
          /\ store'.overflow = store.overflow /\ store'.units = units
          /\ store'.n = engine.n
      BY <1>0, <3>1, <3>2 DEF Stores
    <3> QED BY <1>6, <3>3 DEF units
  <2> QED BY <2>1, <2>2
<1>7. CASE /\ ~strobe.clear /\ store.active /\ ~strobe.abort /\ ~strobe.commit
           /\ ~(store.allocated /\ ~store.overflow /\ unit_offered)
  <2>1. store' = [store EXCEPT !.allocated = TRUE]
    BY <1>7 DEF StoreStep, clear
  <2>2. /\ store' \in Stores /\ store'.active = store.active /\ store'.key = store.key
        /\ store'.kept = store.kept /\ store'.allocated = TRUE
        /\ store'.overflow = store.overflow /\ store'.units = store.units
        /\ store'.n = store.n
    BY <1>0, <2>1 DEF Stores
  <2> QED BY <1>7, <2>2
<1> QED BY <1>1, <1>2, <1>3, <1>4, <1>5, <1>6, <1>7

\* A device that answers at address 1 was there before, at address 1 or with
\* its address under way.
LEMMA DeviceEffect ==
    ASSUME Shape, NEW event \in Events, NEW chirps \in Chirps, DeviceStep(event, chirps)
    PROVE  /\ device' \in Devices /\ device'.n \in 0..Len(seen')
           /\ device'.n = 0 => device'.address = 0
           /\ seen' \in Seq(Profiles) /\ Len(seen) <= Len(seen')
           /\ \A m \in 1..Len(seen) : m \in 1..Len(seen') /\ seen'[m] = seen[m]
           /\ device'.address = 1 =>
                 /\ device'.n = device.n /\ device.n # 0 /\ ~reset_active
                 /\ \/ device.address = 1
                    \/ /\ engine.phase = "status" /\ engine.kind = "SET_ADDRESS_WAIT"
                       /\ answers(engine.to) /\ engine.n = device.n
<1>0. device \in Devices /\ seen \in Seq(Profiles) /\ device.n \in 0..Len(seen) BY DEF Shape
<1>1. /\ NoDevice \in Devices /\ NoDevice.n = 0 /\ NoDevice.address = 0
  BY DEF NoDevice, Devices
<1>2. \/ event.kind = "none"
      \/ event.kind = "unplug"
      \/ event.kind = "plug" /\ event.profile \in Profiles
  BY DEF Events, NoEvent
<1>3. /\ seen' \in Seq(Profiles) /\ Len(seen) \in Nat /\ Len(seen') \in Nat
      /\ Len(seen') = IF event.kind = "plug" THEN Len(seen) + 1 ELSE Len(seen)
      /\ \A m \in 1..Len(seen) : m \in 1..Len(seen') /\ seen'[m] = seen[m]
  <2>1. CASE event.kind = "plug"
    BY <1>0, <1>2, <2>1, AppendProperties DEF DeviceStep
  <2>2. CASE event.kind # "plug"
    BY <1>0, <2>2 DEF DeviceStep
  <2> QED BY <2>1, <2>2
<1>4. CASE event.kind = "unplug" \/ (event.kind = "none" /\ device.n = 0)
  <2>1. device' = NoDevice BY <1>4 DEF DeviceStep
  <2> QED BY <1>1, <1>3, <2>1
<1>5. CASE event.kind = "plug"
  <2>1. device' = [NoDevice EXCEPT !.n = Len(seen) + 1] BY <1>5 DEF DeviceStep, NewDevice
  <2>2. device' \in Devices /\ device'.n = Len(seen) + 1 /\ device'.address = 0
    BY <1>1, <1>3, <2>1 DEF Devices
  <2> QED BY <1>3, <1>5, <2>2
<1>6. CASE event.kind = "none" /\ device.n # 0 /\ reset_active
  <2>1. device' = UnderReset(device, chirps) BY <1>6 DEF DeviceStep
  <2>2. device' \in Devices /\ device'.n = device.n /\ device'.address = 0
    <3> DEFINE paired == fsm = "CHIRP_DRIVE_J" /\ drive_ended /\ device.chirp = "done"
                         /\ device.pairs < HOST_CHIRP_PAIRS
               pairs == IF paired THEN device.pairs + 1 ELSE device.pairs
               reset == device.reset \/ (fsm = "BUS_RESET" /\ count.reset = 0)
               speed == pairs = HOST_CHIRP_PAIRS
               chirp == IF ~chirps THEN device.chirp ELSE IF device.chirp = "no" THEN "K" ELSE "done"
    <3>1. device' = [device EXCEPT !.reset = reset, !.address = 0, !.pairs = pairs,
                                   !.high_speed = speed, !.chirp = chirp]
      BY <2>1 DEF UnderReset
    <3>2. pairs \in Nat /\ chirp \in {"no", "K", "done"}
      BY <1>0 DEF Devices
    <3>3. reset \in BOOLEAN /\ speed \in BOOLEAN
      OBVIOUS
    <3> HIDE DEF paired, pairs, reset, speed, chirp
    <3> QED BY <1>0, <3>1, <3>2, <3>3 DEF Devices
  <2> QED BY <1>0, <1>3, <1>6, <2>2
<1>7. CASE event.kind = "none" /\ device.n # 0 /\ ~reset_active
  <2> DEFINE rest == AtRest(device)
  <2>1. device' = Addressed(rest) BY <1>7 DEF DeviceStep
  <2>2. rest \in Devices /\ rest.n = device.n /\ rest.address = device.address
    <3> DEFINE reset == device.reset /\ fsm # "WAIT_ATTACH"
               speed == device.high_speed /\ fsm # "WAIT_ATTACH"
    <3>1. rest = [device EXCEPT !.chirp = "no", !.pairs = 0, !.high_speed = speed, !.reset = reset]
      BY DEF AtRest
    <3>2. reset \in BOOLEAN /\ speed \in BOOLEAN
      OBVIOUS
    <3> HIDE DEF reset, speed, rest
    <3> QED BY <1>0, <3>1, <3>2 DEF Devices
  <2> HIDE DEF rest
  <2>3. CASE device' = rest
    BY <1>0, <1>3, <1>7, <2>2, <2>3 DEF Shape, Devices
  <2>4. CASE /\ device' = [rest EXCEPT !.address = 1]
             /\ engine.phase = "status" /\ engine.kind = "SET_ADDRESS_WAIT"
             /\ answers(engine.to) /\ engine.n = rest.n
    <3>1. device' \in Devices /\ device'.n = device.n
      BY <2>2, <2>4 DEF Devices
    <3> QED BY <1>0, <1>3, <1>7, <2>2, <2>4, <3>1
  <2> QED BY <2>1, <2>3, <2>4 DEF Addressed
<1> QED BY <1>2, <1>4, <1>5, <1>6, <1>7

-----------------------------------------------------------------------------
\* A cycle, with what happens in it.
CycleOf(bus, event, chirps, outcome, relayed, full, failing) ==
    /\ bus \in buses /\ event \in Events /\ chirps \in Chirps /\ outcome \in Outcomes
    /\ relayed \in {FALSE, session.ready /\ engine.phase = "idle"}
    /\ full \in BOOLEAN /\ failing \in BOOLEAN
    /\ faults' = faults \/ (faults < MaxFaults /\ faults' = faults + 1)
    /\ Cycle(bus, event, chirps, outcome, relayed, full, failing)

\* A step is a cycle of all parts at once.
LEMMA NextIsCycle ==
    ASSUME Shape, Next
    PROVE  \E bus, event, chirps, outcome, relayed, full, failing :
              CycleOf(bus, event, chirps, outcome, relayed, full, failing)
<1>1. PICK bus \in buses, event \in Events, chirps \in Chirps, outcome \in Outcomes,
           relayed \in {FALSE, session.ready /\ engine.phase = "idle"},
           full \in {FALSE, unit_offered /\ store.allocated}, failing \in {FALSE, session.ready} :
           /\ FaultOf(outcome, full, failing) => faults < MaxFaults
           /\ faults' = IF FaultOf(outcome, full, failing) THEN faults + 1 ELSE faults
           /\ Cycle(bus, event, chirps, outcome, relayed, full, failing)
  BY Zenon DEF Next, Steps
<1>2. faults' = faults \/ (faults < MaxFaults /\ faults' = faults + 1)
  BY <1>1
<1>3. full \in BOOLEAN /\ failing \in BOOLEAN
  <2>1. session.ready \in BOOLEAN BY DEF Shape, Sessions
  <2> QED BY <1>1, <2>1
<1> QED BY <1>1, <1>2, <1>3 DEF CycleOf

\* The invariant is about the variables of the specification only.
LEMMA SameIsSame ==
    ASSUME Complete, UNCHANGED vars
    PROVE  Complete'
<1>1. /\ fsm' = fsm /\ session' = session /\ count' = count /\ parse' = parse /\ strobe' = strobe
      /\ engine' = engine /\ store' = store /\ device' = device /\ seen' = seen
      /\ unresponsive' = unresponsive /\ faults' = faults
  BY DEF vars, enumeratorVars
<1>2. Shape' BY <1>1 DEF Complete, Shape
<1>3. SessionSound' BY <1>1 DEF Complete, SessionSound
<1>4. EngineSound' BY <1>1 DEF Complete, EngineSound
<1>5. CaptureKey' = CaptureKey
  BY <1>1 DEF CaptureKey, current_string, current_interface
<1>6. StrobeSound' BY <1>1, <1>5 DEF Complete, StrobeSound
<1>7. StoreSound' BY <1>1, <1>5 DEF Complete, StoreSound
<1>8. /\ (HasStrings <=> HasStrings') /\ (reports_read <=> reports_read')
      /\ current_string' = current_string
  BY <1>1 DEF HasStrings, reports_read, current_string
<1>9. CursorsSound => CursorsSound'
  BY <1>1, <1>8 DEF CursorsSound
<1>10. Captured' = Captured
  <2>1. Strings(3)' = Strings(3) /\ Strings(parse.string_cursor)' = Strings(parse.string_cursor)
    BY <1>1 DEF Strings
  <2>2. /\ Reports(parse.report_cursor)' = Reports(parse.report_cursor)
        /\ Reports(Len(session.ep_interface))' = Reports(Len(session.ep_interface))
    BY <1>1 DEF Reports
  <2> QED BY <1>1, <1>8, <2>1, <2>2 DEF Captured, Languages
<1>11. WillKeep' = WillKeep
  BY <1>1 DEF WillKeep, Kept
<1>12. ASSUME NEW m, Of(m)
       PROVE  Of(m)'
  BY <1>1, <1>10, <1>11, <1>12 DEF Of, StringsRead, TableFilled, Entries
<1>13. OneDevice'
  BY <1>1, <1>9, <1>12 DEF Complete, OneDevice
<1> QED BY <1>2, <1>3, <1>4, <1>6, <1>7, <1>13 DEF Complete

\* What the enumerator's step leaves of the registers' shape.
LEMMA EnumeratorShape ==
    ASSUME Shape, fsm \in Preps => CursorsSound, NEW bus \in buses, EnumeratorStep(bus)
    PROVE  ShapeKept /\ parse' \in Parses
<1>1. parse \in Parses BY DEF Shape
<1>2. CASE PowerOff(bus) \/ Discharge(bus) \/ WaitAttach(bus)
  BY <1>1, <1>2, AttachEffect
<1>3. CASE \/ BusReset(bus) \/ ChirpAwaitDeviceEnd(bus) \/ ChirpDriveK(bus)
           \/ ChirpDriveJ(bus) \/ ResetRecovery(bus)
  BY <1>1, <1>3, ResetEffect
<1>4. CASE Start(bus) BY <1>4, StartEffect
<1>5. CASE Await(bus) BY <1>5, AwaitEffect
<1>6. CASE SetAddressRecovery(bus) BY <1>6, RecoveryEffect
<1>7. CASE Prepare(bus) BY <1>7, PrepareEffect
<1>8. CASE StringSelect(bus) BY <1>8, StringSelectEffect
<1>9. CASE ReportSelect(bus) BY <1>9, ReportSelectEffect
<1>10. CASE Terminal(bus) BY <1>1, <1>10, TerminalEffect
<1> QED
  BY <1>2, <1>3, <1>4, <1>5, <1>6, <1>7, <1>8, <1>9, <1>10 DEF EnumeratorStep

\* The cursors are sound when they are used.
LEMMA PrepsAreAddressing ==
    ASSUME Complete, fsm \in Preps
    PROVE  CursorsSound
BY DEF Complete, OneDevice, Preps, Addressing, AtDevice, AtConfig, AtLanguage, AtStrings,
       ThisString, AtReports, ThisReport

\* A cycle keeps the shape.
LEMMA ShapeStep ==
    ASSUME Complete, NEW bus, NEW event, NEW chirps, NEW outcome, NEW relayed, NEW full,
           NEW failing, CycleOf(bus, event, chirps, outcome, relayed, full, failing)
    PROVE  Shape'
<1>0. Shape BY DEF Complete
<1>1. ShapeKept /\ parse' \in Parses
  BY <1>0, PrepsAreAddressing, EnumeratorShape DEF CycleOf, Cycle
<1>2. engine' \in Engines /\ (engine'.phase # "idle" => engine'.kind # "none")
      /\ (engine'.phase = "data" => engine'.left # 0)
  BY <1>0, EngineEffect DEF CycleOf, Cycle
<1>3. store' \in Stores
  BY <1>0, StoreEffect DEF CycleOf, Cycle
<1>4. /\ device' \in Devices /\ device'.n \in 0..Len(seen')
      /\ device'.n = 0 => device'.address = 0
      /\ seen' \in Seq(Profiles)
  BY <1>0, DeviceEffect DEF CycleOf, Cycle
<1>5. unresponsive' \in BOOLEAN
  BY DEF CycleOf, Cycle, PollersStep
<1>6. faults' \in Nat BY <1>0 DEF CycleOf, Shape
<1> QED BY <1>1, <1>2, <1>3, <1>4, <1>5, <1>6 DEF Shape, ShapeKept

\* An idle line at full speed is a device's.
LEMMA LineOfDevice ==
    ASSUME Shape, NEW bus \in buses, bus.line = "J"
    PROVE  device.n # 0 /\ Len(seen) # 0
<1>1. device.n # 0
  BY DEF buses, lines
<1> QED BY <1>1 DEF Shape

\* A cycle keeps the session in step with the FSM.
LEMMA SessionStep ==
    ASSUME Complete, NEW bus, NEW event, NEW chirps, NEW outcome, NEW relayed, NEW full,
           NEW failing, CycleOf(bus, event, chirps, outcome, relayed, full, failing)
    PROVE  SessionSound'
<1>0. Shape /\ SessionSound /\ bus \in buses /\ EnumeratorStep(bus)
  BY DEF Complete, CycleOf, Cycle
<1> USE DEF Resting, Addressing, AtDevice, AtConfig, AtLanguage, AtStrings, ThisString,
            AtConfiguration, AtReports, ThisReport
<1> DEFINE Sound == /\ session'.ready <=> fsm' = "READY"
                    /\ fsm' \notin Resting => session'.connected
                    /\ fsm' \in {"POWER_OFF", "DISCHARGE", "WAIT_ATTACH"} => ~session'.connected
                    /\ session'.connected => session.connected \/ device.n # 0
                    /\ fsm' \in Addressing => session'.address = 1
<1>1. GivesUp /\ (fsm \notin Resting \/ ~Retries) => Sound
  BY <1>0 DEF GivesUp, Detaches, Fails, Retries, SessionSound
<1>2. Sound
  <2>1. CASE PowerOff(bus) \/ Discharge(bus) \/ WaitAttach(bus)
    BY <1>0, <2>1, AttachEffect, LineOfDevice DEF SessionSound, PowerUp
  <2>2. CASE \/ BusReset(bus) \/ ChirpAwaitDeviceEnd(bus) \/ ChirpDriveK(bus)
             \/ ChirpDriveJ(bus) \/ ResetRecovery(bus)
    BY <1>0, <1>1, <2>2, ResetEffect DEF SessionSound, Resets, SessionKept
  <2>3. CASE Start(bus)
    BY <1>0, <1>1, <2>3, StartEffect, StartsAre DEF SessionSound, GivesUp
  <2>4. CASE Await(bus)
    <3>1. CASE GivesUp BY <1>0, <1>1, <2>4, <3>1, AwaitEffect, WaitsAre
    <3>2. CASE fsm' = fsm
      BY <1>0, <1>1, <2>4, <3>2, AwaitEffect, WaitsAre DEF SessionSound
    <3>3. CASE fsm' = Onward[fsm]
      BY <1>0, <1>1, <2>4, <3>3, AwaitEffect, WaitsAre, OnwardIs DEF SessionSound
    <3> QED BY <1>0, <2>4, <3>1, <3>2, <3>3, AwaitEffect
  <2>5. CASE SetAddressRecovery(bus)
    BY <1>0, <1>1, <2>5, RecoveryEffect DEF SessionSound, GivesUp
  <2>6. CASE Prepare(bus)
    BY <1>0, <2>6, PrepareEffect, PrepsAreAddressing DEF SessionSound
  <2>7. CASE StringSelect(bus)
    BY <1>0, <2>7, StringSelectEffect DEF SessionSound
  <2>8. CASE ReportSelect(bus)
    BY <1>0, <1>1, <2>8, ReportSelectEffect DEF SessionSound, GivesUp
  <2>9. CASE Terminal(bus)
    BY <1>0, <1>1, <2>9, TerminalEffect DEF SessionSound, GivesUp, Detaches, Retries
  <2> QED
    BY <1>0, <2>1, <2>2, <2>3, <2>4, <2>5, <2>6, <2>7, <2>8, <2>9 DEF EnumeratorStep
<1>3. session'.connected => seen' # <<>>
  <2>1. Len(seen) <= Len(seen') /\ seen \in Seq(Profiles) /\ seen' \in Seq(Profiles)
    BY <1>0, DeviceEffect DEF CycleOf, Cycle, Shape
  <2>2. session'.connected => Len(seen) # 0
    <3>1. session'.connected => session.connected \/ device.n # 0
      BY <1>2
    <3> QED BY <1>0, <2>1, <3>1, EmptySeq DEF SessionSound, Shape
  <2> QED BY <2>1, <2>2, EmptySeq
<1> QED BY <1>2, <1>3 DEF SessionSound

\* Only what the FSM asks for, or the relay in READY, is with the engine.
LEMMA EngineSoundStep ==
    ASSUME Complete, NEW bus, NEW event, NEW chirps, NEW outcome, NEW relayed, NEW full,
           NEW failing, CycleOf(bus, event, chirps, outcome, relayed, full, failing)
    PROVE  EngineSound'
<1>0. Shape /\ SessionSound /\ EngineSound /\ bus \in buses /\ EnumeratorStep(bus)
  BY DEF Complete, CycleOf, Cycle
<1> DEFINE Idle == engine.phase = "idle" /\ ~sending(bus) /\ ~relayed
           Next0 == engine'.phase = "idle" /\ engine'.done = "none"
           Begins == /\ engine.phase = "idle" /\ (sending(bus) \/ relayed)
                     /\ engine'.phase = "setup" /\ engine'.done = "none"
                     /\ engine'.kind = IF relayed THEN "relay" ELSE Starts[fsm]
                     /\ engine'.to = IF relayed THEN session.address ELSE target_address
           Goes == /\ engine.phase # "idle" /\ engine'.phase # "idle"
                   /\ engine'.kind = engine.kind /\ engine'.to = engine.to
                   /\ engine'.done = engine.done
<1>1. /\ engine'.phase # "idle" => session.connected
      /\ (Idle /\ Next0) \/ engine'.phase = "idle" \/ Begins \/ Goes
      /\ Idle => Next0
      /\ engine.phase \in {"idle", "setup", "data", "status"}
  <2>1. engine.phase \in {"idle", "setup", "data", "status"}
    BY <1>0 DEF Shape, Engines
  <2> QED BY <1>0, <2>1, EngineEffect DEF CycleOf, Cycle
<1>2. relayed => fsm = "READY" /\ engine.phase = "idle"
  BY <1>0 DEF CycleOf, SessionSound
<1>3. sending(bus) => fsm \in DOMAIN Starts
  BY DEF sending
<1> HIDE DEF Idle, Next0, Begins, Goes
<1>4. engine'.done # "none" => engine'.phase = "idle"
  BY <1>0, <1>1 DEF Idle, Next0, Begins, Goes, EngineSound
<1> DEFINE Sound ==
      /\ fsm' \notin Waits \cup {"READY", "ERROR", "WAIT_ATTACH"} => Next0
      /\ fsm' = "WAIT_ATTACH" /\ engine'.phase # "idle" => count'.attach = 0
      /\ fsm' = "READY" /\ engine'.phase # "idle" => engine'.kind = "relay"
      /\ fsm' \in Waits /\ engine'.phase # "idle" =>
            /\ engine'.kind = fsm'
            /\ engine'.to = IF fsm' \in {"GET8_WAIT", "SET_ADDRESS_WAIT"} THEN 0
                            ELSE session'.address
<1>5. (Retries => Next0) /\ GivesUp => Sound
  BY WaitsAre DEF GivesUp, Detaches, Fails, Retries
<1>6. ASSUME fsm \notin Waits \cup {"READY", "ERROR", "WAIT_ATTACH"} \cup DOMAIN Starts
      PROVE  Next0
  BY <1>0, <1>1, <1>2, <1>3, <1>6 DEF Idle, EngineSound
<1>7. CASE PowerOff(bus) \/ Discharge(bus) \/ WaitAttach(bus)
  <2>1. fsm = "WAIT_ATTACH" => ~session.connected
    BY <1>0 DEF SessionSound
  <2>2. fsm \in PowerUp => ~sending(bus) /\ ~relayed
    BY <1>2, <1>3, StartsAre DEF PowerUp
  <2>3. fsm = "WAIT_ATTACH" /\ count.attach # 0 => Next0
    BY <1>0, <1>1, <2>2 DEF Idle, EngineSound, PowerUp
  <2>4. fsm \in PowerUp /\ fsm # "WAIT_ATTACH" => Next0
    BY <1>6, WaitsAre, StartsAre DEF PowerUp
  <2>5. Sound
    BY <1>0, <1>1, <1>7, <2>1, <2>3, <2>4, AttachEffect, WaitsAre DEF PowerUp
  <2> QED BY <1>4, <2>5 DEF EngineSound, Next0
<1>8. CASE \/ BusReset(bus) \/ ChirpAwaitDeviceEnd(bus) \/ ChirpDriveK(bus)
           \/ ChirpDriveJ(bus) \/ ResetRecovery(bus)
  <2>1. Next0
    BY <1>0, <1>6, <1>8, ResetEffect, WaitsAre, StartsAre DEF Resets
  <2>2. Sound
    BY <1>0, <1>5, <1>8, <2>1, ResetEffect, WaitsAre DEF Resets, Next0
  <2> QED BY <1>4, <2>2 DEF EngineSound, Next0
<1>9. CASE Start(bus)
  <2>1. fsm \in DOMAIN Starts /\ ~relayed /\ engine.phase = "idle"
    BY <1>0, <1>2, <1>9, StartEffect, StartsAre, WaitsAre DEF EngineSound
  <2>2. CASE Detaches
    BY <1>4, <1>5, <2>2 DEF GivesUp, Detaches, Retries, EngineSound, Next0
  <2>3. CASE sending(bus) /\ fsm' = Starts[fsm] /\ session' = session
    <3>1. engine'.phase # "idle" =>
             engine'.kind = fsm' /\ engine'.to = target_address
      BY <1>1, <2>1, <2>3 DEF Begins, Goes, Idle
    <3>2. fsm' \in Waits
          /\ target_address = IF fsm' \in {"GET8_WAIT", "SET_ADDRESS_WAIT"} THEN 0
                              ELSE session'.address
      BY <2>1, <2>3, StartsAre, WaitsAre DEF target_address
    <3>3. fsm' \notin {"READY", "ERROR", "WAIT_ATTACH"}
      BY <3>2, WaitsAre
    <3> QED BY <1>4, <3>1, <3>2, <3>3 DEF EngineSound
  <2> QED BY <1>0, <1>9, <2>2, <2>3, StartEffect
<1>10. CASE Await(bus)
  <2>1. fsm \in Waits /\ ~relayed /\ ~sending(bus)
    BY <1>0, <1>2, <1>3, <1>10, AwaitEffect, StartsAre, WaitsAre
  <2>2. engine.done # "none" => Next0
    BY <1>0, <1>1, <2>1 DEF Idle, EngineSound
  <2>3. CASE GivesUp /\ (Retries => engine.done # "none")
    BY <1>4, <1>5, <2>2, <2>3 DEF EngineSound, Next0
  <2>4. CASE fsm' = fsm /\ session'.address = session.address
    <3>1. engine'.phase # "idle" => Goes
      BY <1>1, <2>1 DEF Begins, Next0
    <3>2. fsm' \notin {"READY", "ERROR", "WAIT_ATTACH"}
      BY <2>1, <2>4, WaitsAre
    <3> QED BY <1>0, <1>4, <2>1, <2>4, <3>1, <3>2 DEF EngineSound, Goes
  <2>5. CASE fsm' = Onward[fsm] /\ engine.done = "SUCCESS"
    <3>1. Next0 /\ fsm' \notin Waits
      BY <2>1, <2>2, <2>5, WaitsAre, OnwardIs
    <3> QED BY <1>4, <3>1 DEF EngineSound, Next0
  <2> QED BY <1>0, <1>10, <2>3, <2>4, <2>5, AwaitEffect
<1>11. CASE SetAddressRecovery(bus)
  <2>1. Next0
    BY <1>0, <1>6, <1>11, RecoveryEffect, WaitsAre, StartsAre
  <2> QED BY <1>0, <1>4, <1>5, <1>11, <2>1, RecoveryEffect, WaitsAre
          DEF EngineSound, Next0, GivesUp, Detaches
<1>12. CASE Prepare(bus)
  <2>1. Next0 /\ fsm' \notin Waits
    BY <1>0, <1>6, <1>12, PrepareEffect, PrepsAreAddressing, WaitsAre, StartsAre
  <2> QED BY <1>4, <2>1 DEF EngineSound, Next0
<1>13. CASE StringSelect(bus)
  <2>1. Next0 /\ fsm' \notin Waits
    BY <1>0, <1>6, <1>13, StringSelectEffect, WaitsAre, StartsAre
  <2> QED BY <1>4, <2>1 DEF EngineSound, Next0
<1>14. CASE ReportSelect(bus)
  <2>1. Next0
    BY <1>0, <1>6, <1>14, ReportSelectEffect, WaitsAre, StartsAre
  <2>2. fsm' \notin Waits
    BY <1>0, <1>14, ReportSelectEffect, WaitsAre DEF Detaches
  <2> QED BY <1>4, <2>1, <2>2 DEF EngineSound, Next0
<1>15. CASE Terminal(bus)
  <2>1. CASE Detaches
    BY <1>4, <1>5, <2>1 DEF GivesUp, Detaches, Retries, EngineSound, Next0
  <2>2. CASE fsm' = fsm
    <3>1. fsm \in {"READY", "ERROR"} /\ ~sending(bus)
      BY <1>0, <1>3, <1>15, TerminalEffect, StartsAre
    <3>2. fsm = "READY" /\ engine'.phase # "idle" => engine'.kind = "relay"
      BY <1>0, <1>1, <3>1 DEF Begins, Goes, Idle, Next0, EngineSound
    <3> QED BY <1>4, <2>2, <3>1, <3>2, WaitsAre DEF EngineSound
  <2> QED BY <1>0, <1>15, <2>1, <2>2, TerminalEffect
<1> QED
  BY <1>0, <1>7, <1>8, <1>9, <1>10, <1>11, <1>12, <1>13, <1>14, <1>15 DEF EnumeratorStep

-----------------------------------------------------------------------------
\* The captures.
LEMMA CaptureKeys ==
    /\ fsm \in AtDevice => CaptureKey = <<"device", 0>>
    /\ fsm \in AtConfig => CaptureKey = <<"config", 0>>
    /\ fsm \in AtLanguage => CaptureKey = <<"string", 0>>
    /\ fsm \in AtStrings => CaptureKey = <<"string", current_string>>
    /\ fsm \in AtReports => CaptureKey = <<"report", current_interface>>
    /\ fsm' \in AtDevice => CaptureKey' = <<"device", 0>>
    /\ fsm' \in AtConfig => CaptureKey' = <<"config", 0>>
    /\ fsm' \in AtLanguage => CaptureKey' = <<"string", 0>>
    /\ fsm' \in AtStrings => CaptureKey' = <<"string", current_string'>>
    /\ fsm' \in AtReports => CaptureKey' = <<"report", current_interface'>>
BY DEF CaptureKey, AtDevice, AtConfig, AtLanguage, AtStrings, ThisString, AtReports, ThisReport

\* The key of a capture is not NoKey.
LEMMA KeyOfCapture ==
    ASSUME fsm \in AtDevice \cup AtConfig \cup AtLanguage \cup AtStrings \cup AtReports
    PROVE  CaptureKey # NoKey
BY CaptureKeys DEF NoKey

\* A captured answer that is not refused has come whole.
LEMMA GoodAnswer ==
    ASSUME Shape, fsm \in Captures, Refusal = "NONE"
    PROVE  parse.byte_count = 2
<1>1. Units[fsm] = 2
  BY WaitsAre DEF Captures
<1> QED BY <1>1 DEF Refusal

\* Under way, no strobe disturbs a capture.
LEMMA StrobesInWaits ==
    ASSUME StrobeSound, fsm \in Waits
    PROVE  ~strobe.clear /\ ~strobe.abort /\ ~strobe.commit /\ strobe.start = NoKey
BY WaitsAre DEF StrobeSound, CaptureStarts

\* A capture goes on: what the FSM counts is what the store takes.
LEMMA CaptureGoesOn ==
    ASSUME Complete, NEW bus, NEW event, NEW chirps, NEW outcome, NEW relayed, NEW full,
           NEW failing, CycleOf(bus, event, chirps, outcome, relayed, full, failing),
           fsm \in Captures
    PROVE  /\ store'.active /\ store'.key = CaptureKey
           /\ store'.units > 0 => store'.allocated
           /\ ~store'.overflow => store'.units = Received.byte_count
           /\ engine.done # "none" /\ ~store.overflow =>
                 ~store'.overflow /\ store'.units = parse.byte_count /\ store'.n = store.n
           /\ store'.n = IF store'.units = store.units THEN store.n ELSE engine.n
           /\ store'.units # store.units => engine.phase = "data"
<1>0. Shape /\ StoreSound /\ StrobeSound /\ EngineSound /\ StoreStep(full) /\ full \in BOOLEAN
  BY DEF Complete, CycleOf, Cycle
<1>1. fsm \in Waits BY WaitsAre DEF Captures
<1>2. /\ ~strobe.clear /\ ~strobe.abort /\ ~strobe.commit
      /\ store.active /\ store.key = CaptureKey
      /\ store.units > 0 => store.allocated
      /\ ~store.overflow => store.units = parse.byte_count
  BY <1>0, <1>1, StrobesInWaits DEF StoreSound
<1>3. Received.byte_count = IF accepted THEN parse.byte_count + 1 ELSE parse.byte_count
  BY <1>0, <1>1, ReceivedEffect
<1>4. accepted <=> store.allocated /\ ~store.overflow /\ unit_offered
  BY <1>1, <1>2 DEF accepted, data_ready, unit_offered
<1>5. engine.done # "none" => engine.phase = "idle"
  BY <1>0 DEF EngineSound
<1>6. store.units \in Nat /\ parse.byte_count \in Nat
  BY <1>0 DEF Shape, Stores, Parses
<1>7. CASE store.allocated /\ ~store.overflow /\ unit_offered
  <2>1. engine.phase = "data" /\ engine.done = "none"
    BY <1>5, <1>7 DEF unit_offered
  <2>2. CASE store'.overflow /\ store'.units = store.units /\ store'.n = store.n
    BY <1>0, <1>2, <1>7, <2>1, <2>2, StoreEffect
  <2>3. CASE ~store'.overflow /\ store'.units = store.units + 1 /\ store'.n = engine.n
    BY <1>0, <1>2, <1>3, <1>4, <1>6, <1>7, <2>1, <2>3, StoreEffect
  <2> QED BY <1>0, <1>2, <1>7, <2>2, <2>3, StoreEffect
<1>8. CASE ~(store.allocated /\ ~store.overflow /\ unit_offered)
  BY <1>0, <1>2, <1>3, <1>4, <1>6, <1>8, StoreEffect
<1> QED BY <1>7, <1>8

\* A commit finds the capture whole.
LEMMA StrobeStep ==
    ASSUME Complete, NEW bus, NEW event, NEW chirps, NEW outcome, NEW relayed, NEW full,
           NEW failing, CycleOf(bus, event, chirps, outcome, relayed, full, failing)
    PROVE  StrobeSound'
<1>0. Shape /\ StoreSound /\ StrobeSound /\ bus \in buses /\ EnumeratorStep(bus)
  BY DEF Complete, CycleOf, Cycle
<1>1. GivesUp => StrobeSound'
  BY DEF GivesUp, Detaches, Fails, Retries, StrobeSound, CaptureStarts
<1>2. Quiet /\ fsm' \notin CaptureStarts => StrobeSound'
  BY DEF Quiet, StrobeSound
<1>3. CASE PowerOff(bus) \/ Discharge(bus) \/ WaitAttach(bus)
  <2>1. CASE fsm' \in {"DISCHARGE", "WAIT_ATTACH", "ERROR"} /\ Quiet
    BY <1>2, <2>1 DEF CaptureStarts
  <2>2. CASE fsm' = "BUS_RESET" /\ strobe'.clear /\ ~strobe'.commit /\ strobe'.start = NoKey
    BY <2>2 DEF StrobeSound, CaptureStarts
  <2> QED BY <1>0, <1>3, <2>1, <2>2, AttachEffect
<1>4. CASE \/ BusReset(bus) \/ ChirpAwaitDeviceEnd(bus) \/ ChirpDriveK(bus)
           \/ ChirpDriveJ(bus) \/ ResetRecovery(bus)
  BY <1>0, <1>1, <1>2, <1>4, ResetEffect DEF CaptureStarts, Resets
<1>5. CASE Start(bus)
  BY <1>0, <1>1, <1>2, <1>5, StartEffect, StartsAre DEF CaptureStarts, GivesUp
<1>6. CASE Await(bus)
  <2>1. CASE GivesUp BY <1>1, <2>1
  <2>2. CASE fsm' = fsm /\ Quiet
    BY <1>0, <1>2, <1>6, <2>2, AwaitEffect, WaitsAre DEF CaptureStarts
  <2>3. CASE /\ fsm' = Onward[fsm] /\ engine.done = "SUCCESS" /\ Refusal = "NONE"
             /\ ~(fsm \in Captures /\ store.overflow)
             /\ ~strobe'.clear /\ (strobe'.commit <=> fsm \in Captures)
             /\ ~strobe'.abort /\ strobe'.start = NoKey
    <3>1. fsm \in Waits BY <1>6 DEF Await
    <3>2. fsm' \notin CaptureStarts
      BY <2>3, <3>1, WaitsAre, OnwardIs DEF CaptureStarts
    <3>3. ASSUME fsm \in Captures
          PROVE  /\ fsm' \in {"CONFIG_HEADER_START", "LANGUAGE_PREP", "STRING_SELECT",
                              "SET_CONFIGURATION_START", "REPORT_SELECT"}
                 /\ store'.active /\ store'.allocated /\ ~store'.overflow /\ store'.units = 2
      <4>1. fsm' \in {"CONFIG_HEADER_START", "LANGUAGE_PREP", "STRING_SELECT",
                      "SET_CONFIGURATION_START", "REPORT_SELECT"}
        BY <2>3, <3>3, OnwardIs DEF Captures
      <4>2. parse.byte_count = 2
        BY <1>0, <2>3, <3>3, GoodAnswer
      <4>3. /\ store'.active /\ (store'.units > 0 => store'.allocated)
            /\ ~store'.overflow /\ store'.units = parse.byte_count
        BY <2>3, <3>3, CaptureGoesOn
      <4> QED BY <4>1, <4>2, <4>3
    <3> QED BY <2>3, <3>2, <3>3 DEF StrobeSound
  <2> QED BY <1>0, <1>6, <2>1, <2>2, <2>3, AwaitEffect
<1>7. CASE SetAddressRecovery(bus)
  <2>1. CASE /\ fsm' = "DEVICE_START" /\ ~strobe'.clear /\ ~strobe'.commit /\ ~strobe'.abort
             /\ strobe'.start = <<"device", 0>> /\ parse'.byte_count = 0
    <3>1. CaptureKey' = <<"device", 0>>
      BY <2>1, CaptureKeys DEF AtDevice
    <3> QED BY <2>1, <3>1 DEF StrobeSound, CaptureStarts
  <2> QED BY <1>0, <1>1, <1>2, <1>7, <2>1, RecoveryEffect DEF CaptureStarts, GivesUp
<1>8. CASE Prepare(bus)
  <2>1. /\ ~strobe'.clear /\ ~strobe'.commit /\ ~strobe'.abort /\ parse'.byte_count = 0
        /\ fsm' \in CaptureStarts
    BY <1>0, <1>8, PrepareEffect, PrepsAreAddressing DEF CaptureStarts
  <2>2. strobe'.start = CaptureKey'
    <3>1. CASE fsm = "CONFIG_PREP"
      BY <1>0, <1>8, <3>1, PrepareEffect, PrepsAreAddressing, CaptureKeys DEF AtConfig
    <3>2. CASE fsm = "LANGUAGE_PREP"
      BY <1>0, <1>8, <3>2, PrepareEffect, PrepsAreAddressing, CaptureKeys DEF AtLanguage
    <3>3. CASE fsm = "STRING_PREP"
      <4>1. fsm' = "STRING_START" /\ strobe'.start = <<"string", current_string>>
            /\ parse'.string_indexes = parse.string_indexes
            /\ parse'.string_cursor = parse.string_cursor
        BY <1>0, <1>8, <3>3, PrepareEffect, PrepsAreAddressing
      <4>2. current_string' = current_string
        BY <4>1 DEF current_string
      <4> QED BY <4>1, <4>2, CaptureKeys DEF AtStrings, ThisString
    <3>4. CASE fsm = "REPORT_PREP"
      <4>1. fsm' = "REPORT_START" /\ strobe'.start = <<"report", current_interface>>
            /\ session' = session /\ parse'.report_cursor = parse.report_cursor
        BY <1>0, <1>8, <3>4, PrepareEffect, PrepsAreAddressing
      <4>2. current_interface' = current_interface
        BY <4>1 DEF current_interface
      <4> QED BY <4>1, <4>2, CaptureKeys DEF AtReports, ThisReport
    <3> QED BY <1>8, <3>1, <3>2, <3>3, <3>4 DEF Prepare
  <2> QED BY <2>1, <2>2 DEF StrobeSound
<1>9. CASE StringSelect(bus)
  BY <1>0, <1>2, <1>9, StringSelectEffect DEF CaptureStarts
<1>10. CASE ReportSelect(bus)
  BY <1>0, <1>1, <1>2, <1>10, ReportSelectEffect DEF CaptureStarts, GivesUp
<1>11. CASE Terminal(bus)
  BY <1>0, <1>1, <1>2, <1>11, TerminalEffect DEF CaptureStarts, GivesUp
<1> QED
  BY <1>0, <1>3, <1>4, <1>5, <1>6, <1>7, <1>8, <1>9, <1>10, <1>11 DEF EnumeratorStep

\* Where the FSM comes from.
LEMMA Origins ==
    ASSUME Complete, NEW bus \in buses, EnumeratorStep(bus)
    PROVE  /\ fsm' \in Unaddressed => strobe'.clear \/ fsm \in Unaddressed
           /\ fsm' \in Addressing =>
                 \/ fsm = "SET_ADDRESS_WAIT" /\ fsm' = "SET_ADDRESS_RECOVERY"
                 \/ fsm \in Addressing
           /\ fsm' \in Addressing \ Captures =>
                 \/ strobe'.commit \/ fsm = "SET_ADDRESS_WAIT"
                 \/ fsm \in Addressing \ (Captures \cup CaptureStarts)
           /\ fsm' \in Captures => fsm' = fsm \/ (fsm \in CaptureStarts /\ fsm' = Starts[fsm])
<1>0. Shape BY DEF Complete
<1> USE DEF Unaddressed, Resets, Captures, CaptureStarts, Addressing, AtDevice, AtConfig, AtLanguage,
            AtStrings, ThisString, AtConfiguration, AtReports, ThisReport
<1>1. CASE fsm' \in {"WAIT_ATTACH", "ERROR"} BY <1>1
<1>2. CASE fsm' = "BUS_RESET" /\ strobe'.clear BY <1>2
<1>3. ASSUME GivesUp PROVE fsm' \in {"WAIT_ATTACH", "ERROR"} \/ (fsm' = "BUS_RESET" /\ strobe'.clear)
  BY <1>3 DEF GivesUp, Detaches, Fails, Retries
<1>4. CASE PowerOff(bus) \/ Discharge(bus) \/ WaitAttach(bus)
  BY <1>0, <1>4, AttachEffect
<1>5. CASE \/ BusReset(bus) \/ ChirpAwaitDeviceEnd(bus) \/ ChirpDriveK(bus)
           \/ ChirpDriveJ(bus) \/ ResetRecovery(bus)
  BY <1>0, <1>1, <1>2, <1>3, <1>5, ResetEffect
<1>6. CASE Start(bus)
  BY <1>0, <1>1, <1>6, StartEffect, StartsAre DEF Detaches
<1>7. CASE Await(bus)
  <2>1. CASE GivesUp BY <1>1, <1>2, <1>3, <2>1
  <2>2. CASE fsm' = fsm BY <1>0, <1>7, <2>2, AwaitEffect, WaitsAre
  <2>3. CASE fsm' = Onward[fsm] /\ (strobe'.commit <=> fsm \in Captures)
    BY <1>0, <1>7, <2>3, AwaitEffect, WaitsAre, OnwardIs
  <2> QED BY <1>0, <1>7, <2>1, <2>2, <2>3, AwaitEffect
<1>8. CASE SetAddressRecovery(bus)
  BY <1>0, <1>1, <1>8, RecoveryEffect DEF Detaches
<1>9. CASE Prepare(bus)
  BY <1>0, <1>9, PrepareEffect, PrepsAreAddressing
<1>10. CASE StringSelect(bus)
  BY <1>0, <1>10, StringSelectEffect
<1>11. CASE ReportSelect(bus)
  BY <1>0, <1>1, <1>11, ReportSelectEffect DEF Detaches
<1>12. CASE Terminal(bus)
  BY <1>0, <1>1, <1>12, TerminalEffect DEF Detaches
<1> QED
  BY <1>4, <1>5, <1>6, <1>7, <1>8, <1>9, <1>10, <1>11, <1>12 DEF EnumeratorStep

\* A state has one action.
LEMMA ActionOf ==
    ASSUME NEW bus, EnumeratorStep(bus)
    PROVE  /\ fsm \in Waits => Await(bus)
           /\ fsm \in DOMAIN Starts => Start(bus)
           /\ fsm \in Preps => Prepare(bus)
           /\ fsm = "SET_ADDRESS_RECOVERY" => SetAddressRecovery(bus)
           /\ fsm = "STRING_SELECT" => StringSelect(bus)
           /\ fsm = "REPORT_SELECT" => ReportSelect(bus)
           /\ fsm = "READY" => Terminal(bus)
BY WaitsAre, StartsAre
   DEF EnumeratorStep, PowerOff, Discharge, WaitAttach, BusReset, ChirpAwaitDeviceEnd,
       ChirpDriveK, ChirpDriveJ, ResetRecovery, Start, Await, SetAddressRecovery, Prepare,
       StringSelect, ReportSelect, Terminal, Preps

\* What the FSM fetches does not change while it is fetched.
LEMMA KeyStands ==
    ASSUME Complete, NEW bus \in buses, EnumeratorStep(bus),
           \/ fsm \in Captures /\ fsm' = fsm
           \/ fsm \in CaptureStarts /\ fsm' = Starts[fsm]
    PROVE  /\ CaptureKey' = CaptureKey
           /\ fsm \in Captures => parse'.byte_count = Received.byte_count /\ ~store.overflow
           /\ fsm \in CaptureStarts => parse'.byte_count = parse.byte_count
<1>0. Shape BY DEF Complete
<1>1. CASE fsm \in Captures /\ fsm' = fsm
  <2>1. Await(bus) /\ fsm \in Waits
    BY <1>1, ActionOf, WaitsAre DEF Captures
  <2>2. /\ parse' = Received /\ ~store.overflow
        /\ session'.ep_interface = TableRead
    BY <1>0, <1>1, <2>1, AwaitEffect, OnwardIs, WaitsAre
       DEF GivesUp, Detaches, Fails, Retries, Captures
  <2>3. /\ parse'.string_cursor = parse.string_cursor
        /\ parse'.report_cursor = parse.report_cursor
        /\ fsm # "DEVICE_WAIT" => parse'.string_indexes = parse.string_indexes
    BY <1>0, <2>1, <2>2, ReceivedEffect
  <2>4. fsm # "CONFIG_WAIT" => session'.ep_interface = session.ep_interface
    BY <2>2 DEF TableRead
  <2>5. fsm # "DEVICE_WAIT" => current_string' = current_string
    BY <2>3 DEF current_string
  <2>6. fsm # "CONFIG_WAIT" => current_interface' = current_interface
    BY <2>3, <2>4 DEF current_interface
  <2>7. CaptureKey' = CaptureKey
    BY <1>1, <2>5, <2>6, CaptureKeys
       DEF Captures, AtDevice, AtConfig, AtLanguage, AtStrings, ThisString, AtReports, ThisReport
  <2>8. fsm \notin CaptureStarts
    BY <1>1 DEF Captures, CaptureStarts
  <2> QED BY <2>2, <2>7, <2>8
<1>2. CASE fsm \in CaptureStarts /\ fsm' = Starts[fsm]
  <2>1. Start(bus)
    BY <1>2, ActionOf, StartsAre DEF CaptureStarts
  <2>2. /\ session' = session /\ parse'.string_indexes = parse.string_indexes
        /\ parse'.string_cursor = parse.string_cursor
        /\ parse'.report_cursor = parse.report_cursor
        /\ parse'.byte_count = parse.byte_count
    BY <1>0, <1>2, <2>1, StartEffect, StartsAre DEF Detaches, CaptureStarts
  <2>3. current_string' = current_string /\ current_interface' = current_interface
    BY <2>2 DEF current_string, current_interface
  <2>4. CaptureKey' = CaptureKey
    BY <1>2, <2>3, CaptureKeys, StartsAre
       DEF CaptureStarts, AtDevice, AtConfig, AtLanguage, AtStrings, ThisString, AtReports, ThisReport
  <2>5. fsm \notin Captures BY <1>2 DEF Captures, CaptureStarts
  <2> QED BY <2>2, <2>4, <2>5
<1> QED BY <1>1, <1>2

\* A cycle keeps the capture in step with the FSM.
LEMMA StoreSoundStep ==
    ASSUME Complete, NEW bus, NEW event, NEW chirps, NEW outcome, NEW relayed, NEW full,
           NEW failing, CycleOf(bus, event, chirps, outcome, relayed, full, failing)
    PROVE  StoreSound'
<1>0. /\ Shape /\ StoreSound /\ StrobeSound /\ bus \in buses /\ EnumeratorStep(bus)
      /\ StoreStep(full) /\ full \in BOOLEAN
  BY DEF Complete, CycleOf, Cycle
<1>1. fsm' \in Unaddressed => strobe'.clear \/ (~store'.active /\ store'.kept = {})
  <2>1. ASSUME fsm \in Unaddressed
        PROVE  ~store'.active /\ store'.kept = {}
    <3>1. strobe.start = NoKey
      BY <1>0, <2>1 DEF StrobeSound, Unaddressed, Resets, CaptureStarts
    <3> QED BY <1>0, <2>1, <3>1, StoreEffect DEF StoreSound
  <2> QED BY <1>0, <2>1, Origins
<1>2. fsm' \in Addressing \ Captures => strobe'.commit \/ ~store'.active
  <2>1. ASSUME fsm \in Addressing \ (Captures \cup CaptureStarts)
        PROVE  ~store'.active
    <3>1. strobe.start = NoKey /\ (strobe.commit \/ ~store.active) /\ ~strobe.clear
      BY <1>0, <2>1 DEF StrobeSound, StoreSound, Addressing, AtDevice, AtConfig, AtLanguage,
           AtStrings, ThisString, AtConfiguration, AtReports, ThisReport
    <3> QED BY <1>0, <3>1, StoreEffect
  <2>2. ASSUME fsm = "SET_ADDRESS_WAIT"
        PROVE  ~store'.active
    <3>1. strobe.start = NoKey /\ ~strobe.clear /\ ~store.active
      BY <1>0, <2>2 DEF StrobeSound, StoreSound, Unaddressed, CaptureStarts
    <3> QED BY <1>0, <3>1, StoreEffect
  <2> QED BY <1>0, <2>1, <2>2, Origins
<1>3. ASSUME fsm' \in Captures
      PROVE  /\ store'.active /\ store'.key = CaptureKey'
             /\ store'.units > 0 => store'.allocated
             /\ ~store'.overflow => store'.units = parse'.byte_count
  <2>1. CASE fsm' = fsm
    BY <1>0, <1>3, <2>1, KeyStands, CaptureGoesOn
  <2>2. CASE fsm \in CaptureStarts /\ fsm' = Starts[fsm]
    <3>1. CaptureKey' = CaptureKey /\ parse'.byte_count = parse.byte_count
      BY <1>0, <2>2, KeyStands
    <3>2. /\ strobe.start = CaptureKey /\ CaptureKey # NoKey /\ parse.byte_count = 0
          /\ ~strobe.clear /\ ~strobe.commit
      BY <1>0, <2>2, KeyOfCapture DEF StrobeSound, CaptureStarts, AtDevice, AtConfig, AtLanguage,
           AtStrings, ThisString, AtReports, ThisReport
    <3>3. ~store.active
      BY <1>0, <2>2, <3>2 DEF StoreSound, CaptureStarts, Addressing, AtDevice, AtConfig, AtLanguage,
           AtStrings, ThisString, AtReports, ThisReport, Captures
    <3>4. store'.active /\ store'.key = CaptureKey /\ store'.units = 0
      BY <1>0, <3>2, <3>3, StoreEffect
    <3> QED BY <3>1, <3>2, <3>4
  <2> QED BY <1>0, <1>3, <2>1, <2>2, Origins
<1> QED BY <1>1, <1>2, <1>3 DEF StoreSound

-----------------------------------------------------------------------------
\* What is captured, stage by stage.
LEMMA CapturedAre ==
    LET base == {<<"device", 0>>, <<"config", 0>>} IN
    /\ fsm \in AtDevice => Captured = {}
    /\ fsm \in AtConfig => Captured = {<<"device", 0>>}
    /\ fsm \in AtLanguage => Captured = base
    /\ fsm \in AtStrings => Captured = base \cup Languages \cup Strings(parse.string_cursor)
    /\ fsm \in AtConfiguration => Captured = base \cup Languages \cup Strings(3)
    /\ fsm \in AtReports =>
          Captured = base \cup Languages \cup Strings(3) \cup Reports(parse.report_cursor)
    /\ fsm = "READY" =>
          Captured = base \cup Languages \cup Strings(3) \cup Reports(Len(session.ep_interface))
BY DEF Captured, AtDevice, AtConfig, AtLanguage, AtStrings, ThisString, AtConfiguration,
       AtReports, ThisReport

\* The same, behind a step.
LEMMA CapturedAreNext ==
    LET base == {<<"device", 0>>, <<"config", 0>>} IN
    /\ fsm' \in AtDevice => Captured' = {}
    /\ fsm' \in AtConfig => Captured' = {<<"device", 0>>}
    /\ fsm' \in AtLanguage => Captured' = base
    /\ fsm' \in AtStrings =>
          Captured' = base \cup Languages' \cup (Strings(parse.string_cursor))'
    /\ fsm' \in AtConfiguration => Captured' = base \cup Languages' \cup Strings(3)'
    /\ fsm' \in AtReports =>
          Captured' = base \cup Languages' \cup Strings(3)' \cup (Reports(parse.report_cursor))'
    /\ fsm' = "READY" =>
          Captured' = base \cup Languages' \cup Strings(3)'
                           \cup (Reports(Len(session.ep_interface)))'
BY DEF Captured, AtDevice, AtConfig, AtLanguage, AtStrings, ThisString, AtConfiguration,
       AtReports, ThisReport

\* The values at the places of a prefix one longer.
LEMMA PrefixNext ==
    ASSUME NEW f, NEW c \in Nat
    PROVE  /\ {f[j] : j \in 1..(c + 1)} = {f[j] : j \in 1..c} \cup {f[c + 1]}
           /\ {f[j] : j \in 1..0} = {}
OBVIOUS

\* One more string, or none when its index is 0 or came before.
LEMMA StringsNext ==
    ASSUME NEW c \in Nat
    PROVE  /\ parse.string_indexes[c + 1] # 0 =>
                Strings(c + 1) = Strings(c) \cup {<<"string", parse.string_indexes[c + 1]>>}
           /\ parse.string_indexes[c + 1] = 0
              \/ (\E i \in 1..c : parse.string_indexes[i] = parse.string_indexes[c + 1]) =>
                Strings(c + 1) = Strings(c)
           /\ Strings(0) = {}
<1> DEFINE Read(i) == {parse.string_indexes[j] : j \in 1..i}
<1>1. Read(c + 1) = Read(c) \cup {parse.string_indexes[c + 1]} /\ Read(0) = {}
  BY PrefixNext
<1>2. (\E i \in 1..c : parse.string_indexes[i] = parse.string_indexes[c + 1]) =>
         parse.string_indexes[c + 1] \in Read(c)
  OBVIOUS
<1>3. \A i : Strings(i) = {<<"string", k>> : k \in Read(i) \ {0}}
  BY DEF Strings
<1> HIDE DEF Read
<1> QED BY <1>1, <1>2, <1>3

\* One more interface, or none when it came before.
LEMMA ReportsNext ==
    ASSUME NEW c \in Nat
    PROVE  /\ Reports(c + 1) = Reports(c) \cup {<<"report", session.ep_interface[c + 1]>>}
           /\ session.ep_interface[c + 1] \in {session.ep_interface[j] : j \in 1..c} =>
                Reports(c + 1) = Reports(c)
           /\ Reports(0) = {}
BY DEF Reports

\* The cursor over the strings stays within the three indexes.
LEMMA StringCursorStep ==
    ASSUME Complete, NEW bus \in buses, EnumeratorStep(bus), fsm' \in AtLanguage \cup AtStrings
    PROVE  /\ HasStrings'
           /\ fsm' \in AtStrings => parse'.string_cursor \in 0..3
           /\ fsm' \in ThisString => parse'.string_cursor # 3 /\ current_string' # 0
<1> USE DEF AtLanguage, AtStrings, ThisString
<1>0. Shape /\ (fsm \in Addressing => CursorsSound) BY DEF Complete, OneDevice
<1>1. /\ parse'.string_indexes = parse.string_indexes => (HasStrings' <=> HasStrings)
      /\ parse'.string_indexes = parse.string_indexes /\ parse'.string_cursor = parse.string_cursor
            => current_string' = current_string
  BY DEF HasStrings, current_string
<1>2. fsm \in Addressing /\ fsm # "READY"
  BY <1>0, Origins, ActionOf, TerminalEffect DEF Addressing, Detaches
<1>3. CursorsSound BY <1>0, <1>2
<1>4. CASE fsm \in Waits
  <2>1. Await(bus) BY <1>4, ActionOf
  <2>2. CASE fsm' = fsm /\ parse' = Received
    <3>1. /\ parse'.string_indexes = parse.string_indexes
          /\ parse'.string_cursor = parse.string_cursor
      BY <1>0, <1>4, <2>2, ReceivedEffect
    <3> QED BY <1>1, <1>3, <2>2, <3>1 DEF CursorsSound
  <2>3. CASE fsm' = Onward[fsm]
    <3>1. fsm \in {"CONFIG_WAIT", "LANGUAGE_WAIT", "STRING_WAIT"}
      BY <1>4, <2>3, WaitsAre, OnwardIs
    <3>2. /\ parse'.string_indexes = parse.string_indexes
          /\ parse'.string_cursor = IF fsm = "LANGUAGE_WAIT" THEN 0
                ELSE IF fsm = "STRING_WAIT" THEN parse.string_cursor + 1
                ELSE parse.string_cursor
      BY <1>0, <2>1, <2>3, <3>1, AwaitEffect, OnwardIs DEF GivesUp, Detaches, Fails, Retries
    <3>3. fsm = "CONFIG_WAIT" => HasStrings /\ fsm' = "LANGUAGE_PREP"
      BY <2>3, OnwardIs
    <3>4. fsm # "CONFIG_WAIT" => HasStrings /\ fsm' = "STRING_SELECT"
      BY <1>3, <2>3, <3>1, OnwardIs DEF CursorsSound
    <3>5. fsm = "STRING_WAIT" => parse.string_cursor \in 0..2
      BY <1>0, <1>3, CurrentString
    <3> QED BY <1>1, <3>1, <3>2, <3>3, <3>4, <3>5
  <2> QED BY <1>0, <1>4, <2>1, <2>2, <2>3, AwaitEffect, WaitsAre
          DEF GivesUp, Detaches, Fails, Retries
<1>5. CASE fsm \in DOMAIN Starts
  <2>1. /\ fsm' = Starts[fsm] /\ parse'.string_indexes = parse.string_indexes
        /\ parse'.string_cursor = parse.string_cursor
    BY <1>0, <1>5, ActionOf, StartEffect DEF Detaches
  <2>2. fsm \in {"LANGUAGE_START", "STRING_START"}
    BY <1>5, <2>1, StartsAre
  <2> QED BY <1>1, <1>3, <2>1, <2>2, StartsAre DEF CursorsSound
<1>6. CASE fsm \in Preps
  <2>1. /\ parse'.string_indexes = parse.string_indexes
        /\ parse'.string_cursor = parse.string_cursor
        /\ \/ fsm = "LANGUAGE_PREP" /\ fsm' = "LANGUAGE_START"
           \/ fsm = "STRING_PREP" /\ fsm' = "STRING_START"
    BY <1>0, <1>3, <1>6, ActionOf, PrepareEffect
  <2> QED BY <1>1, <1>3, <2>1 DEF CursorsSound
<1>7. CASE fsm = "STRING_SELECT"
  <2>1. parse.string_cursor \in 0..3 /\ HasStrings
    BY <1>3, <1>7 DEF CursorsSound
  <2>2. parse.string_cursor # 3 => parse.string_cursor + 1 \in 0..3
    BY <2>1
  <2>3. fsm' = "STRING_SELECT" /\ parse'.string_indexes = parse.string_indexes
           => HasStrings' /\ (parse'.string_cursor = parse.string_cursor + 1
                                /\ parse.string_cursor # 3 => parse'.string_cursor \in 0..3)
    BY <1>1, <2>1, <2>2
  <2>4. fsm' = "STRING_PREP" /\ parse' = parse
           => HasStrings' /\ parse'.string_cursor \in 0..3 /\ current_string' = current_string
    BY <1>1, <2>1
  <2> QED BY <1>0, <1>7, <2>3, <2>4, ActionOf, StringSelectEffect
<1>8. CASE fsm \in {"SET_ADDRESS_RECOVERY", "REPORT_SELECT"}
  BY <1>0, <1>8, ActionOf, RecoveryEffect, ReportSelectEffect DEF Detaches
<1> QED
  BY <1>2, <1>4, <1>5, <1>6, <1>7, <1>8, WaitsAre, StartsAre
     DEF Addressing, AtDevice, AtConfig, AtConfiguration, AtReports, ThisReport, Preps

\* The cursor over the endpoints stays within the table, and what is fetched
\* is in the part that is behind it.
LEMMA ReportCursorStep ==
    ASSUME Complete, NEW bus \in buses, EnumeratorStep(bus), fsm' \in AtReports
    PROVE  /\ parse'.report_cursor \in 0..Len(session'.ep_interface)
           /\ parse'.fetched \subseteq {session'.ep_interface[j] :
                 j \in 1..(IF fsm' = "REPORT_SELECT" THEN parse'.report_cursor
                           ELSE parse'.report_cursor + 1)}
           /\ fsm' \in ThisReport => ~reports_read'
<1> USE DEF AtReports, ThisReport
<1>0. Shape /\ (fsm \in Addressing => CursorsSound) BY DEF Complete, OneDevice
<1>1. fsm \in Addressing /\ fsm # "READY"
  BY <1>0, Origins, ActionOf, TerminalEffect DEF Addressing, Detaches
<1>2. CursorsSound BY <1>0, <1>1
<1>3. session.ep_interface \in Seq(Nat) /\ Len(session.ep_interface) \in Nat
  <2>1. session.ep_interface \in Seq(Nat) BY <1>0 DEF Shape, Sessions
  <2> QED BY <2>1
<1>4. fsm \in AtReports =>
         /\ parse.report_cursor \in 0..Len(session.ep_interface)
         /\ parse.fetched \subseteq {session.ep_interface[j] :
               j \in 1..(IF fsm = "REPORT_SELECT" THEN parse.report_cursor
                         ELSE parse.report_cursor + 1)}
         /\ fsm \in ThisReport => ~reports_read
  BY <1>2 DEF CursorsSound
<1>5. session'.ep_interface = session.ep_interface /\ parse'.report_cursor = parse.report_cursor
         => (reports_read' <=> reports_read)
  BY DEF reports_read
<1>6. CASE fsm \in Waits
  <2>1. Await(bus) BY <1>6, ActionOf
  <2>2. CASE fsm' = fsm /\ parse' = Received /\ session'.ep_interface = TableRead
    <3>1. /\ parse'.report_cursor = parse.report_cursor /\ parse'.fetched = parse.fetched
          /\ session'.ep_interface = session.ep_interface
      BY <1>0, <1>6, <2>2, ReceivedEffect DEF TableRead
    <3> QED BY <1>4, <1>5, <2>2, <3>1
  <2>3. CASE fsm' = Onward[fsm]
    <3>1. fsm \in {"SET_CONFIGURATION_WAIT", "REPORT_WAIT"} /\ fsm' = "REPORT_SELECT"
      BY <1>6, <2>3, WaitsAre, OnwardIs
    <3>2. /\ session'.ep_interface = session.ep_interface
          /\ parse'.report_cursor = IF fsm = "SET_CONFIGURATION_WAIT" THEN 0
                ELSE IF fsm = "REPORT_WAIT" THEN parse.report_cursor + 1
                ELSE parse.report_cursor
          /\ parse'.fetched = IF fsm = "SET_CONFIGURATION_WAIT" THEN {} ELSE parse.fetched
      BY <1>0, <2>1, <2>3, <3>1, AwaitEffect, OnwardIs DEF GivesUp, Detaches, Fails, Retries
    <3>3. fsm = "REPORT_WAIT" => parse.report_cursor + 1 \in 1..Len(session.ep_interface)
      BY <1>0, <1>2, <1>4, CurrentInterface
    <3> QED BY <1>3, <1>4, <3>1, <3>2, <3>3
  <2> QED BY <1>0, <1>6, <2>1, <2>2, <2>3, AwaitEffect, WaitsAre
          DEF GivesUp, Detaches, Fails, Retries
<1>7. CASE fsm \in DOMAIN Starts
  <2>1. /\ fsm' = Starts[fsm] /\ parse'.report_cursor = parse.report_cursor
        /\ parse'.fetched = parse.fetched /\ session' = session
    BY <1>0, <1>7, ActionOf, StartEffect DEF Detaches
  <2>2. fsm = "REPORT_START" /\ fsm' = "REPORT_WAIT"
    BY <1>7, <2>1, StartsAre
  <2> QED BY <1>4, <1>5, <2>1, <2>2
<1>8. CASE fsm \in Preps
  <2>1. /\ parse'.report_cursor = parse.report_cursor /\ session' = session
        /\ parse'.fetched = {current_interface}
        /\ fsm = "REPORT_PREP" /\ fsm' = "REPORT_START"
    BY <1>0, <1>2, <1>8, ActionOf, PrepareEffect
  <2>2. parse.report_cursor + 1 \in 1..(parse.report_cursor + 1)
    BY <1>3, <1>4, <2>1
  <2>3. current_interface \in {session.ep_interface[j] : j \in 1..(parse.report_cursor + 1)}
    BY <2>2 DEF current_interface
  <2> QED BY <1>4, <1>5, <2>1, <2>3
<1>9. CASE fsm = "REPORT_SELECT"
  <2>1. ReportSelect(bus) BY <1>9, ActionOf
  <2>2. CASE /\ fsm' = "REPORT_SELECT" /\ session' = session /\ ~reports_read
             /\ parse'.report_cursor = parse.report_cursor + 1 /\ parse'.fetched = parse.fetched
    <3>1. parse.report_cursor + 1 \in 1..Len(session.ep_interface)
      BY <1>0, <1>2, <1>9, <2>2, CurrentInterface
    <3> QED BY <1>3, <1>4, <1>9, <2>2, <3>1
  <2>3. CASE fsm' = "REPORT_PREP" /\ session' = session /\ ~reports_read /\ parse' = parse
    BY <1>3, <1>4, <1>5, <1>9, <2>3
  <2> QED BY <1>0, <2>1, <2>2, <2>3, ReportSelectEffect DEF Detaches
<1>10. CASE fsm \in {"SET_ADDRESS_RECOVERY", "STRING_SELECT"}
  BY <1>0, <1>10, ActionOf, RecoveryEffect, StringSelectEffect DEF Detaches
<1> QED
  BY <1>1, <1>6, <1>7, <1>8, <1>9, <1>10, WaitsAre, StartsAre
     DEF Addressing, AtDevice, AtConfig, AtLanguage, AtStrings, ThisString, AtConfiguration, Preps

\* A cycle keeps the cursors where their lists are.
LEMMA CursorsStep ==
    ASSUME Complete, NEW bus \in buses, EnumeratorStep(bus)
    PROVE  CursorsSound'
<1>1. ASSUME fsm' \in AtLanguage \cup AtStrings
      PROVE  /\ HasStrings'
             /\ fsm' \in AtStrings => parse'.string_cursor \in 0..3
             /\ fsm' \in ThisString => parse'.string_cursor # 3 /\ current_string' # 0
  BY <1>1, StringCursorStep
<1>2. ASSUME fsm' \in AtReports
      PROVE  /\ parse'.report_cursor \in 0..Len(session'.ep_interface)
             /\ parse'.fetched \subseteq {session'.ep_interface[j] :
                   j \in 1..(IF fsm' = "REPORT_SELECT" THEN parse'.report_cursor
                             ELSE parse'.report_cursor + 1)}
             /\ fsm' \in ThisReport => ~reports_read'
  BY <1>2, ReportCursorStep
<1>3. ThisString \subseteq AtStrings /\ ThisReport \subseteq AtReports
  BY DEF AtStrings, AtReports
<1> QED BY <1>1, <1>2, <1>3 DEF CursorsSound

\* An answer that is not given up is awaited on, or is good.
LEMMA AwaitGoesOn ==
    ASSUME Shape, NEW bus \in buses, EnumeratorStep(bus), fsm \in Waits, fsm' \in Addressing
    PROVE  \/ /\ fsm' = fsm /\ Quiet /\ parse' = Received /\ session'.ep_interface = TableRead
           \/ /\ fsm' = Onward[fsm] /\ fsm' \notin Waits /\ engine.done = "SUCCESS"
              /\ Refusal = "NONE" /\ ~(fsm \in Captures /\ store.overflow)
              /\ session'.ep_interface = session.ep_interface
              /\ (strobe'.commit <=> fsm \in Captures)
              /\ parse'.byte_count = parse.byte_count
              /\ parse'.string_indexes = parse.string_indexes
              /\ parse'.string_cursor = IF fsm = "LANGUAGE_WAIT" THEN 0
                    ELSE IF fsm = "STRING_WAIT" THEN parse.string_cursor + 1
                    ELSE parse.string_cursor
              /\ parse'.report_cursor = IF fsm = "SET_CONFIGURATION_WAIT" THEN 0
                    ELSE IF fsm = "REPORT_WAIT" THEN parse.report_cursor + 1
                    ELSE parse.report_cursor
<1>1. Await(bus) BY ActionOf
<1>2. ~GivesUp
  BY DEF GivesUp, Detaches, Fails, Retries, Addressing, AtDevice, AtConfig, AtLanguage, AtStrings,
         ThisString, AtConfiguration, AtReports, ThisReport
<1>3. Onward[fsm] \notin Waits
  BY WaitsAre, OnwardIs
<1> QED BY <1>1, <1>2, <1>3, AwaitEffect

\* The sets of strings and of reports, as the registers they are made of change.
LEMMA SetsNext ==
    /\ parse'.string_indexes = parse.string_indexes =>
          /\ Languages' = Languages /\ Strings(3)' = Strings(3)
          /\ (Strings(parse.string_cursor))' = Strings(parse'.string_cursor)
    /\ session'.ep_interface = session.ep_interface =>
          /\ (Reports(parse.report_cursor))' = Reports(parse'.report_cursor)
          /\ (Reports(Len(session.ep_interface)))' = Reports(Len(session.ep_interface))
<1>1. ASSUME parse'.string_indexes = parse.string_indexes
      PROVE  /\ Languages' = Languages /\ Strings(3)' = Strings(3)
             /\ (Strings(parse.string_cursor))' = Strings(parse'.string_cursor)
  <2>1. HasStrings' <=> HasStrings BY <1>1 DEF HasStrings
  <2> QED BY <1>1, <2>1 DEF Languages, Strings
<1>2. ASSUME session'.ep_interface = session.ep_interface
      PROVE  /\ (Reports(parse.report_cursor))' = Reports(parse'.report_cursor)
             /\ (Reports(Len(session.ep_interface)))' = Reports(Len(session.ep_interface))
  BY <1>2 DEF Reports
<1> QED BY <1>1, <1>2

\* A commit adds its key to what is captured, and nothing else does.
LEMMA CapturedStep ==
    ASSUME Complete, NEW bus \in buses, EnumeratorStep(bus), fsm \in Addressing, fsm' \in Addressing
    PROVE  Captured' = IF strobe'.commit THEN Captured \cup {CaptureKey} ELSE Captured
<1>0. Shape /\ CursorsSound BY DEF Complete, OneDevice
<1> USE DEF AtDevice, AtConfig, AtLanguage, AtStrings, ThisString, AtConfiguration, AtReports, ThisReport
<1>1. CASE fsm \in {"SET_ADDRESS_RECOVERY", "CONFIG_PREP", "LANGUAGE_PREP"}
  <2>1. ~strobe'.commit /\ (fsm = "SET_ADDRESS_RECOVERY" => fsm' \in AtDevice)
        /\ (fsm = "CONFIG_PREP" => fsm' = "CONFIG_START")
        /\ (fsm = "LANGUAGE_PREP" => fsm' = "LANGUAGE_START")
    BY <1>0, <1>1, ActionOf, RecoveryEffect, PrepareEffect DEF Preps, Quiet, Addressing, Detaches
  <2> QED BY <1>1, <2>1, CapturedAre, CapturedAreNext
<1>2. CASE fsm \in {"STRING_PREP", "REPORT_PREP"}
  <2>1. /\ ~strobe'.commit /\ session' = session
        /\ parse'.string_indexes = parse.string_indexes
        /\ parse'.string_cursor = parse.string_cursor
        /\ parse'.report_cursor = parse.report_cursor
        /\ (fsm = "STRING_PREP" => fsm' = "STRING_START")
        /\ (fsm = "REPORT_PREP" => fsm' = "REPORT_START")
    BY <1>0, <1>2, ActionOf, PrepareEffect DEF Preps
  <2> QED BY <1>2, <2>1, CapturedAre, CapturedAreNext, SetsNext
<1>3. CASE fsm \in DOMAIN Starts
  <2>1. /\ ~strobe'.commit /\ session' = session /\ fsm' = Starts[fsm]
        /\ parse'.string_indexes = parse.string_indexes
        /\ parse'.string_cursor = parse.string_cursor
        /\ parse'.report_cursor = parse.report_cursor
    BY <1>0, <1>3, ActionOf, StartEffect DEF Quiet, Addressing, Detaches
  <2>2. /\ Languages' = Languages /\ Strings(3)' = Strings(3)
        /\ (Strings(parse.string_cursor))' = Strings(parse.string_cursor)
        /\ (Reports(parse.report_cursor))' = Reports(parse.report_cursor)
    BY <2>1, SetsNext
  <2>3. fsm \in {"DEVICE_START", "CONFIG_HEADER_START", "CONFIG_START", "LANGUAGE_START",
                 "STRING_START", "SET_CONFIGURATION_START", "REPORT_START"}
    BY <1>3, StartsAre DEF Addressing
  <2>4. CASE fsm \in {"DEVICE_START", "CONFIG_HEADER_START", "CONFIG_START", "LANGUAGE_START"}
    <3>1. CASE fsm \in {"DEVICE_START", "CONFIG_HEADER_START", "CONFIG_START"}
      <4>1. \/ fsm = "DEVICE_START" /\ fsm' = "DEVICE_WAIT"
            \/ fsm = "CONFIG_HEADER_START" /\ fsm' = "CONFIG_HEADER_WAIT"
            \/ fsm = "CONFIG_START" /\ fsm' = "CONFIG_WAIT"
        BY <2>1, <3>1, StartsAre
      <4> QED BY <2>1, <4>1, CapturedAre, CapturedAreNext
    <3>2. CASE fsm = "LANGUAGE_START"
      <4>1. fsm' = "LANGUAGE_WAIT" BY <2>1, <3>2, StartsAre
      <4> QED BY <2>1, <3>2, <4>1, CapturedAre, CapturedAreNext
    <3> QED BY <2>4, <3>1, <3>2
  <2>5. CASE fsm = "STRING_START"
    BY <2>1, <2>2, <2>5, StartsAre, CapturedAre, CapturedAreNext
  <2>6. CASE fsm = "SET_CONFIGURATION_START"
    <3>1. fsm' = "SET_CONFIGURATION_WAIT" BY <2>1, <2>6, StartsAre
    <3> QED BY <2>1, <2>2, <2>6, <3>1, CapturedAre, CapturedAreNext
  <2>7. CASE fsm = "REPORT_START"
    <3>1. fsm' = "REPORT_WAIT" BY <2>1, <2>7, StartsAre
    <3> QED BY <2>1, <2>2, <2>7, <3>1, CapturedAre, CapturedAreNext
  <2> QED BY <2>3, <2>4, <2>5, <2>6, <2>7
<1>4. CASE fsm = "STRING_SELECT"
  <2>0. StringSelect(bus) BY <1>4, ActionOf
  <2>1. ~strobe'.commit /\ session' = session
    BY <1>0, <2>0, StringSelectEffect DEF Quiet
  <2>2. parse.string_cursor \in Nat BY <1>0 DEF Shape, Parses
  <2>3. CASE fsm' = "SET_CONFIGURATION_START" /\ parse.string_cursor = 3 /\ parse' = parse
    BY <1>4, <2>1, <2>3, CapturedAre, CapturedAreNext, SetsNext
  <2>4. CASE /\ fsm' = "STRING_SELECT"
             /\ \/ current_string = 0
                \/ \E i \in 1..parse.string_cursor : parse.string_indexes[i] = current_string
             /\ parse'.string_cursor = parse.string_cursor + 1
             /\ parse'.string_indexes = parse.string_indexes
    <3>1. Strings(parse.string_cursor + 1) = Strings(parse.string_cursor)
      BY <2>2, <2>4, StringsNext DEF current_string
    <3> QED BY <1>4, <2>1, <2>4, <3>1, CapturedAre, CapturedAreNext, SetsNext
  <2>5. CASE fsm' = "STRING_PREP" /\ parse' = parse
    BY <1>4, <2>1, <2>5, CapturedAre, CapturedAreNext, SetsNext
  <2> QED BY <1>0, <2>0, <2>3, <2>4, <2>5, StringSelectEffect
<1>5. CASE fsm = "REPORT_SELECT"
  <2>0. ReportSelect(bus) BY <1>5, ActionOf
  <2>1. parse.report_cursor \in Nat BY <1>0 DEF Shape, Parses
  <2>2. CASE /\ fsm' = "READY" /\ reports_read /\ parse' = parse /\ Quiet
             /\ session'.ep_interface = session.ep_interface
    BY <1>5, <2>2, CapturedAre, CapturedAreNext, SetsNext DEF reports_read, Quiet
  <2>3. CASE /\ fsm' = "REPORT_SELECT" /\ session' = session /\ Quiet
             /\ current_interface \in parse.fetched
             /\ parse'.report_cursor = parse.report_cursor + 1
             /\ parse'.string_indexes = parse.string_indexes
    <3>1. current_interface \in {session.ep_interface[j] : j \in 1..parse.report_cursor}
      BY <1>0, <1>5, <2>3 DEF CursorsSound
    <3>2. Reports(parse.report_cursor + 1) = Reports(parse.report_cursor)
      BY <2>1, <3>1, ReportsNext DEF current_interface
    <3> QED BY <1>5, <2>3, <3>2, CapturedAre, CapturedAreNext, SetsNext DEF Quiet
  <2>4. CASE fsm' = "REPORT_PREP" /\ session' = session /\ Quiet /\ parse' = parse
    BY <1>5, <2>4, CapturedAre, CapturedAreNext, SetsNext DEF Quiet
  <2> QED BY <1>0, <2>0, <2>2, <2>3, <2>4, ReportSelectEffect DEF Addressing, Detaches
<1>6. CASE fsm = "READY"
  <2>1. fsm' = fsm /\ session' = session /\ Quiet /\ parse' = parse
    BY <1>0, <1>6, ActionOf, TerminalEffect DEF Addressing, Detaches
  <2> QED BY <1>6, <2>1, CapturedAre, CapturedAreNext, SetsNext DEF Quiet
<1>7. CASE fsm \in Waits /\ fsm' = fsm
  <2>1. /\ Quiet /\ parse' = Received /\ session'.ep_interface = TableRead
    BY <1>0, <1>7, AwaitGoesOn
  <2>2. /\ fsm # "DEVICE_WAIT" => parse'.string_indexes = parse.string_indexes
        /\ parse'.string_cursor = parse.string_cursor
        /\ parse'.report_cursor = parse.report_cursor
        /\ fsm # "CONFIG_WAIT" => session'.ep_interface = session.ep_interface
    BY <1>0, <1>7, <2>1, ReceivedEffect DEF TableRead
  <2>3. fsm \in {"DEVICE_WAIT", "CONFIG_HEADER_WAIT", "CONFIG_WAIT"} => Captured' = Captured
    BY <1>7, CapturedAre, CapturedAreNext
  <2>4. ASSUME fsm \in {"LANGUAGE_WAIT", "STRING_WAIT", "SET_CONFIGURATION_WAIT", "REPORT_WAIT"}
        PROVE  Captured' = Captured
    <3>1. /\ Languages' = Languages /\ Strings(3)' = Strings(3)
          /\ (Strings(parse.string_cursor))' = Strings(parse.string_cursor)
          /\ (Reports(parse.report_cursor))' = Reports(parse.report_cursor)
      BY <2>2, <2>4, SetsNext
    <3>2. CASE fsm = "LANGUAGE_WAIT" BY <1>7, <3>1, <3>2, CapturedAre, CapturedAreNext
    <3>3. CASE fsm = "STRING_WAIT" BY <1>7, <3>1, <3>3, CapturedAre, CapturedAreNext
    <3>4. CASE fsm = "SET_CONFIGURATION_WAIT" BY <1>7, <3>1, <3>4, CapturedAre, CapturedAreNext
    <3>5. CASE fsm = "REPORT_WAIT" BY <1>7, <3>1, <3>5, CapturedAre, CapturedAreNext
    <3> QED BY <2>4, <3>2, <3>3, <3>4, <3>5
  <2> QED BY <1>7, <2>1, <2>3, <2>4, WaitsAre DEF Quiet, Addressing
<1>8. CASE fsm \in Waits /\ fsm' # fsm
  <2>1. /\ fsm' = Onward[fsm] /\ (strobe'.commit <=> fsm \in Captures)
        /\ session'.ep_interface = session.ep_interface
        /\ parse'.string_indexes = parse.string_indexes
        /\ parse'.string_cursor = IF fsm = "LANGUAGE_WAIT" THEN 0
              ELSE IF fsm = "STRING_WAIT" THEN parse.string_cursor + 1
              ELSE parse.string_cursor
        /\ parse'.report_cursor = IF fsm = "SET_CONFIGURATION_WAIT" THEN 0
              ELSE IF fsm = "REPORT_WAIT" THEN parse.report_cursor + 1
              ELSE parse.report_cursor
    BY <1>0, <1>8, AwaitGoesOn
  <2>2. parse.string_cursor \in Nat /\ parse.report_cursor \in Nat
    BY <1>0 DEF Shape, Parses
  <2>3. CASE fsm = "DEVICE_WAIT"
    BY <2>1, <2>3, OnwardIs, CapturedAre, CapturedAreNext, CaptureKeys DEF Captures
  <2>4. CASE fsm = "CONFIG_HEADER_WAIT"
    BY <2>1, <2>4, OnwardIs, CapturedAre, CapturedAreNext DEF Captures
  <2>5. CASE fsm = "CONFIG_WAIT" /\ HasStrings
    BY <2>1, <2>5, OnwardIs, CapturedAre, CapturedAreNext, CaptureKeys DEF Captures
  <2>6. CASE fsm = "CONFIG_WAIT" /\ ~HasStrings
    <3>1. Languages = {} /\ Strings(3) = {}
      BY <2>6 DEF Languages, Strings, HasStrings
    <3>2. fsm' = "SET_CONFIGURATION_START" /\ strobe'.commit
      BY <2>1, <2>6, OnwardIs DEF Captures
    <3> QED BY <2>1, <2>6, <3>1, <3>2, CapturedAre, CapturedAreNext, CaptureKeys, SetsNext
  <2>7. CASE fsm = "LANGUAGE_WAIT"
    <3>1. Languages = {<<"string", 0>>} /\ Strings(0) = {}
      BY <1>0, <2>7, StringsNext DEF Languages, CursorsSound
    <3>2. fsm' = "STRING_SELECT" /\ strobe'.commit /\ parse'.string_cursor = 0
      BY <2>1, <2>7, OnwardIs DEF Captures
    <3> QED BY <2>1, <2>7, <3>1, <3>2, CapturedAre, CapturedAreNext, CaptureKeys, SetsNext
  <2>8. CASE fsm = "STRING_WAIT"
    <3>1. Strings(parse.string_cursor + 1)
          = Strings(parse.string_cursor) \cup {<<"string", current_string>>}
      BY <1>0, <2>2, <2>8, StringsNext DEF current_string, CursorsSound
    <3>2. fsm' = "STRING_SELECT" /\ strobe'.commit
          /\ parse'.string_cursor = parse.string_cursor + 1
      BY <2>1, <2>8, OnwardIs DEF Captures
    <3> QED BY <2>1, <2>8, <3>1, <3>2, CapturedAre, CapturedAreNext, CaptureKeys, SetsNext
  <2>9. CASE fsm = "SET_CONFIGURATION_WAIT"
    <3>1. Reports(0) = {} BY ReportsNext
    <3>2. fsm' = "REPORT_SELECT" /\ ~strobe'.commit /\ parse'.report_cursor = 0
      BY <2>1, <2>9, OnwardIs DEF Captures
    <3>3. /\ Languages' = Languages /\ Strings(3)' = Strings(3)
          /\ (Reports(parse.report_cursor))' = {}
      BY <2>1, <3>1, <3>2, SetsNext
    <3>4. Captured' = {<<"device", 0>>, <<"config", 0>>} \cup Languages \cup Strings(3) \cup {}
      BY <3>2, <3>3, CapturedAreNext
    <3>5. Captured = {<<"device", 0>>, <<"config", 0>>} \cup Languages \cup Strings(3)
      BY <2>9, CapturedAre
    <3> QED BY <3>2, <3>4, <3>5
  <2>10. CASE fsm = "REPORT_WAIT"
    <3>1. Reports(parse.report_cursor + 1)
          = Reports(parse.report_cursor) \cup {<<"report", current_interface>>}
      BY <2>2, ReportsNext DEF current_interface
    <3>2. fsm' = "REPORT_SELECT" /\ strobe'.commit
          /\ parse'.report_cursor = parse.report_cursor + 1
      BY <2>1, <2>10, OnwardIs DEF Captures
    <3> QED BY <2>1, <2>10, <3>1, <3>2, CapturedAre, CapturedAreNext, CaptureKeys, SetsNext
  <2> QED BY <1>8, <2>3, <2>4, <2>5, <2>6, <2>7, <2>8, <2>9, <2>10, WaitsAre DEF Addressing
<1> QED
  BY <1>1, <1>2, <1>3, <1>4, <1>5, <1>6, <1>7, <1>8, StartsAre, WaitsAre DEF Addressing

-----------------------------------------------------------------------------
\* The device that the addressing was for stays the one.
LEMMA AddressStep ==
    ASSUME Complete, NEW bus, NEW event, NEW chirps, NEW outcome, NEW relayed, NEW full,
           NEW failing, CycleOf(bus, event, chirps, outcome, relayed, full, failing),
           fsm \in Addressing, NEW m \in 1..Len(seen), Of(m), device'.address = 1
    PROVE  device'.n = m
<1>0. Shape /\ EngineSound BY DEF Complete
<1>1. ~(engine.phase = "status" /\ engine.kind = "SET_ADDRESS_WAIT")
  BY <1>0, WaitsAre DEF EngineSound, Addressing, AtDevice, AtConfig, AtLanguage, AtStrings,
       ThisString, AtConfiguration, AtReports, ThisReport
<1>2. device'.n = device.n /\ device.address = 1
  BY <1>0, <1>1, DeviceEffect DEF CycleOf, Cycle
<1> QED BY <1>2 DEF Of

\* What it answers is its own.
LEMMA SourceStep ==
    ASSUME Complete, NEW bus, NEW event, NEW chirps, NEW outcome, NEW relayed, NEW full,
           NEW failing, CycleOf(bus, event, chirps, outcome, relayed, full, failing),
           fsm \in Addressing, NEW m \in 1..Len(seen), Of(m),
           fsm' \in Waits, fsm' \in Addressing, engine'.phase \in {"data", "status"}
    PROVE  engine'.n = m /\ engine'.source = seen[m]
<1>0. Shape /\ EngineSound /\ SessionSound BY DEF Complete
<1>1. engine.phase # "idle"
  BY <1>0, EngineEffect DEF CycleOf, Cycle
<1>2. fsm \in Waits
  <2>1. fsm \in Waits \/ fsm = "READY"
    BY <1>0, <1>1, WaitsAre DEF EngineSound, Addressing, AtDevice, AtConfig, AtLanguage,
         AtStrings, ThisString, AtConfiguration, AtReports, ThisReport
  <2>2. fsm # "READY"
    BY <1>0, ActionOf, TerminalEffect, WaitsAre DEF CycleOf, Cycle, Detaches
  <2> QED BY <2>1, <2>2
<1>3. session.address = 1 /\ engine.to = session.address
  BY <1>0, <1>1, <1>2 DEF EngineSound, SessionSound, Addressing, AtDevice, AtConfig, AtLanguage,
       AtStrings, ThisString, AtConfiguration, AtReports, ThisReport
<1>4. CASE engine.phase = "setup"
  <2>1. answers(engine.to) /\ engine'.n = device.n /\ engine'.source = profile
    BY <1>0, <1>4, EngineEffect DEF CycleOf, Cycle
  <2>2. device.n = m
    BY <1>3, <2>1 DEF answers, Of
  <2> QED BY <2>1, <2>2 DEF profile
<1>5. CASE engine.phase # "setup"
  <2>1. engine'.n = engine.n /\ engine'.source = engine.source /\ engine.phase = "data"
    BY <1>0, <1>1, <1>5, EngineEffect DEF CycleOf, Cycle
  <2> QED BY <1>2, <2>1 DEF Of
<1> QED BY <1>4, <1>5

\* What has been read of it is its own.
LEMMA ReadStep ==
    ASSUME Complete, NEW bus \in buses, EnumeratorStep(bus),
           fsm \in Addressing, fsm' \in Addressing, NEW m \in 1..Len(seen), Of(m)
    PROVE  /\ StringsRead' => parse'.string_indexes = seen[m].strings
           /\ TableFilled' => session'.ep_interface = seen[m].interfaces
<1>0. Shape /\ StrobeSound /\ CursorsSound BY DEF Complete, OneDevice
<1>1. /\ StringsRead => parse.string_indexes = seen[m].strings
      /\ TableFilled => session.ep_interface = seen[m].interfaces
      /\ fsm \in Waits /\ engine.phase \in {"data", "status"} => engine.source = seen[m]
  BY DEF Of
<1>2. parse.byte_count \in Nat BY <1>0 DEF Shape, Parses
<1>2a. ~Detaches
  BY DEF Detaches, Addressing, AtDevice, AtConfig, AtLanguage, AtStrings,
         ThisString, AtConfiguration, AtReports, ThisReport
<1> USE DEF StringsRead, TableFilled, AtDevice, AtConfig
<1>3. CASE fsm \in Waits /\ fsm' = fsm
  <2>1. parse' = Received /\ session'.ep_interface = TableRead
    BY <1>0, <1>3, AwaitGoesOn
  <2>2. /\ parse'.byte_count = IF accepted THEN parse.byte_count + 1 ELSE parse.byte_count
        /\ parse'.string_indexes =
              IF accepted /\ fsm = "DEVICE_WAIT" /\ parse.byte_count = 1
              THEN engine.source.strings ELSE parse.string_indexes
    BY <1>0, <1>3, <2>1, ReceivedEffect
  <2>3. accepted => engine.source = seen[m]
    BY <1>1 DEF accepted
  <2>4. StringsRead' => parse'.string_indexes = seen[m].strings
    BY <1>1, <1>2, <1>3, <2>2, <2>3
  <2>5. TableFilled' => session'.ep_interface = seen[m].interfaces
    BY <1>1, <1>2, <1>3, <2>1, <2>2, <2>3 DEF TableRead
  <2> QED BY <2>4, <2>5
<1>4. CASE fsm \in Waits /\ fsm' # fsm
  <2>1. /\ fsm' = Onward[fsm] /\ Refusal = "NONE"
        /\ session'.ep_interface = session.ep_interface
        /\ parse'.string_indexes = parse.string_indexes
    BY <1>0, <1>4, AwaitGoesOn
  <2>2. fsm \in Captures => parse.byte_count = 2
    BY <1>0, <2>1, GoodAnswer
  <2>3. StringsRead' => StringsRead
    BY <1>4, <2>1, <2>2, WaitsAre, OnwardIs DEF Captures, Addressing
  <2>4. TableFilled' => TableFilled
    BY <1>4, <2>1, <2>2, WaitsAre, OnwardIs DEF Captures, Addressing
  <2> QED BY <1>1, <2>1, <2>3, <2>4
<1>5. CASE fsm \in DOMAIN Starts
  <2>1. /\ fsm' = Starts[fsm] /\ session' = session
        /\ parse'.string_indexes = parse.string_indexes
        /\ fsm # "CONFIG_HEADER_START" /\ fsm # "GET8_START" => parse'.byte_count = parse.byte_count
    BY <1>0, <1>2a, <1>5, ActionOf, StartEffect DEF Addressing
  <2>2. fsm \in CaptureStarts => parse.byte_count = 0
    BY <1>0 DEF StrobeSound
  <2>3. (StringsRead' => StringsRead) /\ (TableFilled' => TableFilled)
    BY <1>5, <2>1, <2>2, StartsAre DEF CaptureStarts, Addressing
  <2> QED BY <1>1, <2>1, <2>3
<1>6. CASE fsm = "SET_ADDRESS_RECOVERY"
  <2>1. fsm' \in {"SET_ADDRESS_RECOVERY", "DEVICE_START"}
    BY <1>0, <1>2a, <1>6, ActionOf, RecoveryEffect
  <2> QED BY <1>6, <2>1
<1>7. CASE fsm \in Preps
  <2>1. parse'.string_indexes = parse.string_indexes
    BY <1>0, <1>7, ActionOf, PrepareEffect
  <2>2. \/ fsm = "CONFIG_PREP" /\ fsm' = "CONFIG_START"
        \/ fsm # "CONFIG_PREP" /\ session' = session
    BY <1>0, <1>7, ActionOf, PrepareEffect
  <2>3. StringsRead /\ (fsm # "CONFIG_PREP" => TableFilled)
    BY <1>7 DEF Preps
  <2> QED BY <1>1, <2>1, <2>2, <2>3
<1>8. CASE fsm \in {"STRING_SELECT", "REPORT_SELECT", "READY"}
  <2>1. /\ parse'.string_indexes = parse.string_indexes
        /\ session'.ep_interface = session.ep_interface
    <3>1. CASE fsm = "STRING_SELECT"
      BY <1>0, <3>1, ActionOf, StringSelectEffect
    <3>2. CASE fsm = "REPORT_SELECT"
      BY <1>0, <1>2a, <3>2, ActionOf, ReportSelectEffect
    <3>3. CASE fsm = "READY"
      BY <1>0, <1>2a, <3>3, ActionOf, TerminalEffect
    <3> QED BY <1>8, <3>1, <3>2, <3>3
  <2>2. StringsRead /\ TableFilled
    BY <1>8
  <2> QED BY <1>1, <2>1, <2>2
<1> QED
  BY <1>3, <1>4, <1>5, <1>6, <1>7, <1>8, WaitsAre, StartsAre
     DEF Addressing, AtLanguage, AtStrings, ThisString, AtConfiguration, AtReports, ThisReport, Preps

\* What is kept, or about to be, is what it was asked for.
LEMMA KeptStep ==
    ASSUME Complete, NEW bus, NEW event, NEW chirps, NEW outcome, NEW relayed, NEW full,
           NEW failing, CycleOf(bus, event, chirps, outcome, relayed, full, failing),
           fsm \in Addressing, fsm' \in Addressing, NEW m \in 1..Len(seen), Of(m)
    PROVE  /\ WillKeep' = Entries(m, Captured')
           /\ fsm' \in Captures /\ store'.units > 0 => store'.n = m
<1>0. /\ Shape /\ StrobeSound /\ StoreSound /\ EngineSound /\ bus \in buses /\ EnumeratorStep(bus)
      /\ StoreStep(full) /\ full \in BOOLEAN
  BY DEF Complete, CycleOf, Cycle
<1>1. ~strobe.clear /\ ~strobe.abort
  BY <1>0 DEF StrobeSound, Addressing, AtDevice, AtConfig, AtLanguage,
       AtStrings, ThisString, AtConfiguration, AtReports, ThisReport
<1>2. store'.kept = WillKeep
  <2>1. strobe.commit => store.active BY <1>0 DEF StrobeSound
  <2> QED BY <1>0, <1>1, <2>1, StoreEffect DEF WillKeep
<1>3. store'.kept = Entries(m, Captured)
  BY <1>2 DEF Of
<1>4. store.units \in Nat /\ store'.units \in Nat
  <2>1. store' \in Stores BY <1>0, StoreEffect
  <2> QED BY <1>0, <2>1 DEF Shape, Stores
<1>5. ASSUME fsm \in Captures
      PROVE  store'.units > 0 => store'.n = m
  <2>1. /\ store'.n = IF store'.units = store.units THEN store.n ELSE engine.n
        /\ store'.units # store.units => engine.phase = "data"
    BY <1>5, CaptureGoesOn
  <2>2. fsm \in Waits BY <1>5, WaitsAre DEF Captures
  <2> QED BY <1>4, <1>5, <2>1, <2>2 DEF Of
<1>6. fsm' \in Captures /\ store'.units > 0 => store'.n = m
  <2>1. ASSUME fsm \in CaptureStarts
        PROVE  store'.units = 0
    <3>1. strobe.start = CaptureKey /\ CaptureKey # NoKey /\ ~strobe.commit
      BY <1>0, <2>1, KeyOfCapture DEF StrobeSound, CaptureStarts, AtDevice, AtConfig, AtLanguage,
           AtStrings, ThisString, AtReports, ThisReport
    <3>2. ~store.active
      BY <1>0, <2>1, <3>1 DEF StoreSound, CaptureStarts, Captures
    <3> QED BY <1>0, <1>1, <3>1, <3>2, StoreEffect
  <2> QED BY <1>0, <1>4, <1>5, <2>1, Origins
<1>7. Captured' = IF strobe'.commit THEN Captured \cup {CaptureKey} ELSE Captured
  BY <1>0, CapturedStep
<1>8. CASE ~strobe'.commit
  <2>1. WillKeep' = store'.kept BY <1>8 DEF WillKeep
  <2>2. Captured' = Captured BY <1>7, <1>8
  <2>3. Entries(m, Captured') = Entries(m, Captured) BY <2>2
  <2> QED BY <1>3, <1>6, <2>1, <2>3
<1>9. CASE strobe'.commit
  <2>1. /\ store'.allocated /\ ~store'.overflow /\ store'.units = 2
    BY <1>9, StrobeStep DEF StrobeSound
  <2>2. fsm \in Captures
    <3>1. fsm \in Waits
      BY <1>0, <1>9, ActionOf, StartEffect, RecoveryEffect, PrepareEffect, PrepsAreAddressing,
         StringSelectEffect, ReportSelectEffect, TerminalEffect, WaitsAre, StartsAre
         DEF Quiet, Detaches, Addressing, AtDevice, AtConfig, AtLanguage,
             AtStrings, ThisString, AtConfiguration, AtReports, ThisReport, Preps
    <3> QED BY <1>0, <1>9, <3>1, AwaitGoesOn DEF Quiet
  <2>3. store'.key = CaptureKey /\ store'.n = m
    BY <1>5, <2>1, <2>2, CaptureGoesOn
  <2>4. Kept' = {e \in store'.kept : e.key # store'.key}
                \cup {[key |-> store'.key, n |-> store'.n, units |-> store'.units]}
    BY <2>1 DEF Kept
  <2>5. Kept' = {e \in Entries(m, Captured) : e.key # CaptureKey}
                \cup {[key |-> CaptureKey, n |-> m, units |-> 2]}
    BY <1>3, <2>1, <2>3, <2>4
  <2>6. Kept' = Entries(m, Captured \cup {CaptureKey})
    <3> DEFINE keys == Captured
               k == CaptureKey
               E(x) == [key |-> x, n |-> m, units |-> 2]
    <3>1. Kept' = {e \in Entries(m, keys) : e.key # k} \cup {E(k)}
      BY <2>5
    <3>2. Entries(m, keys) = {E(x) : x \in keys}
          /\ Entries(m, keys \cup {k}) = {E(x) : x \in keys \cup {k}}
      BY DEF Entries
    <3>3. \A x : E(x).key = x OBVIOUS
    <3> HIDE DEF E, keys, k
    <3>4. {e \in {E(x) : x \in keys} : e.key # k} \cup {E(k)} = {E(x) : x \in keys \cup {k}}
      BY <3>3
    <3>5. Kept' = Entries(m, keys \cup {k})
      BY <3>1, <3>2, <3>4
    <3> QED BY <3>5 DEF keys, k
  <2>7. WillKeep' = Kept' BY <1>9 DEF WillKeep
  <2>8. Captured' = Captured \cup {CaptureKey} BY <1>7, <1>9
  <2>9. Entries(m, Captured') = Entries(m, Captured \cup {CaptureKey}) BY <2>8
  <2> QED BY <1>6, <2>6, <2>7, <2>9
<1> QED BY <1>6, <1>8, <1>9

\* An enumeration that gets past its address is of the device that took it.
LEMMA OneDeviceStep ==
    ASSUME Complete, NEW bus, NEW event, NEW chirps, NEW outcome, NEW relayed, NEW full,
           NEW failing, CycleOf(bus, event, chirps, outcome, relayed, full, failing)
    PROVE  OneDevice'
<1>0. /\ Shape /\ SessionSound /\ EngineSound /\ StrobeSound /\ StoreSound /\ OneDevice
      /\ bus \in buses /\ event \in Events /\ chirps \in Chirps /\ full \in BOOLEAN
      /\ EnumeratorStep(bus) /\ StoreStep(full) /\ DeviceStep(event, chirps)
  BY DEF Complete, CycleOf, Cycle
<1>1. CursorsSound' BY <1>0, CursorsStep
<1>2. seen \in Seq(Profiles) /\ device \in Devices /\ device.n \in 0..Len(seen)
  BY <1>0 DEF Shape
<1>3. \A m \in 1..Len(seen) : m \in 1..Len(seen') /\ seen'[m] = seen[m]
  BY <1>0, DeviceEffect
<1>4. ASSUME fsm' \in Addressing
      PROVE  \E m \in 1..Len(seen') : Of(m)'
  <2>1. CASE fsm \in Addressing
    <3>1. PICK m \in 1..Len(seen) : Of(m)
      BY <1>0, <2>1 DEF OneDevice
    <3>2. device'.address = 1 => device'.n = m
      BY <2>1, <3>1, AddressStep
    <3>3. fsm' \in Waits /\ engine'.phase \in {"data", "status"} =>
             engine'.n = m /\ engine'.source = seen[m]
      BY <1>4, <2>1, <3>1, SourceStep
    <3>4. /\ StringsRead' => parse'.string_indexes = seen[m].strings
          /\ TableFilled' => session'.ep_interface = seen[m].interfaces
      BY <1>0, <1>4, <2>1, <3>1, ReadStep
    <3>5. /\ WillKeep' = Entries(m, Captured')
          /\ fsm' \in Captures /\ store'.units > 0 => store'.n = m
      BY <1>4, <2>1, <3>1, KeptStep
    <3>6. m \in 1..Len(seen') /\ seen'[m] = seen[m]
      BY <1>3, <3>1
    <3>7. Of(m)'
      BY <3>2, <3>3, <3>4, <3>5, <3>6 DEF Of
    <3> QED BY <3>6, <3>7
  <2>2. CASE fsm \notin Addressing
    <3>1. fsm = "SET_ADDRESS_WAIT" /\ fsm' = "SET_ADDRESS_RECOVERY"
      BY <1>0, <1>4, <2>2, Origins
    <3>2. seen # <<>> /\ Len(seen) \in Nat /\ Len(seen) # 0
      BY <1>0, <1>2, <3>1, EmptySeq DEF SessionSound, Resting
    <3>3. PICK m \in 1..Len(seen') : device'.address = 1 => device'.n = m
      <4>1. device'.address = 1 => device'.n \in 1..Len(seen)
        BY <1>0, <1>2, <3>2, DeviceEffect
      <4>2. 1 \in 1..Len(seen) BY <3>2
      <4> QED BY <1>3, <4>1, <4>2
    <3>4. store'.kept = {}
      <4>1. ~strobe.clear /\ ~store.active /\ store.kept = {} /\ strobe.start = NoKey
        BY <1>0, <3>1 DEF StrobeSound, StoreSound, Unaddressed, CaptureStarts
      <4> QED BY <1>0, <4>1, StoreEffect
    <3>5. ~strobe'.commit
      <4>1. fsm \in Waits /\ fsm \notin Captures /\ fsm' # fsm
        BY <3>1, WaitsAre DEF Captures
      <4>2. strobe'.commit \in BOOLEAN
        <5>1. Shape' BY ShapeStep
        <5> QED BY <5>1 DEF Shape, Strobes
      <4> QED BY <1>0, <1>4, <4>1, <4>2, AwaitGoesOn
    <3>6. Captured' = {}
      BY <3>1, CapturedAreNext DEF AtDevice
    <3>7. WillKeep' = Entries(m, Captured')
      <4>1. WillKeep' = store'.kept BY <3>5 DEF WillKeep
      <4>2. Entries(m, {}) = {} BY DEF Entries
      <4>3. Entries(m, Captured') = Entries(m, {}) BY <3>6
      <4> QED BY <3>4, <4>1, <4>2, <4>3
    <3>8. /\ ~StringsRead' /\ ~TableFilled' /\ fsm' \notin Waits /\ fsm' \notin Captures
      BY <3>1, WaitsAre DEF StringsRead, TableFilled, AtDevice, Captures
    <3>9. Of(m)'
      BY <3>3, <3>7, <3>8 DEF Of
    <3> QED BY <3>3, <3>9
  <2> QED BY <2>1, <2>2
<1> QED BY <1>1, <1>4 DEF OneDevice

-----------------------------------------------------------------------------
\* The invariant: it holds at first, and a cycle keeps every part of it.
LEMMA InitIsComplete == Init => Complete
<1> SUFFICES ASSUME Init PROVE Complete OBVIOUS
<1>1. Shape
  <2>1. session \in Sessions BY SessionShape DEF Init
  <2>2. strobe \in Strobes BY StrobeShapes DEF Init
  <2>3. store \in Stores BY NoStoreShape DEF Init
  <2>4. engine \in Engines /\ engine.phase = "idle" BY EngineShapes DEF Init
  <2>5. count \in Counts
    <3>1. "SE0" \in Levels /\ 0 \in Nat /\ FALSE \in BOOLEAN BY DEF Levels
    <3>2. NoCount \in Counts BY <3>1, Zenon DEF NoCount, Counts
    <3> QED BY <3>2 DEF Init
  <2>6. parse \in Parses
    <3>1. /\ <<0, 0, 0>> \in [1..3 -> Nat] /\ 0 \in Nat /\ FALSE \in BOOLEAN
          /\ {} \in SUBSET Nat /\ "none" \in {"none", "ok", "bad"}
      OBVIOUS
    <3>2. NoParse \in Parses BY <3>1, Zenon DEF NoParse, Parses
    <3> QED BY <3>2 DEF Init
  <2>7. device \in Devices /\ device.n \in 0..Len(seen) /\ device.address = 0
    <3>1. device = NoDevice /\ seen = <<>> BY DEF Init
    <3>2. 0 \in Nat /\ 0 \in {0, 1} /\ FALSE \in BOOLEAN /\ "no" \in {"no", "K", "done"}
      OBVIOUS
    <3>3. NoDevice \in Devices BY <3>2, Zenon DEF NoDevice, Devices
    <3>4. NoDevice.n = 0 /\ NoDevice.address = 0 BY DEF NoDevice
    <3>5. Len(seen) \in Nat BY <3>1
    <3> QED BY <3>1, <3>3, <3>4, <3>5
  <2>8. unresponsive \in BOOLEAN /\ seen \in Seq(Profiles) /\ faults \in Nat
    BY EmptySeq DEF Init
  <2> QED BY <2>1, <2>2, <2>3, <2>4, <2>5, <2>6, <2>7, <2>8 DEF Shape
<1>2. fsm = "POWER_OFF" BY DEF Init
<1>3. /\ strobe.clear = FALSE /\ strobe.start = NoKey /\ strobe.commit = FALSE
      /\ strobe.abort = FALSE
  BY StrobeShapes DEF Init
<1>4. session.ready = FALSE /\ session.connected = FALSE
  BY SessionShape DEF Init
<1>5. engine.phase = "idle" /\ engine.done = "none"
  BY EngineShapes DEF Init
<1> USE DEF Addressing, AtDevice, AtConfig, AtLanguage, AtStrings, ThisString, AtConfiguration,
        AtReports, ThisReport, CaptureStarts, Captures, Unaddressed, Resets, Resting
<1>6. SessionSound BY <1>2, <1>4 DEF SessionSound
<1>7. EngineSound BY <1>2, <1>5, WaitsAre DEF EngineSound
<1>8. StrobeSound BY <1>2, <1>3 DEF StrobeSound
<1>9. StoreSound /\ OneDevice BY <1>2 DEF StoreSound, OneDevice
<1> QED BY <1>1, <1>6, <1>7, <1>8, <1>9 DEF Complete

THEOREM CompleteInvariant == Spec => []Complete
<1>1. Complete /\ [Next]_vars => Complete'
  <2> SUFFICES ASSUME Complete, [Next]_vars PROVE Complete' OBVIOUS
  <2>1. CASE Next
    <3>1. PICK bus, event, chirps, outcome, relayed, full, failing :
             CycleOf(bus, event, chirps, outcome, relayed, full, failing)
      BY <2>1, NextIsCycle DEF Complete
    <3>2. Shape' /\ SessionSound' /\ EngineSound' /\ StrobeSound'
      BY <3>1, ShapeStep, SessionStep, EngineSoundStep, StrobeStep
    <3>3. StoreSound' /\ OneDevice'
      BY <3>1, StoreSoundStep, OneDeviceStep
    <3> QED BY <3>2, <3>3 DEF Complete
  <2>2. CASE UNCHANGED vars
    BY <2>2, SameIsSame
  <2> QED BY <2>1, <2>2
<1> QED BY InitIsComplete, <1>1, PTL DEF Spec

\* The requests and the captures do not overlap (enumerator.py: a
\* start strobe in a state that nothing has left an answer or a capture for).
THEOREM NoOverlapTheorem == Spec => []NoOverlap
<1>1. ASSUME Complete
      PROVE  NoOverlap
  <2>0. EngineSound /\ StrobeSound /\ StoreSound BY <1>1 DEF Complete
  <2>1. fsm \in DOMAIN Starts => engine.phase = "idle" /\ engine.done = "none"
    BY <2>0, StartsAre, WaitsAre DEF EngineSound
  <2>2. strobe.start # NoKey => ~store.active
    BY <2>0 DEF StrobeSound, StoreSound, CaptureStarts, Captures, Addressing, AtDevice, AtConfig,
         AtLanguage, AtStrings, ThisString, AtReports, ThisReport
  <2>3. strobe.commit => store.active /\ store.allocated /\ ~store.overflow /\ store.units = 2
    BY <2>0 DEF StrobeSound
  <2> QED BY <2>1, <2>2, <2>3 DEF NoOverlap
<1> QED BY CompleteInvariant, <1>1, PTL

\* What a device has been asked for by READY is what it has.
LEMMA CapturedIsWanted ==
    ASSUME fsm = "READY", NEW p, p.strings = parse.string_indexes,
           p.interfaces = session.ep_interface
    PROVE  Captured = Wanted(p)
<1> DEFINE indexes == {p.strings[i] : i \in 1..3} \ {0}
<1>1. Captured = {<<"device", 0>>, <<"config", 0>>} \cup Languages \cup Strings(3)
                 \cup Reports(Len(session.ep_interface))
  BY CapturedAre
<1>2. Strings(3) = {<<"string", k>> : k \in indexes}
  BY DEF Strings
<1>3. HasStrings <=> indexes # {}
  BY DEF HasStrings
<1>4. Reports(Len(session.ep_interface)) = {<<"report", p.interfaces[i]>> : i \in 1..Len(p.interfaces)}
  BY DEF Reports
<1>5. Languages \cup Strings(3)
         = IF indexes = {} THEN {} ELSE {<<"string", i>> : i \in indexes \cup {0}}
  <2> HIDE DEF indexes
  <2>1. CASE indexes = {}
    <3>1. Languages = {} /\ Strings(3) = {} BY <1>2, <1>3, <2>1 DEF Languages
    <3> QED BY <2>1, <3>1
  <2>2. CASE indexes # {}
    <3>1. Languages = {<<"string", 0>>} BY <1>3, <2>2 DEF Languages
    <3>2. {<<"string", 0>>} \cup {<<"string", k>> : k \in indexes}
             = {<<"string", i>> : i \in indexes \cup {0}}
      OBVIOUS
    <3> QED BY <1>2, <2>2, <3>1, <3>2
  <2> QED BY <2>1, <2>2
<1>6. Wanted(p) = {<<"device", 0>>, <<"config", 0>>}
                  \cup (IF indexes = {} THEN {} ELSE {<<"string", i>> : i \in indexes \cup {0}})
                  \cup {<<"report", p.interfaces[i]>> : i \in 1..Len(p.interfaces)}
  BY DEF Wanted
<1> HIDE DEF indexes
<1> QED BY <1>1, <1>4, <1>5, <1>6

\* In READY the store holds all descriptors of one device, whole, and none of
\* another (enumerator.py: the host is READY with what it has captured).
THEOREM ReadyMeansCompleteTheorem == Spec => []ReadyMeansComplete
<1>1. ASSUME Complete
      PROVE  ReadyMeansComplete
  <2> SUFFICES ASSUME session.ready
               PROVE  \E n \in 1..Len(seen) :
                  store.kept = {[key |-> k, n |-> n, units |-> 2] : k \in Wanted(seen[n])}
    BY DEF ReadyMeansComplete
  <2>1. fsm = "READY" /\ fsm \in Addressing
    BY <1>1 DEF Complete, SessionSound, Addressing
  <2>2. PICK m \in 1..Len(seen) : Of(m)
    BY <1>1, <2>1 DEF Complete, OneDevice
  <2>3. WillKeep = store.kept
    BY <1>1, <2>1 DEF Complete, StrobeSound, WillKeep
  <2>4. parse.string_indexes = seen[m].strings /\ session.ep_interface = seen[m].interfaces
    BY <2>1, <2>2 DEF Of, StringsRead, TableFilled, AtDevice, AtConfig
  <2>5. Captured = Wanted(seen[m])
    BY <2>1, <2>4, CapturedIsWanted
  <2>6. store.kept = Entries(m, Wanted(seen[m]))
    BY <2>2, <2>3, <2>5 DEF Of
  <2>7. store.kept = {[key |-> k, n |-> m, units |-> 2] : k \in Wanted(seen[m])}
    BY <2>6 DEF Entries
  <2> QED BY <2>2, <2>7
<1> QED BY CompleteInvariant, <1>1, PTL

\* What the PC is shown does not change while it can see it (device.py: the
\* clone drops off when the store is about to change).
THEOREM CloneSeesFrozenStoreTheorem == Spec => CloneSeesFrozenStore
<1>1. ASSUME [Next]_vars
      PROVE  [clone_connected => store'.kept = store.kept]_vars
  <2>1. CASE Next
    <3>1. PICK full : StoreStep(full)
      BY <2>1 DEF Next, Steps, Cycle
    <3>2. clone_connected => store' = store
      BY <3>1 DEF clone_connected, source_mutating, StoreStep, clear
    <3> QED BY <3>2
  <2>2. CASE UNCHANGED vars
    BY <2>2
  <2> QED BY <1>1, <2>1, <2>2
<1> QED BY <1>1, PTL DEF Spec, CloneSeesFrozenStore

-----------------------------------------------------------------------------
\* What a cycle leaves of a device's speed: one plugged in knows none; under a
\* reset it goes on with its chirp; otherwise it keeps its speed, if anything.
DeviceChirps(chirps) ==
    /\ device'.pairs = IF fsm = "CHIRP_DRIVE_J" /\ drive_ended /\ device.chirp = "done"
                          /\ device.pairs < HOST_CHIRP_PAIRS
                       THEN device.pairs + 1 ELSE device.pairs
    /\ device'.high_speed <=> device'.pairs = HOST_CHIRP_PAIRS
    /\ device'.chirp = IF ~chirps THEN device.chirp ELSE IF device.chirp = "no" THEN "K" ELSE "done"
    /\ device'.reset <=> device.reset \/ reset_begins

DeviceRests ==
    /\ device'.chirp = "no" /\ device'.pairs = 0
    /\ device'.reset /\ fsm # "WAIT_ATTACH" => device.reset /\ device'.high_speed = device.high_speed

LEMMA SpeedOfDevice ==
    ASSUME Shape, NEW event \in Events, NEW chirps \in Chirps, DeviceStep(event, chirps)
    PROVE  \/ device'.chirp = "no" /\ device'.pairs = 0 /\ ~device'.reset
           \/ reset_active /\ device.n # 0 /\ DeviceChirps(chirps)
           \/ ~reset_active /\ DeviceRests
<1>0. device \in Devices /\ seen \in Seq(Profiles) BY DEF Shape
<1>1. /\ NoDevice \in Devices /\ NoDevice.chirp = "no" /\ NoDevice.pairs = 0
      /\ ~NoDevice.reset
  BY DEF NoDevice, Devices
<1>2. event.kind \in {"none", "unplug", "plug"}
  BY DEF Events, NoEvent
<1>3. CASE event.kind = "unplug" \/ (event.kind = "none" /\ device.n = 0)
  <2>1. device' = NoDevice BY <1>3 DEF DeviceStep
  <2> QED BY <1>1, <2>1
<1>4. CASE event.kind = "plug"
  <2>1. device' = [NoDevice EXCEPT !.n = Len(seen) + 1] BY <1>4 DEF DeviceStep, NewDevice
  <2> QED BY <1>1, <2>1 DEF Devices
<1>5. CASE event.kind = "none" /\ device.n # 0 /\ reset_active
  <2> DEFINE pairs == IF fsm = "CHIRP_DRIVE_J" /\ drive_ended /\ device.chirp = "done"
                         /\ device.pairs < HOST_CHIRP_PAIRS
                      THEN device.pairs + 1 ELSE device.pairs
             reset == device.reset \/ reset_begins
             speed == pairs = HOST_CHIRP_PAIRS
             chirp == IF ~chirps THEN device.chirp ELSE IF device.chirp = "no" THEN "K" ELSE "done"
  <2>1. device' = [device EXCEPT !.reset = reset, !.address = 0, !.pairs = pairs,
                                 !.high_speed = speed, !.chirp = chirp]
    BY <1>5 DEF DeviceStep, UnderReset, reset_begins
  <2> HIDE DEF pairs, reset, speed, chirp
  <2>2. /\ device'.reset = reset /\ device'.pairs = pairs
        /\ device'.high_speed = speed /\ device'.chirp = chirp
    BY <1>0, <2>1 DEF Devices
  <2> QED BY <1>5, <2>2 DEF pairs, reset, speed, chirp, DeviceChirps
<1>6. CASE event.kind = "none" /\ device.n # 0 /\ ~reset_active
  <2> DEFINE reset == device.reset /\ fsm # "WAIT_ATTACH"
             speed == device.high_speed /\ fsm # "WAIT_ATTACH"
             rest == [device EXCEPT !.chirp = "no", !.pairs = 0, !.high_speed = speed, !.reset = reset]
  <2>1. device' = rest \/ device' = [rest EXCEPT !.address = 1]
    BY <1>6 DEF DeviceStep, AtRest, Addressed
  <2> HIDE DEF reset, speed
  <2>2. /\ device'.reset = reset /\ device'.pairs = 0
        /\ device'.high_speed = speed /\ device'.chirp = "no"
    BY <1>0, <2>1 DEF Devices
  <2>3. (reset <=> device.reset /\ fsm # "WAIT_ATTACH")
        /\ (fsm # "WAIT_ATTACH" => speed = device.high_speed)
    <3>1. device.high_speed \in BOOLEAN BY <1>0 DEF Devices
    <3> QED BY <3>1 DEF reset, speed
  <2> QED BY <1>6, <2>2, <2>3 DEF DeviceRests
<1> QED BY <1>2, <1>3, <1>4, <1>5, <1>6

\* Under a reset the line is K while the device chirps.
LEMMA LineUnderReset ==
    ASSUME Shape, NEW bus \in buses, reset_active, device.n # 0
    PROVE  bus.line = "K" <=> device.chirp = "K"
BY DEF buses, lines

\* A device does not chirp while the host does.
LEMMA NoChirpAgainstTheHost ==
    ASSUME NEW chirps \in Chirps
    PROVE  /\ chirps \in BOOLEAN
           /\ chirps => /\ reset_active /\ device.chirp \in {"no", "K"}
                        /\ fsm \notin {"CHIRP_DRIVE_K", "CHIRP_DRIVE_J"}
BY DEF Chirps

\* A reset begins at full speed, with no pair counted.
LEMMA EntersReset ==
    ASSUME Shape, NEW bus \in buses, EnumeratorStep(bus), ~reset_active, fsm' \in Resets
    PROVE  /\ fsm' = "BUS_RESET" /\ count'.reset = 0 /\ count'.pairs = 0 /\ count'.chirp = 0
           /\ ~session'.high_speed
<1>0. session \in Sessions /\ count \in Counts BY DEF Shape
<1>1. Ticked(bus) \in Counts BY TickedShape
<1>2. ASSUME retry_enumeration(bus)
      PROVE  /\ fsm' = "BUS_RESET" /\ count'.reset = 0 /\ count'.pairs = 0 /\ count'.chirp = 0
             /\ ~session'.high_speed
  BY <1>1, <1>2, SessionShape DEF retry_enumeration, Retried, Cleared, NoSession, Counts
<1>3. ~go_detached(bus)
  BY DEF go_detached, Resets
<1>4. \A error : ~fail(error, bus)
  BY DEF fail, Resets
<1>5. CASE WaitAttach(bus)
  <2>1. /\ fsm' = "BUS_RESET"
        /\ session' = [NoSession EXCEPT !.connected = TRUE, !.enumerating = TRUE]
        /\ count' = [Ticked(bus) EXCEPT !.attach = 0, !.detach = 0, !.reset = 0, !.chirp = 0,
                                        !.pairs = 0, !.chirp_done = FALSE]
    BY <1>5 DEF WaitAttach, Resets
  <2> QED BY <1>1, <2>1 DEF NoSession, Counts
<1>6. CASE ResetRecovery(bus)
  BY <1>2, <1>4, <1>6 DEF ResetRecovery, retry_or_fail, Resets
<1>7. CASE Await(bus)
  <2>1. fsm' # fsm BY DEF reset_active
  <2>2. fsm \in Waits BY <1>7 DEF Await
  <2>3. ~Advance(bus)
    BY <2>2, WaitsAre, OnwardIs DEF Advance, Resets
  <2> QED BY <1>2, <1>3, <1>4, <1>7, <2>1, <2>3
          DEF Await, handle_control_failure, retry_or_fail
<1>8. ~(fsm \in Resets)
  BY DEF reset_active
<1>9. CASE \/ PowerOff(bus) \/ Discharge(bus) \/ SetAddressRecovery(bus) \/ Prepare(bus)
           \/ StringSelect(bus) \/ ReportSelect(bus) \/ Terminal(bus)
  BY <1>3, <1>9 DEF PowerOff, Discharge, SetAddressRecovery, Prepare, StringSelect, ReportSelect,
       Terminal, Goto, Stay, Resets
<1>10. CASE Start(bus)
  BY <1>3, <1>10, StartsAre DEF Start, Goto, Resets
<1> QED BY <1>5, <1>6, <1>7, <1>8, <1>9, <1>10
        DEF EnumeratorStep, BusReset, ChirpAwaitDeviceEnd, ChirpDriveK, ChirpDriveJ, Resets

\* What a reset's states do to the pairs counted and to the speed.
LEMMA HostSpeed ==
    ASSUME Shape, NEW bus \in buses, EnumeratorStep(bus), reset_active
    PROVE  \/ /\ fsm = "BUS_RESET" /\ fsm' \in {"BUS_RESET", "RESET_RECOVERY"}
              /\ session'.high_speed = session.high_speed /\ count'.pairs = count.pairs
              /\ fsm' = "BUS_RESET" => count'.reset # 0
              /\ count.chirp_done => count'.chirp_done
           \/ /\ fsm = "BUS_RESET" /\ fsm' = "CHIRP_AWAIT_DEVICE_END"
              /\ session'.high_speed = session.high_speed /\ count'.pairs = 0
              /\ bus.line = "K" /\ ~count.chirp_done
           \/ /\ fsm = "CHIRP_AWAIT_DEVICE_END"
              /\ fsm' \in {"CHIRP_AWAIT_DEVICE_END", "CHIRP_DRIVE_K"}
              /\ session'.high_speed = session.high_speed /\ count'.pairs = count.pairs
              /\ count'.chirp_done = count.chirp_done
              /\ fsm' = "CHIRP_DRIVE_K" => bus.line # "K"
           \/ /\ fsm = "CHIRP_DRIVE_K" /\ fsm' \in {"CHIRP_DRIVE_K", "CHIRP_DRIVE_J"}
              /\ session'.high_speed = session.high_speed /\ count'.pairs = count.pairs
              /\ count'.chirp_done = count.chirp_done
           \/ /\ fsm = "CHIRP_DRIVE_J" /\ fsm' \in {"CHIRP_DRIVE_J", "CHIRP_DRIVE_K", "BUS_RESET"}
              /\ fsm' = "BUS_RESET" => count'.reset # 0
              /\ count'.pairs = IF drive_ended /\ count.pairs < HOST_CHIRP_PAIRS
                                THEN count.pairs + 1 ELSE count.pairs
              /\ session'.high_speed <=> \/ session.high_speed
                                         \/ drive_ended /\ count.pairs = HOST_CHIRP_PAIRS - 1
              /\ count'.chirp_done <=> \/ count.chirp_done
                                       \/ drive_ended /\ count.pairs = HOST_CHIRP_PAIRS - 1
<1>0. session \in Sessions /\ count \in Counts /\ Ticked(bus) \in Counts
  BY TickedShape DEF Shape
<1> DEFINE c == Ticked(bus)
<1>1. /\ c.reset = count.reset /\ c.pairs = count.pairs /\ c.chirp = count.chirp
      /\ c.chirp_done = count.chirp_done
  BY <1>0 DEF Ticked, Counts
<1>2. /\ count.reset \in Nat /\ count.reset + 1 # 0 /\ count.pairs \in Nat
      /\ count.chirp_done \in BOOLEAN /\ session.high_speed \in BOOLEAN
  <2>1. count.reset \in Nat /\ count.pairs \in Nat /\ count.chirp_done \in BOOLEAN
    BY <1>0 DEF Counts
  <2>2. session.high_speed \in BOOLEAN BY <1>0 DEF Sessions
  <2>3. count.reset + 1 # 0 BY <2>1
  <2> QED BY <2>1, <2>2, <2>3
<1> HIDE DEF c
<1>3. c \in Counts BY <1>0 DEF c
<1>4. CASE BusReset(bus)
  <2>1. fsm = "BUS_RESET" /\ session' = session BY <1>4 DEF BusReset
  <2> DEFINE late == count.reset >= chirp_timeout_cycles - 1
  <2>2. \/ fsm' = "RESET_RECOVERY" /\ count' = [c EXCEPT !.reset = 0, !.recovery = 0, !.wait = 0]
        \/ fsm' = "BUS_RESET" /\ count' = [c EXCEPT !.reset = @ + 1]
        \/ fsm' = "BUS_RESET" /\ count' = [c EXCEPT !.reset = @ + 1, !.chirp = @ + 1]
        \/ /\ fsm' = "BUS_RESET" /\ ~count.chirp_done
           /\ count' = [c EXCEPT !.reset = @ + 1, !.chirp = 0, !.chirp_done = late]
        \/ /\ fsm' = "CHIRP_AWAIT_DEVICE_END" /\ bus.line = "K" /\ ~count.chirp_done
           /\ count' = [c EXCEPT !.reset = @ + 1, !.chirp = 0, !.pairs = 0]
    BY <1>2, <1>4 DEF BusReset, c
  <2> HIDE DEF late
  <2>3. CASE fsm' = "RESET_RECOVERY" /\ count' = [c EXCEPT !.reset = 0, !.recovery = 0, !.wait = 0]
    <3>1. count'.pairs = count.pairs /\ count'.chirp_done = count.chirp_done
      BY <1>1, <1>3, <2>3 DEF Counts
    <3> QED BY <2>1, <2>3, <3>1
  <2>4. CASE fsm' = "BUS_RESET" /\ count' = [c EXCEPT !.reset = @ + 1]
    <3>1. /\ count'.reset = count.reset + 1 /\ count'.pairs = count.pairs
          /\ count'.chirp_done = count.chirp_done
      BY <1>1, <1>3, <2>4 DEF Counts
    <3> QED BY <1>2, <2>1, <2>4, <3>1
  <2>5. CASE fsm' = "BUS_RESET" /\ count' = [c EXCEPT !.reset = @ + 1, !.chirp = @ + 1]
    <3>1. /\ count'.reset = count.reset + 1 /\ count'.pairs = count.pairs
          /\ count'.chirp_done = count.chirp_done
      BY <1>1, <1>3, <2>5 DEF Counts
    <3> QED BY <1>2, <2>1, <2>5, <3>1
  <2>6. CASE /\ fsm' = "BUS_RESET" /\ ~count.chirp_done
             /\ count' = [c EXCEPT !.reset = @ + 1, !.chirp = 0, !.chirp_done = late]
    <3>1. count'.reset = count.reset + 1 /\ count'.pairs = count.pairs
      BY <1>1, <1>3, <2>6 DEF Counts
    <3> QED BY <1>2, <2>1, <2>6, <3>1
  <2>7. CASE /\ fsm' = "CHIRP_AWAIT_DEVICE_END" /\ bus.line = "K" /\ ~count.chirp_done
             /\ count' = [c EXCEPT !.reset = @ + 1, !.chirp = 0, !.pairs = 0]
    <3>1. count'.pairs = 0 BY <1>3, <2>7 DEF Counts
    <3> QED BY <2>1, <2>7, <3>1
  <2> QED BY <2>2, <2>3, <2>4, <2>5, <2>6, <2>7
<1>5. CASE ChirpAwaitDeviceEnd(bus)
  <2>1. /\ fsm = "CHIRP_AWAIT_DEVICE_END" /\ session' = session
        /\ fsm' \in {"CHIRP_AWAIT_DEVICE_END", "CHIRP_DRIVE_K"}
        /\ fsm' = "CHIRP_DRIVE_K" => bus.line # "K"
    BY <1>5 DEF ChirpAwaitDeviceEnd
  <2>2. \E n : count' = [c EXCEPT !.chirp = n]
    BY <1>5 DEF ChirpAwaitDeviceEnd, c
  <2> QED BY <1>1, <1>3, <2>1, <2>2 DEF Counts
<1>6. CASE ChirpDriveK(bus)
  <2>1. /\ fsm = "CHIRP_DRIVE_K" /\ session' = session
        /\ fsm' \in {"CHIRP_DRIVE_K", "CHIRP_DRIVE_J"}
    BY <1>6 DEF ChirpDriveK
  <2>2. \E m, n : count' = [c EXCEPT !.reset = m, !.chirp = n]
    BY <1>6 DEF ChirpDriveK, c
  <2> QED BY <1>1, <1>3, <2>1, <2>2 DEF Counts
<1>7. CASE ChirpDriveJ(bus)
  <2> DEFINE speed == session.high_speed \/ (drive_ended /\ count.pairs = HOST_CHIRP_PAIRS - 1)
             done == count.chirp_done \/ (drive_ended /\ count.pairs = HOST_CHIRP_PAIRS - 1)
             pairs == IF drive_ended /\ count.pairs < HOST_CHIRP_PAIRS
                      THEN count.pairs + 1 ELSE count.pairs
             chirp == IF drive_ended THEN 0 ELSE c.chirp + 1
  <2>1. fsm = "CHIRP_DRIVE_J" /\ fsm' \in {"CHIRP_DRIVE_J", "CHIRP_DRIVE_K", "BUS_RESET"}
    BY <1>7 DEF ChirpDriveJ
  <2>2. HOST_CHIRP_PAIRS \in Nat BY ConstantsType
  <2>3. count.pairs = HOST_CHIRP_PAIRS - 1 => count.pairs < HOST_CHIRP_PAIRS
    BY <1>2, <2>2
  <2>4. session' = [session EXCEPT !.high_speed = speed]
    BY <1>7, <2>3 DEF ChirpDriveJ
  <2>5. count' = [c EXCEPT !.reset = @ + 1, !.chirp = chirp, !.pairs = pairs, !.chirp_done = done]
    BY <1>1, <1>7, <2>3 DEF ChirpDriveJ, c
  <2> HIDE DEF speed, done, pairs, chirp
  <2>6. session'.high_speed = speed BY <1>0, <2>4 DEF Sessions
  <2>7. count'.reset = count.reset + 1 /\ count'.pairs = pairs /\ count'.chirp_done = done
    BY <1>1, <1>3, <2>5 DEF Counts
  <2> QED BY <1>2, <2>1, <2>6, <2>7 DEF speed, done, pairs
<1> QED
  BY <1>4, <1>5, <1>6, <1>7, StartsAre, WaitsAre
     DEF EnumeratorStep, reset_active, Resets, PowerOff, Discharge, WaitAttach, ResetRecovery,
         Start, Await, SetAddressRecovery, Prepare, StringSelect, ReportSelect, Terminal

\* Behind a reset the speed stays as it has been negotiated.
LEMMA RecoveryKeepsSpeed ==
    ASSUME Shape, NEW bus \in buses, EnumeratorStep(bus), ~reset_active,
           fsm' \in {"RESET_RECOVERY", "GET8_START"}
    PROVE  fsm = "RESET_RECOVERY" /\ session'.high_speed = session.high_speed
<1>0. session \in Sessions BY DEF Shape
<1>1. ~go_detached(bus) /\ ~retry_enumeration(bus) /\ \A error : ~fail(error, bus)
  BY DEF go_detached, retry_enumeration, fail
<1>2. CASE ResetRecovery(bus)
  <2>1. session' = [session EXCEPT !.traffic_enable = TRUE] /\ fsm = "RESET_RECOVERY"
    BY <1>1, <1>2 DEF ResetRecovery, retry_or_fail
  <2> QED BY <1>0, <2>1 DEF Sessions
<1>3. ~Start(bus) BY <1>1, StartsAre DEF Start, Goto
<1>4. ~Await(bus)
  BY <1>1, WaitsAre, OnwardIs DEF Await, Advance, handle_control_failure, retry_or_fail
<1>5. ~(\/ PowerOff(bus) \/ Discharge(bus) \/ WaitAttach(bus) \/ SetAddressRecovery(bus)
        \/ Prepare(bus) \/ StringSelect(bus) \/ ReportSelect(bus) \/ Terminal(bus))
  BY <1>1 DEF PowerOff, Discharge, WaitAttach, SetAddressRecovery, Prepare, StringSelect,
       ReportSelect, Terminal, Goto, Stay
<1>6. fsm \notin Resets BY DEF reset_active
<1> QED BY <1>2, <1>3, <1>4, <1>5, <1>6
        DEF EnumeratorStep, BusReset, ChirpAwaitDeviceEnd, ChirpDriveK, ChirpDriveJ, Resets

\* Host and device count the same pairs, in every cycle of a reset.
LEMMA NegotiatedStep ==
    ASSUME Complete, Negotiated, NEW bus, NEW event, NEW chirps, NEW outcome, NEW relayed, NEW full,
           NEW failing, CycleOf(bus, event, chirps, outcome, relayed, full, failing)
    PROVE  Negotiated'
<1>0. /\ bus \in buses /\ EnumeratorStep(bus)
      /\ event \in Events /\ chirps \in Chirps /\ DeviceStep(event, chirps) /\ Shape
  BY DEF CycleOf, Cycle, Complete
<1>1. /\ count.pairs \in Nat /\ device.pairs \in Nat /\ HOST_CHIRP_PAIRS \in Nat \ {0}
      /\ session.high_speed \in BOOLEAN /\ device.high_speed \in BOOLEAN
      /\ device.chirp \in {"no", "K", "done"}
  <2>1. HOST_CHIRP_PAIRS \in Nat \ {0} BY TimingAssumption
  <2>2. count \in Counts /\ device \in Devices /\ session \in Sessions BY <1>0 DEF Shape
  <2>3. count.pairs \in Nat BY <2>2 DEF Counts
  <2>4. /\ device.pairs \in Nat /\ device.high_speed \in BOOLEAN
        /\ device.chirp \in {"no", "K", "done"}
    BY <2>2 DEF Devices
  <2>5. session.high_speed \in BOOLEAN BY <2>2 DEF Sessions
  <2> QED BY <2>1, <2>3, <2>4, <2>5
<1>2. /\ chirps \in BOOLEAN
      /\ chirps => device.chirp \in {"no", "K"} /\ fsm \notin {"CHIRP_DRIVE_K", "CHIRP_DRIVE_J"}
  BY <1>0, NoChirpAgainstTheHost
<1>3. session'.high_speed \in BOOLEAN /\ device'.high_speed \in BOOLEAN
  <2>1. Shape' BY ShapeStep
  <2>2. device' \in Devices /\ session' \in Sessions BY <2>1 DEF Shape
  <2>3. session'.high_speed \in BOOLEAN BY <2>2 DEF Sessions
  <2> QED BY <2>2, <2>3 DEF Devices
<1>4. CASE ~reset_active
  <2>1. /\ device'.chirp = "no" /\ device'.pairs = 0
        /\ device'.reset /\ fsm # "WAIT_ATTACH" => device'.high_speed = device.high_speed /\ device.reset
    BY <1>0, <1>4, SpeedOfDevice DEF DeviceRests
  <2>2. CASE fsm' \in Resets
    <3>1. fsm' = "BUS_RESET" /\ count'.reset = 0 /\ count'.pairs = 0 /\ ~session'.high_speed
      BY <1>0, <1>4, <2>2, EntersReset
    <3> QED BY <1>1, <2>1, <3>1 DEF Negotiated, reset_begins
  <2>3. CASE fsm' \in {"RESET_RECOVERY", "GET8_START"}
    <3>1. fsm = "RESET_RECOVERY" /\ session'.high_speed = session.high_speed
      BY <1>0, <1>4, <2>3, RecoveryKeepsSpeed
    <3> QED BY <2>1, <2>3, <3>1 DEF Negotiated, reset_begins, reset_active, Resets
  <2> QED BY <2>2, <2>3 DEF Negotiated, reset_begins, reset_active, Resets
<1>5. CASE reset_active
  <2> DEFINE there == device.n # 0 /\ DeviceChirps(chirps)
  <2>1. there \/ (device'.chirp = "no" /\ device'.pairs = 0 /\ ~device'.reset)
    BY <1>0, <1>5, SpeedOfDevice
  <2>2. /\ count.pairs <= HOST_CHIRP_PAIRS
        /\ session.high_speed <=> count.pairs = HOST_CHIRP_PAIRS
        /\ count.pairs = HOST_CHIRP_PAIRS => count.chirp_done
        /\ device.chirp # "done" => device.pairs = 0
    BY <1>5 DEF Negotiated
  <2>3. ~reset_begins'
    BY <1>0, <1>5, HostSpeed DEF reset_begins
  <2>4. reset_active' =>
           /\ count'.pairs <= HOST_CHIRP_PAIRS
           /\ session'.high_speed <=> count'.pairs = HOST_CHIRP_PAIRS
           /\ count'.pairs = HOST_CHIRP_PAIRS => count'.chirp_done
    BY <1>0, <1>1, <1>5, <2>2, HostSpeed DEF reset_active, Resets
  <2>5. device'.chirp # "done" => device'.pairs = 0
    BY <1>2, <2>1, <2>2 DEF DeviceChirps
  <2>6. ASSUME device'.reset
        PROVE  /\ there /\ device.pairs = count.pairs
               /\ fsm = "CHIRP_AWAIT_DEVICE_END" => device.chirp # "no"
               /\ fsm \in {"CHIRP_DRIVE_K", "CHIRP_DRIVE_J"} => device.chirp = "done"
    <3>1. there BY <2>1, <2>6
    <3>2. device.reset \/ reset_begins BY <2>6, <3>1 DEF DeviceChirps
    <3> QED BY <1>5, <3>1, <3>2 DEF Negotiated, reset_begins
  <2>7. ASSUME device'.reset
        PROVE  /\ device'.high_speed <=> device'.pairs = HOST_CHIRP_PAIRS
               /\ bus.line = "K" <=> device.chirp = "K"
               /\ device'.chirp = IF ~chirps THEN device.chirp
                                  ELSE IF device.chirp = "no" THEN "K" ELSE "done"
               /\ device'.pairs = IF fsm = "CHIRP_DRIVE_J" /\ drive_ended /\ device.pairs < HOST_CHIRP_PAIRS
                                  THEN device.pairs + 1 ELSE device.pairs
    BY <1>0, <1>5, <2>6, <2>7, LineUnderReset DEF DeviceChirps
  <2>8. ASSUME device'.reset, fsm' \in Resets
        PROVE  /\ device'.pairs = count'.pairs
               /\ fsm' = "CHIRP_AWAIT_DEVICE_END" => device'.chirp # "no"
               /\ fsm' \in {"CHIRP_DRIVE_K", "CHIRP_DRIVE_J"} => device'.chirp = "done"
    BY <1>0, <1>1, <1>2, <1>5, <2>2, <2>6, <2>7, <2>8, HostSpeed DEF Resets
  <2>9. ASSUME device'.reset, fsm' \in {"RESET_RECOVERY", "GET8_START"}
        PROVE  device'.high_speed = session'.high_speed
    <3>1. /\ fsm = "BUS_RESET" /\ session'.high_speed = session.high_speed
          /\ count'.pairs = count.pairs
      BY <1>0, <1>5, <2>9, HostSpeed
    <3>2. device'.pairs = count.pairs BY <2>6, <2>7, <2>9, <3>1
    <3> QED BY <1>1, <1>3, <2>2, <2>7, <2>9, <3>1, <3>2
  <2> QED BY <2>3, <2>4, <2>5, <2>7, <2>8, <2>9 DEF Negotiated, reset_active
<1> QED BY <1>4, <1>5

\* Host and device count the same pairs, for every timing.
LEMMA NegotiatedInvariant == Spec => []Negotiated
<1>1. Init => Negotiated
  <2> SUFFICES ASSUME Init PROVE Negotiated OBVIOUS
  <2>1. fsm = "POWER_OFF" BY DEF Init
  <2> QED BY <2>1 DEF Negotiated, reset_begins, reset_active, Resets
<1>2. Complete /\ Negotiated /\ [Next]_vars => Negotiated'
  <2> SUFFICES ASSUME Complete, Negotiated, [Next]_vars PROVE Negotiated' OBVIOUS
  <2>1. CASE Next
    <3>1. PICK bus, event, chirps, outcome, relayed, full, failing :
             CycleOf(bus, event, chirps, outcome, relayed, full, failing)
      BY <2>1, NextIsCycle DEF Complete
    <3> QED BY <3>1, NegotiatedStep
  <2>2. CASE UNCHANGED vars
    BY <2>2 DEF vars, enumeratorVars, Negotiated, reset_begins, reset_active
  <2> QED BY <2>1, <2>2
<1> QED BY CompleteInvariant, <1>1, <1>2, PTL DEF Spec

\* Host and device agree on the speed they have negotiated (enumerator.py:
\* the speed is latched with the last chirp pair), for every timing.
THEOREM SpeedAgreedTheorem == Spec => []SpeedAgreed
<1>1. Negotiated => SpeedAgreed
  BY DEF Negotiated, SpeedAgreed
<1> QED BY NegotiatedInvariant, <1>1, PTL

-----------------------------------------------------------------------------
\* Every counter but the one of the detach, which ends at its bound, stays as it is.
LEMMA TickedCounters ==
    ASSUME Shape, NEW bus
    PROVE  LET c == Ticked(bus)
           IN  /\ c \in Counts
               /\ c.attach = count.attach /\ c.reset = count.reset /\ c.chirp = count.chirp
               /\ c.pairs = count.pairs /\ c.chirp_done = count.chirp_done /\ c.wait = count.wait
               /\ count.detach <= detach_stable_cycles => c.detach <= detach_stable_cycles
<1>1. count \in Counts BY DEF Shape
<1>2. count.detach \in Nat /\ detach_stable_cycles \in Nat
  BY <1>1, ConstantsType DEF Counts
<1>3. \E d \in Nat : /\ Ticked(bus) = [count EXCEPT !.detach = d]
                     /\ count.detach <= detach_stable_cycles => d <= detach_stable_cycles
  <2> DEFINE d == IF ~session.connected \/ reset_active \/ ~disconnect_seen(bus) THEN 0
                  ELSE IF count.detach < detach_stable_cycles THEN count.detach + 1 ELSE count.detach
  <2>1. Ticked(bus) = [count EXCEPT !.detach = d] BY DEF Ticked
  <2>2. d \in Nat /\ (count.detach <= detach_stable_cycles => d <= detach_stable_cycles)
    BY <1>2
  <2> HIDE DEF d
  <2> QED BY <2>1, <2>2
<1> QED BY <1>1, <1>3 DEF Counts

\* The counters, none past its bound.
Within(c) ==
    /\ c \in Counts
    /\ c.attach < attach_stable_cycles /\ c.detach <= detach_stable_cycles
    /\ c.wait <= recovery_timeout_cycles /\ c.reset < reset_cycles

LEMMA WithinTicked ==
    ASSUME Shape, CountersBounded, NEW bus
    PROVE  Within(count) /\ Within(Ticked(bus)) /\ attach_stable_cycles > 1 /\ reset_cycles > 0
<1>1. count \in Counts BY DEF Shape
<1>2. attach_stable_cycles > 1 /\ reset_cycles > 0 BY TimingAssumption
<1> QED BY <1>1, <1>2, TickedCounters DEF Within, CountersBounded

\* Counters that are reset are within their bounds.
LEMMA WithinReset ==
    ASSUME NEW c, Within(c)
    PROVE  /\ Within([c EXCEPT !.attach = 0])
           /\ Within([c EXCEPT !.attach = 0, !.detach = 0])
           /\ Within([c EXCEPT !.attach = 0, !.detach = 0, !.reset = 0, !.chirp = 0,
                               !.pairs = 0, !.chirp_done = FALSE])
           /\ Within([c EXCEPT !.reset = 0, !.chirp = 0, !.pairs = 0, !.chirp_done = FALSE])
           /\ Within([c EXCEPT !.reset = 0, !.recovery = 0, !.wait = 0])
           /\ \A n \in Nat : Within([c EXCEPT !.address = n])
<1>1. /\ 0 < attach_stable_cycles /\ 0 <= detach_stable_cycles
      /\ 0 <= recovery_timeout_cycles /\ 0 < reset_cycles
  BY TimingAssumption
<1>2. /\ Within([c EXCEPT !.attach = 0])
      /\ Within([c EXCEPT !.attach = 0, !.detach = 0])
  BY <1>1 DEF Within, Counts
<1>3. Within([c EXCEPT !.attach = 0, !.detach = 0, !.reset = 0, !.chirp = 0, !.pairs = 0,
                       !.chirp_done = FALSE])
  BY <1>1 DEF Within, Counts
<1>4. Within([c EXCEPT !.reset = 0, !.chirp = 0, !.pairs = 0, !.chirp_done = FALSE])
  BY <1>1 DEF Within, Counts
<1>5. Within([c EXCEPT !.reset = 0, !.recovery = 0, !.wait = 0])
  BY <1>1 DEF Within, Counts
<1>6. ASSUME NEW n \in Nat PROVE Within([c EXCEPT !.address = n])
  BY <1>1 DEF Within, Counts
<1> QED BY <1>2, <1>3, <1>4, <1>5, <1>6

\* What a step leaves of the bounds.
Stays == session'.enum_attempt < MAX_ENUM_ATTEMPTS /\ Within(count')

\* An attempt given up leaves every counter within its bound, the one of the
\* attempts too.
LEMMA GivenUpBounded ==
    ASSUME Shape, CountersBounded, NEW bus,
           \/ go_detached(bus) \/ retry_or_fail(bus) \/ handle_control_failure(bus)
           \/ \E error : fail(error, bus)
    PROVE  Stays
<1>0. /\ session \in Sessions /\ session.enum_attempt \in Nat /\ MAX_ENUM_ATTEMPTS \in Nat
      /\ session.enum_attempt < MAX_ENUM_ATTEMPTS
  BY ConstantsType DEF Shape, Sessions, CountersBounded
<1>1. Within(count) /\ Within(Ticked(bus)) BY WithinTicked
<1>2. ASSUME go_detached(bus) PROVE Stays
  <2>1. session'.enum_attempt = session.enum_attempt
    BY <1>2, SessionShape DEF go_detached, Cleared, NoSession
  <2> QED BY <1>0, <1>1, <1>2, <2>1, WithinReset DEF go_detached, Stays
<1>3. ASSUME NEW error, fail(error, bus) PROVE Stays
  <2>1. session'.enum_attempt = session.enum_attempt
    BY <1>0, <1>3 DEF fail, Sessions
  <2> QED BY <1>0, <1>1, <1>3, <2>1 DEF fail, Stays
<1>4. ASSUME retry_or_fail(bus) PROVE Stays
  <2>1. CASE session.enum_attempt < MAX_ENUM_ATTEMPTS - 1
    <3>1. retry_enumeration(bus) BY <1>4, <2>1 DEF retry_or_fail
    <3>2. session'.enum_attempt = session.enum_attempt + 1
      BY <3>1 DEF retry_enumeration, Retried, Cleared, NoSession
    <3>3. session'.enum_attempt < MAX_ENUM_ATTEMPTS BY <1>0, <2>1, <3>2
    <3>4. Within(count') BY <1>1, <3>1, WithinReset DEF retry_enumeration
    <3> QED BY <3>3, <3>4 DEF Stays
  <2>2. CASE ~(session.enum_attempt < MAX_ENUM_ATTEMPTS - 1)
    BY <1>3, <1>4, <2>2 DEF retry_or_fail
  <2> QED BY <2>1, <2>2
<1> QED BY <1>2, <1>3, <1>4 DEF handle_control_failure

\* Power and attach: the equality test of WAIT_ATTACH is met in time.
LEMMA AttachBounded ==
    ASSUME Shape, CountersBounded, NEW bus \in buses,
           PowerOff(bus) \/ Discharge(bus) \/ WaitAttach(bus)
    PROVE  Stays
<1>0. /\ session \in Sessions /\ session.enum_attempt \in Nat /\ MAX_ENUM_ATTEMPTS \in Nat \ {0}
      /\ session.enum_attempt < MAX_ENUM_ATTEMPTS
  BY TimingAssumption DEF Shape, Sessions, CountersBounded
<1> DEFINE c == Ticked(bus)
<1>1. Within(c) /\ attach_stable_cycles > 1 BY WithinTicked
<1>2. c.attach = count.attach /\ c.attach \in Nat /\ attach_stable_cycles \in Nat
  BY TickedCounters, ConstantsType DEF Counts
<1>3. bus.line \in Levels BY BusesType
<1> HIDE DEF c
<1>4. CASE PowerOff(bus)
  BY <1>0, <1>1, <1>4 DEF PowerOff, Goto, Stays, c
<1>5. CASE Discharge(bus)
  <2>1. session'.enum_attempt = session.enum_attempt BY <1>0, <1>5 DEF Discharge, Sessions
  <2> QED BY <1>0, <1>1, <1>5, <2>1, WithinReset DEF Discharge, Stays, c
<1>6. CASE WaitAttach(bus)
  <2>1. \/ /\ session' = session \/ \E e : session' = [session EXCEPT !.error_code = e]
           /\ \/ count' = [c EXCEPT !.attach = 0]
              \/ count' = [c EXCEPT !.attach = 1, !.attach_state = bus.line]
              \/ /\ count' = [c EXCEPT !.attach = @ + 1]
                 /\ count.attach # attach_stable_cycles - 1
        \/ /\ session' = [NoSession EXCEPT !.connected = TRUE, !.enumerating = TRUE]
           /\ count' = [c EXCEPT !.attach = 0, !.detach = 0, !.reset = 0, !.chirp = 0,
                                 !.pairs = 0, !.chirp_done = FALSE]
    BY <1>6 DEF WaitAttach, c
  <2>2. session'.enum_attempt < MAX_ENUM_ATTEMPTS
    <3>1. CASE session' = session BY <1>0, <3>1
    <3>2. CASE \E e : session' = [session EXCEPT !.error_code = e]
      BY <1>0, <3>2 DEF Sessions
    <3>3. CASE session' = [NoSession EXCEPT !.connected = TRUE, !.enumerating = TRUE]
      BY <1>0, <3>3 DEF NoSession
    <3> QED BY <2>1, <3>1, <3>2, <3>3
  <2>3. Within([c EXCEPT !.attach = 1, !.attach_state = bus.line])
    BY <1>1, <1>3 DEF Within, Counts
  <2>4. count.attach # attach_stable_cycles - 1 => Within([c EXCEPT !.attach = @ + 1])
    BY <1>1, <1>2 DEF Within, Counts
  <2>5. /\ Within([c EXCEPT !.attach = 0])
        /\ Within([c EXCEPT !.attach = 0, !.detach = 0, !.reset = 0, !.chirp = 0,
                            !.pairs = 0, !.chirp_done = FALSE])
    BY <1>1, WithinReset
  <2>6. Within(count') BY <2>1, <2>3, <2>4, <2>5
  <2> QED BY <2>2, <2>6 DEF Stays
<1> QED BY <1>4, <1>5, <1>6

\* The wait for the idle line ends at its bound.
LEMMA RecoveryBounded ==
    ASSUME Shape, CountersBounded, NEW bus \in buses, ResetRecovery(bus)
    PROVE  Stays
<1>0. session \in Sessions /\ session.enum_attempt < MAX_ENUM_ATTEMPTS
  BY DEF Shape, CountersBounded
<1>1. CASE recovery_over /\ retry_or_fail(bus)
  BY <1>1, GivenUpBounded
<1>2. CASE ~(recovery_over /\ retry_or_fail(bus))
  <2> DEFINE c == Ticked(bus)
             d == [c EXCEPT !.wait = IF @ < recovery_timeout_cycles THEN @ + 1 ELSE 0]
  <2>1. Within(c) BY WithinTicked
  <2>2. recovery_timeout_cycles \in Nat BY ConstantsType
  <2> HIDE DEF c
  <2>3. Within(d)
    <3> DEFINE w == IF c.wait < recovery_timeout_cycles THEN c.wait + 1 ELSE 0
    <3>1. c \in Counts /\ c.wait \in Nat BY <2>1 DEF Within, Counts
    <3>2. w \in Nat /\ w <= recovery_timeout_cycles BY <2>2, <3>1
    <3>3. d = [c EXCEPT !.wait = w] OBVIOUS
    <3> HIDE DEF w, d
    <3> QED BY <2>1, <3>1, <3>2, <3>3 DEF Within, Counts
  <2>4. /\ session' = [session EXCEPT !.traffic_enable = TRUE]
        /\ \/ count' = [d EXCEPT !.recovery = 0, !.nonj = 0]
           \/ count' = [d EXCEPT !.nonj = @ + 1]
           \/ count' = [d EXCEPT !.recovery = @ + 1, !.nonj = 0]
    BY <1>2 DEF ResetRecovery, c
  <2>5. session'.enum_attempt = session.enum_attempt BY <1>0, <2>4 DEF Sessions
  <2> HIDE DEF d
  <2>6. d.nonj + 1 \in Nat /\ d.recovery + 1 \in Nat BY <2>3 DEF Within, Counts
  <2>7. /\ Within([d EXCEPT !.recovery = 0, !.nonj = 0]) /\ Within([d EXCEPT !.nonj = @ + 1])
        /\ Within([d EXCEPT !.recovery = @ + 1, !.nonj = 0])
    BY <2>3, <2>6 DEF Within, Counts
  <2> QED BY <1>0, <2>4, <2>5, <2>7 DEF Stays
<1> QED BY <1>1, <1>2

\* The requests and the selections.
LEMMA RequestsBounded ==
    ASSUME Shape, CountersBounded, NEW bus \in buses,
           \/ Start(bus) \/ Await(bus) \/ SetAddressRecovery(bus) \/ Prepare(bus)
           \/ StringSelect(bus) \/ ReportSelect(bus) \/ Terminal(bus)
    PROVE  Stays
<1>0. session \in Sessions /\ session.enum_attempt < MAX_ENUM_ATTEMPTS
  BY DEF Shape, CountersBounded
<1>1. Within(Ticked(bus)) BY WithinTicked
<1>2. ASSUME NEW n, \/ session' = session
                    \/ session' = [session EXCEPT !.ep_interface = n]
                    \/ session' = [session EXCEPT !.address = n]
                    \/ session' = [session EXCEPT !.ready = TRUE, !.enumerating = FALSE,
                                                  !.error_code = "NONE"]
      PROVE  session'.enum_attempt < MAX_ENUM_ATTEMPTS
  BY <1>0, <1>2 DEF Sessions
<1>3. go_detached(bus) => Stays BY GivenUpBounded
<1>4. CASE Start(bus)
  BY <1>0, <1>1, <1>3, <1>4 DEF Start, Goto, Stays
<1>5. CASE Await(bus)
  <2>1. CASE \/ go_detached(bus) \/ handle_control_failure(bus)
             \/ fail("OVERSIZED_DESCRIPTOR", bus) \/ fail(Refusal, bus)
    BY <2>1, GivenUpBounded
  <2>2. CASE count' = Ticked(bus) /\ session' = [session EXCEPT !.ep_interface = TableRead]
    BY <1>1, <1>2, <2>2 DEF Stays
  <2>3. CASE Advance(bus)
    <3>1. \E n : session' = [session EXCEPT !.address = n]
      BY <2>3 DEF Advance
    <3>2. \E n \in Nat : count' = [Ticked(bus) EXCEPT !.address = n]
      <4>1. Ticked(bus).address \in Nat BY TickedCounters DEF Counts
      <4> QED BY <2>3, <4>1 DEF Advance
    <3>3. session'.enum_attempt < MAX_ENUM_ATTEMPTS BY <1>2, <3>1
    <3>4. \A n \in Nat : Within([Ticked(bus) EXCEPT !.address = n]) BY <1>1, WithinReset
    <3>5. Within(count') BY <3>2, <3>4
    <3> QED BY <3>3, <3>5 DEF Stays
  <2> QED BY <1>5, <2>1, <2>2, <2>3 DEF Await
<1>6. CASE SetAddressRecovery(bus)
  <2>1. Ticked(bus).address + 1 \in Nat BY TickedCounters DEF Counts
  <2>2. \/ go_detached(bus)
        \/ /\ session' = session
           /\ \E n \in Nat : count' = [Ticked(bus) EXCEPT !.address = n]
    BY <1>6, <2>1 DEF SetAddressRecovery
  <2>3. CASE session' = session /\ \E n \in Nat : count' = [Ticked(bus) EXCEPT !.address = n]
    <3>1. \A n \in Nat : Within([Ticked(bus) EXCEPT !.address = n]) BY <1>1, WithinReset
    <3>2. Within(count') BY <2>3, <3>1
    <3> QED BY <1>0, <2>3, <3>2 DEF Stays
  <2> QED BY <1>3, <2>2, <2>3
<1>7. CASE Prepare(bus)
  <2>1. count' = Ticked(bus)
        /\ (session' = session \/ session' = [session EXCEPT !.ep_interface = <<>>])
    BY <1>7 DEF Prepare
  <2> QED BY <1>1, <1>2, <2>1 DEF Stays
<1>8. CASE StringSelect(bus)
  BY <1>0, <1>1, <1>8 DEF StringSelect, Goto, Stay, Stays
<1>9. CASE ReportSelect(bus)
  BY <1>0, <1>1, <1>2, <1>3, <1>9 DEF ReportSelect, Goto, Stay, Stays
<1>10. CASE Terminal(bus)
  BY <1>0, <1>1, <1>3, <1>10 DEF Terminal, Stay, Stays
<1> QED BY <1>4, <1>5, <1>6, <1>7, <1>8, <1>9, <1>10

-----------------------------------------------------------------------------
\* The timing, with the cycles of all pairs as one number.
LEMMA Timing ==
    /\ chirp_timeout_cycles \in Nat \ {0} /\ chirp_detect_cycles \in Nat \ {0}
    /\ chirp_drive_cycles \in Nat \ {0} /\ chirp_tail_cycles \in Nat /\ reset_cycles \in Nat
    /\ HOST_CHIRP_PAIRS \in Nat \ {0} /\ HOST_CHIRP_PAIRS * chirp_drive_cycles \in Nat
    /\ 2 * chirp_drive_cycles < chirp_tail_cycles
    /\ last_chance + 2 * (HOST_CHIRP_PAIRS * chirp_drive_cycles) <= reset_cycles - chirp_tail_cycles
<1>1. /\ chirp_timeout_cycles \in Nat \ {0} /\ chirp_detect_cycles \in Nat \ {0}
      /\ chirp_drive_cycles \in Nat \ {0} /\ chirp_tail_cycles \in Nat /\ reset_cycles \in Nat
      /\ HOST_CHIRP_PAIRS \in Nat \ {0}
      /\ 2 * chirp_drive_cycles < chirp_tail_cycles
      /\ chirp_timeout_cycles + chirp_detect_cycles + 2 * HOST_CHIRP_PAIRS * chirp_drive_cycles
            <= reset_cycles - chirp_tail_cycles
  BY TimingAssumption
<1>2. ASSUME NEW p \in Nat, NEW d \in Nat
      PROVE  p * d \in Nat /\ 2 * p * d = 2 * (p * d)
  OBVIOUS
<1> QED BY <1>1, <1>2 DEF last_chance

\* One pair more.
LEMMA PairsCycles ==
    ASSUME NEW p \in Nat, NEW q \in Nat, NEW d \in Nat, p < q
    PROVE  /\ p * d \in Nat /\ (p + 1) * d = p * d + d
           /\ p * d + d <= q * d
<1>1. p * d \in Nat /\ (p + 1) * d = p * d + d OBVIOUS
<1>2. PICK k \in Nat : q = p + 1 + k
  <2>1. q - p - 1 \in Nat /\ q = p + 1 + (q - p - 1) OBVIOUS
  <2> QED BY <2>1
<1>3. q * d = p * d + d + k * d /\ k * d \in Nat BY <1>2
<1> QED BY <1>1, <1>3

\* The counters of a reset, in its numbers.
LEMMA ResetCounts ==
    ASSUME Shape
    PROVE  /\ count.reset \in Nat /\ count.chirp \in Nat /\ count.pairs \in Nat
           /\ count.chirp_done \in BOOLEAN
BY DEF Shape, Counts

\* A reset ends in time, and its chirp begins in time.
LEMMA BusResetInTime ==
    ASSUME Shape, CountersBounded, InTime, NEW bus \in buses, BusReset(bus)
    PROVE  Stays /\ InTime'
<1>0. session' = session /\ session.enum_attempt < MAX_ENUM_ATTEMPTS /\ fsm = "BUS_RESET"
  BY DEF BusReset, CountersBounded
<1> DEFINE c == Ticked(bus)
           late == count.reset >= chirp_timeout_cycles - 1
<1>1. /\ c \in Counts /\ c.reset = count.reset /\ c.chirp = count.chirp /\ c.pairs = count.pairs
      /\ c.chirp_done = count.chirp_done
  BY TickedCounters
<1>2. Within(c) BY WithinTicked
<1>3. count.reset < reset_cycles /\ count.reset \in Nat /\ count.chirp \in Nat
      /\ count.chirp_done \in BOOLEAN
  BY ResetCounts DEF CountersBounded
<1>4. ~count.chirp_done => /\ count.chirp < chirp_detect_cycles
                           /\ count.reset < chirp_timeout_cycles + count.chirp
  BY <1>0 DEF InTime
<1>5. \/ fsm' = "RESET_RECOVERY" /\ count' = [c EXCEPT !.reset = 0, !.recovery = 0, !.wait = 0]
      \/ /\ count.reset # reset_cycles - 1
         /\ \/ fsm' = "BUS_RESET" /\ count.chirp_done /\ count' = [c EXCEPT !.reset = @ + 1]
            \/ /\ fsm' = "CHIRP_AWAIT_DEVICE_END" /\ ~count.chirp_done
               /\ count' = [c EXCEPT !.reset = @ + 1, !.chirp = 0, !.pairs = 0]
            \/ /\ fsm' = "BUS_RESET" /\ ~count.chirp_done /\ ~(count.chirp >= chirp_detect_cycles - 1)
               /\ count' = [c EXCEPT !.reset = @ + 1, !.chirp = @ + 1]
            \/ /\ fsm' = "BUS_RESET" /\ ~count.chirp_done
               /\ count' = [c EXCEPT !.reset = @ + 1, !.chirp = 0, !.chirp_done = late]
  BY <1>3 DEF BusReset, c
<1>6. late \in BOOLEAN OBVIOUS
<1> HIDE DEF c, late
<1>7. CASE fsm' = "RESET_RECOVERY" /\ count' = [c EXCEPT !.reset = 0, !.recovery = 0, !.wait = 0]
  <2>1. Within(count') BY <1>2, <1>7, WithinReset
  <2> QED BY <1>0, <1>7, <2>1 DEF Stays, InTime
<1>8. CASE count.reset # reset_cycles - 1
  <2>1. count.reset + 1 < reset_cycles /\ c.reset + 1 \in Nat /\ c.chirp + 1 \in Nat
    BY <1>1, <1>3, <1>8, Timing
  <2>2. CASE fsm' = "BUS_RESET" /\ count.chirp_done /\ count' = [c EXCEPT !.reset = @ + 1]
    <3>1. Within(count') /\ count'.chirp_done
      BY <1>1, <1>2, <2>1, <2>2 DEF Within, Counts
    <3> QED BY <1>0, <2>2, <3>1 DEF Stays, InTime
  <2>3. CASE /\ fsm' = "CHIRP_AWAIT_DEVICE_END" /\ ~count.chirp_done
             /\ count' = [c EXCEPT !.reset = @ + 1, !.chirp = 0, !.pairs = 0]
    <3>1. Within(count') /\ count'.pairs = 0 /\ count'.reset = count.reset + 1
      BY <1>1, <1>2, <2>1, <2>3 DEF Within, Counts
    <3>2. count'.reset < last_chance
      BY <1>3, <1>4, <2>3, <3>1, Timing DEF last_chance
    <3>3. InTime' BY <2>3, <3>1, <3>2 DEF InTime, last_chance
    <3> QED BY <1>0, <3>1, <3>3 DEF Stays
  <2>4. CASE /\ fsm' = "BUS_RESET" /\ ~count.chirp_done /\ ~(count.chirp >= chirp_detect_cycles - 1)
             /\ count' = [c EXCEPT !.reset = @ + 1, !.chirp = @ + 1]
    <3>1. /\ Within(count') /\ count'.reset = count.reset + 1
          /\ count'.chirp = count.chirp + 1
      BY <1>1, <1>2, <2>1, <2>4 DEF Within, Counts
    <3>2. count'.chirp < chirp_detect_cycles /\ count'.reset < chirp_timeout_cycles + count'.chirp
      BY <1>3, <1>4, <2>4, <3>1, Timing
    <3> QED BY <1>0, <2>4, <3>1, <3>2 DEF Stays, InTime
  <2>5. CASE /\ fsm' = "BUS_RESET" /\ ~count.chirp_done
             /\ count' = [c EXCEPT !.reset = @ + 1, !.chirp = 0, !.chirp_done = late]
    <3>1. /\ Within(count') /\ count'.reset = count.reset + 1
          /\ count'.chirp = 0 /\ (count'.chirp_done <=> late)
      BY <1>1, <1>2, <1>6, <2>1, <2>5 DEF Within, Counts
    <3>2. ~late => count'.chirp < chirp_detect_cycles /\ count'.reset < chirp_timeout_cycles + count'.chirp
      BY <1>3, <3>1, Timing DEF late
    <3> QED BY <1>0, <2>5, <3>1, <3>2 DEF Stays, InTime
  <2> QED BY <1>5, <1>7, <1>8, <2>2, <2>3, <2>4, <2>5
<1> QED BY <1>5, <1>7, <1>8

\* While the device chirps, the reset stands still.
LEMMA AwaitEndInTime ==
    ASSUME Shape, CountersBounded, InTime, NEW bus \in buses, ChirpAwaitDeviceEnd(bus)
    PROVE  Stays /\ InTime'
<1>0. /\ session' = session /\ session.enum_attempt < MAX_ENUM_ATTEMPTS
      /\ count.pairs = 0 /\ count.reset < last_chance
  BY DEF ChirpAwaitDeviceEnd, CountersBounded, InTime
<1> DEFINE c == Ticked(bus)
           chirp == IF fsm' = "CHIRP_DRIVE_K" THEN 0 ELSE IF bus.line = "K" THEN 0 ELSE c.chirp + 1
<1>1. /\ c \in Counts /\ c.reset = count.reset /\ c.pairs = count.pairs /\ Within(c)
  BY TickedCounters, WithinTicked
<1>2. fsm' \in {"CHIRP_AWAIT_DEVICE_END", "CHIRP_DRIVE_K"} /\ count' = [c EXCEPT !.chirp = chirp]
  BY DEF ChirpAwaitDeviceEnd, c
<1>3. chirp \in Nat /\ (fsm' = "CHIRP_DRIVE_K" => chirp = 0)
  <2>1. c.chirp + 1 \in Nat BY <1>1 DEF Counts
  <2> QED BY <2>1
<1> HIDE DEF c, chirp
<1>4. /\ Within(count') /\ count'.pairs = 0 /\ count'.reset = count.reset
      /\ fsm' = "CHIRP_DRIVE_K" => count'.chirp = 0
  BY <1>0, <1>1, <1>2, <1>3 DEF Within, Counts
<1>5. fsm' = "CHIRP_DRIVE_K" =>
        /\ count'.chirp < chirp_drive_cycles
        /\ count'.reset <= reset_cycles - chirp_tail_cycles + count'.chirp
        /\ count'.reset < last_chance + 2 * (count'.pairs * chirp_drive_cycles) + count'.chirp
  <2>1. last_chance \in Nat BY Timing DEF last_chance
  <2>2. 0 * chirp_drive_cycles = 0 BY Timing
  <2>3. count.reset \in Nat BY ResetCounts
  <2>4. last_chance <= reset_cycles - chirp_tail_cycles BY <2>1, Timing
  <2> QED BY <1>0, <1>4, <2>1, <2>2, <2>3, <2>4, Timing
<1>6. InTime' BY <1>0, <1>2, <1>4, <1>5 DEF InTime, last_chance
<1> QED BY <1>0, <1>4, <1>6 DEF Stays

\* The host's chirp: a K runs on into its J.
LEMMA DriveKInTime ==
    ASSUME Shape, CountersBounded, InTime, NEW bus \in buses, ChirpDriveK(bus)
    PROVE  Stays /\ InTime'
<1> DEFINE c == Ticked(bus)
           chirp == IF drive_ended THEN 0 ELSE c.chirp + 1
           all == count.pairs * chirp_drive_cycles
<1>0. /\ session' = session /\ session.enum_attempt < MAX_ENUM_ATTEMPTS /\ fsm = "CHIRP_DRIVE_K"
      /\ count.chirp < chirp_drive_cycles
      /\ count.reset <= reset_cycles - chirp_tail_cycles + count.chirp
      /\ count.pairs < HOST_CHIRP_PAIRS => count.reset < last_chance + 2 * all + count.chirp
  BY DEF ChirpDriveK, CountersBounded, InTime
<1>1. /\ c \in Counts /\ c.reset = count.reset /\ c.pairs = count.pairs /\ c.chirp = count.chirp
      /\ Within(c)
  BY TickedCounters, WithinTicked
<1>2. /\ fsm' = IF drive_ended THEN "CHIRP_DRIVE_J" ELSE fsm
      /\ count' = [c EXCEPT !.reset = @ + 1, !.chirp = chirp]
  BY DEF ChirpDriveK, c
<1>3. /\ count.reset \in Nat /\ count.chirp \in Nat /\ count.pairs \in Nat /\ last_chance \in Nat
      /\ all \in Nat
  BY ResetCounts, Timing DEF last_chance
<1>4. /\ drive_ended => count.chirp = chirp_drive_cycles - 1
      /\ ~drive_ended => count.chirp + 1 < chirp_drive_cycles
  BY <1>0, <1>3, Timing DEF drive_ended
<1>5. chirp \in Nat /\ c.reset + 1 \in Nat /\ count.reset + 1 < reset_cycles
  BY <1>0, <1>1, <1>3, Timing
<1>6. chirp = IF drive_ended THEN 0 ELSE count.chirp + 1 BY <1>1
<1> HIDE DEF c, chirp
<1>7. /\ Within(count') /\ count'.reset = count.reset + 1 /\ count'.chirp = chirp
      /\ count'.pairs = count.pairs
  BY <1>1, <1>2, <1>5 DEF Within, Counts
<1> HIDE DEF all
<1>8. LET pair == IF fsm' = "CHIRP_DRIVE_J" THEN chirp_drive_cycles + count'.chirp ELSE count'.chirp
      IN  /\ count'.chirp < chirp_drive_cycles
          /\ count'.reset <= reset_cycles - chirp_tail_cycles + pair
          /\ count'.pairs < HOST_CHIRP_PAIRS => count'.reset < last_chance + 2 * all + pair
  BY <1>0, <1>2, <1>3, <1>4, <1>6, <1>7, Timing
<1>9. fsm' \in {"CHIRP_DRIVE_K", "CHIRP_DRIVE_J"} BY <1>0, <1>2
<1>10. InTime' BY <1>7, <1>8, <1>9 DEF InTime, last_chance, all
<1> QED BY <1>0, <1>7, <1>10 DEF Stays

\* A J ends its pair; in the tail all pairs are done, and the rest of the reset is
\* longer than a pair.
LEMMA DriveJInTime ==
    ASSUME Shape, CountersBounded, InTime, Negotiated, NEW bus \in buses, ChirpDriveJ(bus)
    PROVE  Stays /\ InTime'
<1> DEFINE c == Ticked(bus)
           chirp == IF drive_ended THEN 0 ELSE c.chirp + 1
           all == count.pairs * chirp_drive_cycles
           paired == drive_ended /\ count.pairs < HOST_CHIRP_PAIRS
           pairs == IF paired THEN c.pairs + 1 ELSE c.pairs
           done == c.chirp_done \/ (paired /\ count.pairs = HOST_CHIRP_PAIRS - 1)
<1>0. /\ session.enum_attempt < MAX_ENUM_ATTEMPTS /\ fsm = "CHIRP_DRIVE_J"
      /\ count.chirp < chirp_drive_cycles
      /\ count.reset <= reset_cycles - chirp_tail_cycles + (chirp_drive_cycles + count.chirp)
      /\ count.pairs < HOST_CHIRP_PAIRS =>
            count.reset < last_chance + 2 * all + (chirp_drive_cycles + count.chirp)
  BY DEF ChirpDriveJ, CountersBounded, InTime
<1>1. /\ c \in Counts /\ c.reset = count.reset /\ c.pairs = count.pairs /\ c.chirp = count.chirp
      /\ c.chirp_done = count.chirp_done /\ Within(c)
  BY TickedCounters, WithinTicked
<1>2. /\ fsm' = IF ~drive_ended THEN fsm ELSE IF in_tail THEN "BUS_RESET" ELSE "CHIRP_DRIVE_K"
      /\ count' = [c EXCEPT !.reset = @ + 1, !.chirp = chirp, !.pairs = pairs, !.chirp_done = done]
  BY DEF ChirpDriveJ, c
<1>3. /\ count.reset \in Nat /\ count.chirp \in Nat /\ count.pairs \in Nat /\ last_chance \in Nat
      /\ count.chirp_done \in BOOLEAN /\ all \in Nat
  BY ResetCounts, Timing DEF last_chance
<1>4. /\ drive_ended => count.chirp = chirp_drive_cycles - 1
      /\ ~drive_ended => count.chirp + 1 < chirp_drive_cycles
  BY <1>0, <1>3, Timing DEF drive_ended
<1>5. chirp \in Nat /\ pairs \in Nat /\ done \in BOOLEAN /\ c.reset + 1 \in Nat
      /\ count.reset + 1 < reset_cycles
  <2>1. chirp \in Nat /\ pairs \in Nat /\ c.reset + 1 \in Nat BY <1>1, <1>3
  <2>2. done \in BOOLEAN BY <1>1, <1>3
  <2>3. count.reset + 1 < reset_cycles BY <1>0, <1>3, Timing
  <2> QED BY <2>1, <2>2, <2>3
<1>6. /\ chirp = IF drive_ended THEN 0 ELSE count.chirp + 1
      /\ pairs = IF paired THEN count.pairs + 1 ELSE count.pairs
      /\ count.chirp_done => done
  BY <1>1
<1>7. session'.enum_attempt < MAX_ENUM_ATTEMPTS
  <2>1. \E speed : session' = [session EXCEPT !.high_speed = speed] BY DEF ChirpDriveJ
  <2>2. session \in Sessions BY DEF Shape
  <2> QED BY <1>0, <2>1, <2>2 DEF Sessions
<1>8. count.pairs = HOST_CHIRP_PAIRS => count.chirp_done
  BY <1>0 DEF Negotiated, reset_active, Resets
<1>9. count.pairs < HOST_CHIRP_PAIRS =>
         /\ all + chirp_drive_cycles <= HOST_CHIRP_PAIRS * chirp_drive_cycles
         /\ (count.pairs + 1) * chirp_drive_cycles = all + chirp_drive_cycles
  BY <1>3, PairsCycles, Timing
<1> HIDE DEF c, chirp, pairs, done, all
<1>10. /\ Within(count') /\ count'.reset = count.reset + 1 /\ count'.chirp = chirp
       /\ count'.pairs = pairs /\ count'.chirp_done = done
  BY <1>1, <1>2, <1>5 DEF Within, Counts
<1>11. CASE ~drive_ended
  <2>1. /\ count'.chirp = count.chirp + 1 /\ count'.pairs = count.pairs /\ fsm' = "CHIRP_DRIVE_J"
    BY <1>0, <1>2, <1>6, <1>10, <1>11
  <2>2. /\ count'.chirp < chirp_drive_cycles
        /\ count'.reset <= reset_cycles - chirp_tail_cycles + (chirp_drive_cycles + count'.chirp)
        /\ count'.pairs < HOST_CHIRP_PAIRS =>
              count'.reset < last_chance + 2 * all + (chirp_drive_cycles + count'.chirp)
    BY <1>0, <1>3, <1>4, <1>10, <1>11, <2>1, Timing
  <2>3. InTime' BY <2>1, <2>2 DEF InTime, last_chance, all
  <2> QED BY <1>7, <1>10, <2>3 DEF Stays
<1>12. CASE drive_ended /\ in_tail
  <2>1. ~(count.pairs < HOST_CHIRP_PAIRS)
    <3>1. SUFFICES ASSUME count.pairs < HOST_CHIRP_PAIRS PROVE FALSE OBVIOUS
    <3>2. /\ count.reset < last_chance + 2 * all + (chirp_drive_cycles + count.chirp)
          /\ all + chirp_drive_cycles <= HOST_CHIRP_PAIRS * chirp_drive_cycles
          /\ count.chirp = chirp_drive_cycles - 1
          /\ count.reset >= reset_cycles - chirp_tail_cycles
      BY <1>0, <1>4, <1>9, <1>12, <3>1 DEF in_tail
    <3> QED BY <1>3, <3>2, Timing
  <2>2. count.pairs = HOST_CHIRP_PAIRS
    <3>1. count.pairs <= HOST_CHIRP_PAIRS BY <1>0 DEF Negotiated, reset_active, Resets
    <3> QED BY <1>3, <2>1, <3>1, Timing
  <2>3. fsm' = "BUS_RESET" /\ count'.chirp_done
    BY <1>2, <1>6, <1>8, <1>10, <1>12, <2>2
  <2>4. InTime' BY <2>3 DEF InTime
  <2> QED BY <1>7, <1>10, <2>4 DEF Stays
<1>13. CASE drive_ended /\ ~in_tail
  <2>1. fsm' = "CHIRP_DRIVE_K" /\ count'.chirp = 0 /\ count.chirp = chirp_drive_cycles - 1
        /\ count.reset < reset_cycles - chirp_tail_cycles
    BY <1>2, <1>3, <1>4, <1>6, <1>10, <1>13, Timing DEF in_tail
  <2>2. /\ count'.chirp < chirp_drive_cycles
        /\ count'.reset <= reset_cycles - chirp_tail_cycles + count'.chirp
    BY <1>3, <1>10, <2>1, Timing
  <2>3. ASSUME count'.pairs < HOST_CHIRP_PAIRS
        PROVE  count'.reset < last_chance + 2 * (count'.pairs * chirp_drive_cycles) + count'.chirp
    <3>1. count.pairs < HOST_CHIRP_PAIRS /\ count'.pairs = count.pairs + 1
      BY <1>3, <1>6, <1>10, <1>13, <2>3, Timing
    <3>2. count'.pairs * chirp_drive_cycles = all + chirp_drive_cycles BY <1>9, <3>1
    <3>3. count.reset < last_chance + 2 * all + (chirp_drive_cycles + count.chirp) BY <1>0, <3>1
    <3> QED BY <1>3, <1>10, <2>1, <3>2, <3>3, Timing
  <2>4. InTime' BY <2>1, <2>2, <2>3 DEF InTime, last_chance
  <2> QED BY <1>7, <1>10, <2>4 DEF Stays
<1> QED BY <1>11, <1>12, <1>13

\* A cycle keeps the counters within their bounds.
LEMMA CountersStep ==
    ASSUME Shape, CountersBounded, InTime, Negotiated, NEW bus \in buses, EnumeratorStep(bus)
    PROVE  CountersBounded' /\ InTime'
<1>1. CASE BusReset(bus) \/ ChirpAwaitDeviceEnd(bus) \/ ChirpDriveK(bus) \/ ChirpDriveJ(bus)
  <2>1. Stays /\ InTime'
    BY <1>1, BusResetInTime, AwaitEndInTime, DriveKInTime, DriveJInTime
  <2> QED BY <2>1 DEF Stays, Within, CountersBounded
<1>2. CASE ~(BusReset(bus) \/ ChirpAwaitDeviceEnd(bus) \/ ChirpDriveK(bus) \/ ChirpDriveJ(bus))
  <2>1. Stays
    BY <1>2, AttachBounded, RecoveryBounded, RequestsBounded DEF EnumeratorStep
  <2>2. ~reset_active
    BY <1>2, StartsAre, WaitsAre
       DEF EnumeratorStep, reset_active, Resets, PowerOff, Discharge, WaitAttach, ResetRecovery,
           Start, Await, SetAddressRecovery, Prepare, StringSelect, ReportSelect, Terminal
  <2>3. fsm' \in Resets => fsm' = "BUS_RESET" /\ count'.reset = 0 /\ count'.chirp = 0
    BY <2>2, EntersReset
  <2>4. 0 < chirp_detect_cycles /\ 0 < chirp_timeout_cycles + 0 BY Timing
  <2>5. InTime' BY <2>3, <2>4 DEF InTime, Resets
  <2> QED BY <2>1, <2>5 DEF Stays, Within, CountersBounded
<1> QED BY <1>1, <1>2

-----------------------------------------------------------------------------
\* What the engine has left to pass on.
LEMMA LeftEffect ==
    ASSUME Shape, NEW bus, NEW outcome \in Outcomes,
           NEW relayed \in {FALSE, session.ready /\ engine.phase = "idle"},
           EngineStep(outcome, relayed, bus), engine.left <= 2
    PROVE  /\ engine'.left <= 2
           /\ engine'.phase = "data" =>
                 \/ engine.phase = "setup" /\ engine'.left <= Asked(engine.kind)
                 \/ /\ engine.phase = "data"
                    /\ engine'.left = IF data_ready THEN engine.left - 1 ELSE engine.left
<1>0. engine \in Engines /\ engine.left \in Nat BY DEF Shape, Engines
<1>1. /\ IdleEngine.left = 0 /\ IdleEngine.phase = "idle"
      /\ \A status : Finished(status).left = 0 /\ Finished(status).phase = "idle"
  BY DEF IdleEngine, Finished
<1>2. CASE engine' = IdleEngine \/ \E status : engine' = Finished(status)
  BY <1>1, <1>2
<1>3. CASE /\ engine.phase = "idle"
           /\ \E kind, to : engine' = [IdleEngine EXCEPT !.phase = "setup", !.kind = kind, !.to = to]
  <2>1. engine'.left = 0 /\ engine'.phase = "setup" BY <1>3 DEF IdleEngine
  <2> QED BY <2>1
<1>4. CASE engine' = engine /\ engine.phase \in {"setup", "data"} /\ (engine.phase = "data" => ~data_ready)
  BY <1>0, <1>4
<1>5. CASE engine.phase = "setup" /\ session.connected /\ outcome \notin {"hold", "lost"}
  <2> DEFINE units == IF outcome = "short" THEN Asked(engine.kind) - 1 ELSE Asked(engine.kind)
             next == IF units = 0 THEN "status" ELSE "data"
  <2>1. outcome \in {"none"} \cup Flaws[engine.kind]
    BY <1>5 DEF Outcomes
  <2>2. engine.kind \in Waits \cup {"relay"}
    BY <1>0, <1>5 DEF Shape, Engines, Kinds
  <2>3. Asked(engine.kind) \in {0, 1, 2} BY <2>2, WaitsAre DEF Asked
  <2>4. outcome = "short" => Asked(engine.kind) # 0 BY <2>1, <2>2, FlawsAre
  <2>5. units \in Nat /\ units <= Asked(engine.kind) /\ units <= 2 BY <2>3, <2>4
  <2>6. engine' = [engine EXCEPT !.phase = next, !.left = units,
                                 !.flaw = outcome, !.n = device.n, !.source = profile]
    BY <1>5 DEF EngineStep
  <2> HIDE DEF units, next
  <2>7. engine'.left = units BY <1>0, <2>6 DEF Engines
  <2> QED BY <1>5, <2>5, <2>7
<1>6. CASE engine.phase = "data" /\ session.connected /\ data_ready
  <2> DEFINE next == IF engine.left = 1 THEN "status" ELSE engine.phase
             left == engine.left - 1
  <2>1. engine' = [engine EXCEPT !.left = left, !.phase = next]
    BY <1>6 DEF EngineStep
  <2>2. left <= 2 BY <1>0
  <2> HIDE DEF left, next
  <2>3. engine'.left = left BY <1>0, <2>1 DEF Engines
  <2> QED BY <1>6, <2>2, <2>3 DEF left
<1>7. engine.phase \in {"idle", "setup", "data", "status"} BY <1>0 DEF Engines
<1>8. CASE engine.phase = "idle"
  BY <1>2, <1>3, <1>8 DEF EngineStep
<1>9. CASE engine.phase # "idle" /\ ~session.connected
  BY <1>2, <1>9, <1>7 DEF EngineStep
<1>10. CASE engine.phase = "setup" /\ session.connected
  BY <1>2, <1>4, <1>5, <1>10 DEF EngineStep
<1>11. CASE engine.phase = "data" /\ session.connected
  BY <1>4, <1>6, <1>11 DEF EngineStep
<1>12. CASE engine.phase = "status" /\ session.connected
  BY <1>2, <1>12 DEF EngineStep
<1> QED BY <1>7, <1>8, <1>9, <1>10, <1>11, <1>12

\* The store takes no unit but one that is offered.
LEMMA UnitsEffect ==
    ASSUME Shape, NEW full \in BOOLEAN, StoreStep(full)
    PROVE  \/ store'.units \in {0, store.units}
           \/ store.active /\ ~store.overflow /\ unit_offered /\ store'.units = store.units + 1
<1>0. store \in Stores BY DEF Shape
<1>1. CASE strobe.clear
  BY <1>1, NoStoreShape DEF StoreStep, clear
<1>2. CASE /\ ~strobe.clear /\ store.active
           /\ strobe.abort \/ strobe.commit
  <2>1. \E kept : store' = [NoStore EXCEPT !.kept = kept]
    BY <1>2 DEF StoreStep, clear
  <2> QED BY <2>1 DEF NoStore
<1>3. CASE ~strobe.clear /\ ~(store.active /\ (strobe.abort \/ strobe.commit))
  BY <1>0, <1>3, StoreEffect
<1> QED BY <1>1, <1>2, <1>3

\* In a wait that reads something, the transfer begins with nothing read.
LEMMA WaitBegins ==
    ASSUME Complete, NEW bus \in buses, EnumeratorStep(bus),
           fsm \notin Waits, fsm' \in Waits
    PROVE  /\ fsm \in DOMAIN Starts /\ engine.phase = "idle"
           /\ Units[fsm'] # 0 => parse'.byte_count = 0
<1>0. Shape /\ StrobeSound /\ EngineSound BY DEF Complete
<1>1. ASSUME GivesUp PROVE FALSE
  BY <1>1, WaitsAre DEF GivesUp, Detaches, Fails, Retries
<1>2. Start(bus)
  <2>1. CASE PowerOff(bus) \/ Discharge(bus) \/ WaitAttach(bus)
    BY <1>0, <2>1, AttachEffect, WaitsAre
  <2>2. CASE \/ BusReset(bus) \/ ChirpAwaitDeviceEnd(bus) \/ ChirpDriveK(bus)
             \/ ChirpDriveJ(bus) \/ ResetRecovery(bus)
    BY <1>0, <1>1, <2>2, ResetEffect, WaitsAre DEF Resets
  <2>3. CASE Await(bus) BY <2>3 DEF Await
  <2>4. CASE SetAddressRecovery(bus)
    BY <1>0, <1>1, <2>4, RecoveryEffect, WaitsAre DEF GivesUp
  <2>5. CASE Prepare(bus)
    BY <1>0, <2>5, PrepareEffect, PrepsAreAddressing, WaitsAre
  <2>6. CASE StringSelect(bus) BY <1>0, <2>6, StringSelectEffect, WaitsAre
  <2>7. CASE ReportSelect(bus) BY <1>0, <1>1, <2>7, ReportSelectEffect, WaitsAre DEF GivesUp
  <2>8. CASE Terminal(bus) BY <1>0, <1>1, <2>8, TerminalEffect, WaitsAre DEF GivesUp
  <2> QED BY <2>1, <2>2, <2>3, <2>4, <2>5, <2>6, <2>7, <2>8 DEF EnumeratorStep
<1>3. /\ fsm \in DOMAIN Starts /\ fsm' = Starts[fsm]
      /\ parse'.byte_count = IF fsm \in {"GET8_START", "CONFIG_HEADER_START"} THEN 0
                             ELSE parse.byte_count
  BY <1>0, <1>1, <1>2, StartEffect DEF GivesUp
<1>4. engine.phase = "idle"
  BY <1>0, <1>3, StartsAre, WaitsAre DEF EngineSound
<1>5. fsm \in CaptureStarts => parse.byte_count = 0
  BY <1>0 DEF StrobeSound
<1>6. Units[fsm'] # 0 => fsm \in CaptureStarts \cup {"GET8_START", "CONFIG_HEADER_START"}
  BY <1>3, StartsAre, WaitsAre DEF CaptureStarts
<1> QED BY <1>3, <1>4, <1>5, <1>6

\* Outside the waits nothing is read, and what was read is forgotten or kept.
LEMMA ReadsInWaits ==
    ASSUME Complete, NEW bus \in buses, EnumeratorStep(bus), fsm \notin Waits
    PROVE  parse'.byte_count \in {0, parse.byte_count}
<1>0. Shape BY DEF Complete
<1>1. CASE PowerOff(bus) \/ Discharge(bus) \/ WaitAttach(bus)
  BY <1>0, <1>1, AttachEffect
<1>2. CASE \/ BusReset(bus) \/ ChirpAwaitDeviceEnd(bus) \/ ChirpDriveK(bus)
           \/ ChirpDriveJ(bus) \/ ResetRecovery(bus)
  BY <1>0, <1>2, ResetEffect
<1>3. CASE Start(bus)
  <2>1. parse \in Parses BY <1>0 DEF Shape
  <2> QED BY <1>3, <2>1 DEF Start, Parses
<1>4. CASE Await(bus) BY <1>4 DEF Await
<1>5. CASE SetAddressRecovery(bus)
  <2>1. parse' = parse \/ parse' = [Begun EXCEPT !.string_indexes = <<0, 0, 0>>]
    BY <1>5 DEF SetAddressRecovery
  <2>2. parse \in Parses BY <1>0 DEF Shape
  <2> QED BY <2>1, <2>2 DEF Begun, Parses
<1>6. CASE Prepare(bus)
  BY <1>0, <1>6, PrepareEffect, PrepsAreAddressing
<1>7. CASE StringSelect(bus)
  <2>1. parse' = parse \/ parse' = [parse EXCEPT !.string_cursor = @ + 1]
    BY <1>7 DEF StringSelect
  <2>2. parse \in Parses BY <1>0 DEF Shape
  <2> QED BY <2>1, <2>2 DEF Parses
<1>8. CASE ReportSelect(bus)
  <2>1. parse' = parse \/ parse' = [parse EXCEPT !.report_cursor = @ + 1]
    BY <1>8 DEF ReportSelect
  <2>2. parse \in Parses BY <1>0 DEF Shape
  <2> QED BY <2>1, <2>2 DEF Parses
<1>9. CASE Terminal(bus) BY <1>0, <1>9, TerminalEffect
<1> QED
  BY <1>1, <1>2, <1>3, <1>4, <1>5, <1>6, <1>7, <1>8, <1>9 DEF EnumeratorStep

\* A wait reads a unit that is accepted, and none with the end of the transfer.
LEMMA ReadsOne ==
    ASSUME Complete, NEW bus \in buses, EnumeratorStep(bus), fsm \in Waits
    PROVE  parse'.byte_count = IF accepted THEN parse.byte_count + 1 ELSE parse.byte_count
<1>0. Shape /\ EngineSound BY DEF Complete
<1>1. Await(bus) BY ActionOf
<1>2. Received.byte_count = IF accepted THEN parse.byte_count + 1 ELSE parse.byte_count
  BY <1>0, ReceivedEffect
<1>3. CASE parse' = Received BY <1>2, <1>3
<1>4. CASE engine.done # "none"
  <2>1. ~accepted BY <1>0, <1>4 DEF EngineSound, accepted
  <2>2. parse' = parse \/ Advance(bus) \/ parse' = Received BY <1>1 DEF Await
  <2>3. parse \in Parses BY <1>0 DEF Shape
  <2>4. CASE Advance(bus)
    <3>1. \/ parse' = parse
          \/ \E n : \/ parse' = [parse EXCEPT !.string_cursor = n]
                    \/ parse' = [parse EXCEPT !.report_cursor = n]
          \/ parse' = [parse EXCEPT !.report_cursor = 0, !.fetched = {}]
      BY <2>4 DEF Advance
    <3>2. parse'.byte_count = parse.byte_count BY <2>3, <3>1 DEF Parses
    <3> QED BY <2>1, <3>2
  <2> QED BY <1>3, <2>1, <2>2, <2>4
<1> QED BY <1>1, <1>3, <1>4 DEF Await

\* A cycle keeps what is read, what is to come and what is asked for in step.
LEMMA UnitsStep ==
    ASSUME Complete, UnitsAsked, NEW bus, NEW event, NEW chirps, NEW outcome, NEW relayed, NEW full,
           NEW failing, CycleOf(bus, event, chirps, outcome, relayed, full, failing)
    PROVE  UnitsAsked'
<1>0. /\ Shape /\ EngineSound /\ StoreSound /\ bus \in buses /\ EnumeratorStep(bus)
      /\ StoreStep(full) /\ full \in BOOLEAN
  BY DEF Complete, CycleOf, Cycle
<1>1. /\ parse.byte_count \in Nat /\ engine.left \in Nat /\ store.units \in Nat
      /\ engine'.left \in Nat
  <2>1. Shape' BY ShapeStep
  <2> QED BY <1>0, <2>1 DEF Shape, Parses, Engines, Stores
<1>2. /\ engine'.left <= 2
      /\ engine'.phase = "data" =>
            \/ engine.phase = "setup" /\ engine'.left <= Asked(engine.kind)
            \/ /\ engine.phase = "data"
               /\ engine'.left = IF data_ready THEN engine.left - 1 ELSE engine.left
  BY <1>0, LeftEffect DEF CycleOf, Cycle, UnitsAsked
<1>3. engine'.phase = "setup" => engine.phase \in {"idle", "setup"}
  BY <1>0, EngineEffect DEF CycleOf, Cycle
<1>4. accepted => parse.byte_count + 1 <= 2
  <2>1. SUFFICES ASSUME accepted PROVE parse.byte_count + 1 <= 2 OBVIOUS
  <2>2. /\ fsm \in Waits /\ engine.phase = "data" /\ engine.left # 0
    BY <1>0, <2>1 DEF accepted, Shape
  <2>3. parse.byte_count + engine.left <= Units[fsm] BY <2>2 DEF UnitsAsked
  <2>4. Units[fsm] \in {0, 1, 2} BY <2>2, WaitsAre
  <2> QED BY <1>1, <2>2, <2>3, <2>4
<1>5. parse'.byte_count <= 2
  <2>1. CASE fsm \in Waits
    BY <1>0, <1>4, <2>1, ReadsOne DEF UnitsAsked
  <2>2. CASE fsm \notin Waits
    BY <1>0, <2>2, ReadsInWaits DEF UnitsAsked
  <2> QED BY <2>1, <2>2
<1>6. store'.units <= 2
  <2>1. CASE store'.units \in {0, store.units} BY <2>1 DEF UnitsAsked
  <2>2. CASE store.active /\ ~store.overflow /\ unit_offered /\ store'.units = store.units + 1
    <3>1. fsm \in Captures /\ fsm \in Waits /\ engine.phase = "data" /\ store.units = parse.byte_count
      BY <1>0, <2>2, WaitsAre DEF unit_offered, StoreSound, Captures
    <3>2. engine.left # 0 /\ parse.byte_count + engine.left <= Units[fsm] /\ Units[fsm] \in {0, 1, 2}
      BY <1>0, <3>1, WaitsAre DEF Shape, UnitsAsked
    <3> QED BY <1>1, <2>2, <3>1, <3>2
  <2> QED BY <1>0, <2>1, <2>2, UnitsEffect
<1>7. ASSUME fsm' \in Waits, Units[fsm'] # 0, engine'.phase = "setup"
      PROVE  parse'.byte_count = 0
  <2>1. CASE fsm \notin Waits BY <1>0, <1>7, <2>1, WaitBegins
  <2>2. CASE fsm \in Waits
    <3>1. fsm' = fsm /\ engine.phase = "setup"
      <4>1. fsm' = fsm
        BY <1>0, <1>7, <2>2, ActionOf, AwaitEffect, WaitsAre, OnwardIs
           DEF GivesUp, Detaches, Fails, Retries
      <4>2. fsm \notin DOMAIN Starts /\ ~relayed
        <5>1. ~session.ready BY <2>2, WaitsAre DEF Complete, SessionSound
        <5> QED BY <2>2, <5>1, WaitsAre, StartsAre DEF CycleOf
      <4>3. ~sending(bus) BY <4>2 DEF sending
      <4> QED BY <1>0, <1>7, <4>1, <4>2, <4>3, EngineEffect DEF CycleOf, Cycle
    <3>2. ~accepted BY <3>1 DEF accepted
    <3> QED BY <1>0, <1>7, <2>2, <3>1, <3>2, ReadsOne DEF UnitsAsked
  <2> QED BY <2>1, <2>2
<1>8. ASSUME fsm' \in Waits, engine'.phase = "data"
      PROVE  parse'.byte_count + engine'.left <= Units[fsm']
  <2>1. fsm \in Waits
    BY <1>0, <1>2, <1>8, WaitBegins
  <2>2. fsm' = fsm
    BY <1>0, <1>8, <2>1, ActionOf, AwaitEffect, WaitsAre, OnwardIs
       DEF GivesUp, Detaches, Fails, Retries
  <2>3. parse'.byte_count = IF accepted THEN parse.byte_count + 1 ELSE parse.byte_count
    BY <1>0, <2>1, ReadsOne
  <2>4. CASE engine.phase = "setup" /\ engine'.left <= Asked(engine.kind)
    <3>1. engine.kind = fsm /\ Asked(fsm) = Units[fsm]
      BY <1>0, <2>1, <2>4 DEF EngineSound, Asked
    <3>2. engine'.left # 0
      <4>1. Shape' BY ShapeStep
      <4> QED BY <1>8, <4>1 DEF Shape
    <3>3. Units[fsm] \in {0, 1, 2} BY <2>1, WaitsAre
    <3>4. Units[fsm] # 0 BY <1>1, <2>4, <3>1, <3>2, <3>3
    <3>5. parse.byte_count = 0 /\ ~accepted BY <2>1, <2>4, <3>4 DEF UnitsAsked, accepted
    <3> QED BY <1>1, <2>2, <2>3, <2>4, <3>1, <3>3, <3>5
  <2>5. CASE /\ engine.phase = "data"
             /\ engine'.left = IF data_ready THEN engine.left - 1 ELSE engine.left
    <3>1. accepted <=> data_ready BY <2>1, <2>5 DEF accepted
    <3>2. parse.byte_count + engine.left <= Units[fsm] BY <2>1, <2>5 DEF UnitsAsked
    <3>3. Units[fsm] \in {0, 1, 2} BY <2>1, WaitsAre
    <3> QED BY <1>1, <2>2, <2>3, <2>5, <3>1, <3>2, <3>3
  <2> QED BY <1>2, <1>8, <2>4, <2>5
<1> QED BY <1>2, <1>5, <1>6, <1>7, <1>8 DEF UnitsAsked

\* The FSM is in one of its states.
LEMMA StatesStep ==
    ASSUME Complete, NEW bus \in buses, EnumeratorStep(bus), fsm \in States
    PROVE  fsm' \in States
<1>0. Shape BY DEF Complete
<1> USE WaitsAre, StartsAre DEF States, Resets, Preps
<1>1. GivesUp => fsm' \in States BY DEF GivesUp, Detaches, Fails, Retries
<1>2. CASE PowerOff(bus) \/ Discharge(bus) \/ WaitAttach(bus)
  BY <1>0, <1>2, AttachEffect
<1>3. CASE \/ BusReset(bus) \/ ChirpAwaitDeviceEnd(bus) \/ ChirpDriveK(bus)
           \/ ChirpDriveJ(bus) \/ ResetRecovery(bus)
  BY <1>0, <1>1, <1>3, ResetEffect
<1>4. CASE Start(bus) BY <1>0, <1>1, <1>4, StartEffect DEF GivesUp
<1>5. CASE Await(bus) BY <1>0, <1>1, <1>5, AwaitEffect, OnwardIs
<1>6. CASE SetAddressRecovery(bus) BY <1>0, <1>1, <1>6, RecoveryEffect DEF GivesUp
<1>7. CASE Prepare(bus) BY <1>0, <1>7, PrepareEffect, PrepsAreAddressing
<1>8. CASE StringSelect(bus) BY <1>0, <1>8, StringSelectEffect
<1>9. CASE ReportSelect(bus) BY <1>0, <1>1, <1>9, ReportSelectEffect DEF GivesUp
<1>10. CASE Terminal(bus) BY <1>0, <1>1, <1>10, TerminalEffect DEF GivesUp
<1> QED
  BY <1>2, <1>3, <1>4, <1>5, <1>6, <1>7, <1>8, <1>9, <1>10 DEF EnumeratorStep

\* The bounds, with what they follow from.
BInv ==
    /\ fsm \in States /\ faults \in 0..MaxFaults
    /\ CountersBounded /\ InTime /\ UnitsAsked

LEMMA InitIsBounded == Init => BInv
<1> SUFFICES ASSUME Init PROVE BInv OBVIOUS
<1>1. fsm = "POWER_OFF" /\ faults = 0 /\ MaxFaults \in Nat
  BY EnumerationAssumption DEF Init
<1>2. /\ session.enum_attempt = 0 /\ count.attach = 0 /\ count.detach = 0 /\ count.wait = 0
      /\ count.reset = 0
  BY DEF Init, NoSession, NoCount
<1>3. /\ 0 < MAX_ENUM_ATTEMPTS /\ 0 < attach_stable_cycles /\ 0 <= detach_stable_cycles
      /\ 0 <= recovery_timeout_cycles /\ 0 < reset_cycles
  BY TimingAssumption
<1>4. CountersBounded BY <1>2, <1>3 DEF CountersBounded
<1>5. InTime BY <1>1 DEF InTime
<1>6. parse.byte_count = 0 /\ engine.left = 0 /\ store.units = 0
  BY DEF Init, NoParse, IdleEngine, NoStore
<1>7. UnitsAsked BY <1>1, <1>6, WaitsAre DEF UnitsAsked
<1> QED BY <1>1, <1>4, <1>5, <1>7 DEF BInv, States

LEMMA NextIsBounded == Complete /\ Negotiated /\ BInv /\ [Next]_vars => BInv'
<1> SUFFICES ASSUME Complete, Negotiated, BInv, [Next]_vars PROVE BInv' OBVIOUS
<1>1. CASE Next
  <2>1. PICK bus, event, chirps, outcome, relayed, full, failing :
           CycleOf(bus, event, chirps, outcome, relayed, full, failing)
    BY <1>1, NextIsCycle DEF Complete
  <2>2. bus \in buses /\ EnumeratorStep(bus) /\ Shape
    BY <2>1 DEF CycleOf, Cycle, Complete
  <2>3. CountersBounded' /\ InTime' BY <2>2, CountersStep DEF BInv
  <2>4. UnitsAsked' BY <2>1, UnitsStep DEF BInv
  <2>5. fsm' \in States BY <2>2, StatesStep DEF BInv
  <2>6. faults' \in 0..MaxFaults
    <3>1. MaxFaults \in Nat /\ faults \in 0..MaxFaults BY EnumerationAssumption DEF BInv
    <3> QED BY <2>1, <3>1 DEF CycleOf
  <2> QED BY <2>3, <2>4, <2>5, <2>6 DEF BInv
<1>2. CASE UNCHANGED vars
  BY <1>2 DEF vars, enumeratorVars, BInv, CountersBounded, InTime, UnitsAsked
<1> QED BY <1>1, <1>2

\* No counter passes what it is compared with for equality: the attach, the reset
\* through any number of chirp pairs, the wait for the idle line; the attempts and
\* the units read end at their bounds (enumerator.py: WAIT_ATTACH, BUS_RESET and the
\* chirp states, RESET_RECOVERY, retry_or_fail).
THEOREM TypeCorrect == Spec => []TypeOK
<1>1. Complete /\ BInv => TypeOK
  <2> SUFFICES ASSUME Complete, BInv PROVE TypeOK OBVIOUS
  <2>1. /\ Shape /\ fsm \in States /\ faults \in 0..MaxFaults /\ CountersBounded /\ UnitsAsked
    BY DEF Complete, BInv
  <2>2. /\ session.enum_attempt \in Nat /\ session.address \in {0, 1}
        /\ session.enum_attempt < MAX_ENUM_ATTEMPTS
    BY <2>1 DEF Shape, Sessions, CountersBounded
  <2>3. session.enum_attempt \in 0..(MAX_ENUM_ATTEMPTS - 1) BY <2>2, ConstantsType
  <2>4. /\ count.reset \in Nat /\ count.attach \in Nat /\ count.detach \in Nat /\ count.wait \in Nat
    BY <2>1 DEF Shape, Counts
  <2>5. /\ count.attach < attach_stable_cycles /\ count.detach <= detach_stable_cycles
        /\ count.wait <= recovery_timeout_cycles /\ count.reset < reset_cycles
    BY <2>1 DEF CountersBounded
  <2>6. /\ count.reset \in 0..(reset_cycles - 1) /\ count.attach \in 0..(attach_stable_cycles - 1)
        /\ count.detach \in 0..detach_stable_cycles /\ count.wait \in 0..recovery_timeout_cycles
    BY <2>4, <2>5, ConstantsType
  <2>7. parse.byte_count \in Nat /\ engine.left \in Nat /\ store.units \in Nat
    BY <2>1 DEF Shape, Parses, Engines, Stores
  <2>8. parse.byte_count \in 0..2 /\ engine.left \in 0..2 /\ store.units \in 0..2
    BY <2>1, <2>7 DEF UnitsAsked
  <2>9. device.n \in 0..Len(seen) /\ seen \in Seq(Profiles) BY <2>1 DEF Shape
  <2> QED BY <2>1, <2>2, <2>3, <2>6, <2>8, <2>9 DEF TypeOK
<1> QED BY CompleteInvariant, NegotiatedInvariant, InitIsBounded, NextIsBounded, <1>1, PTL DEF Spec
=============================================================================
