------------------------ MODULE ControlForwardProofs ------------------------
(***************************************************************************)
(* Proofs about ControlForward, for every request set, buffer size,        *)
(* timeout, endpoint table and bound.                                      *)
(***************************************************************************)
EXTENDS ControlForward, TLAPS

\* The SETUP packet of a cycle: the one latched before, or a new one with the
\* next id (setup.* holds the new packet already in the cycle of its strobe).
LEMMA SetupOfCycle ==
    ASSUME NEW ev, NEW s \in Latched, PCStep(ev, s), setup \in Request
    PROVE  /\ s \in Request /\ setup' = s
           /\ ev # "setup" => s = setup
           /\ ev = "setup" => s.id = setup.id + 1
<1>1. CASE ev = "setup"
  <2>1. PICK q \in Requests : s = [q EXCEPT !.id = setup.id + 1]
    BY <1>1 DEF PCStep, PCSetup
  <2>2. q \in Request /\ setup.id + 1 \in Nat
    BY ForwardAssumption DEF Request
  <2>3. s \in Request /\ s.id = setup.id + 1
    BY <2>1, <2>2 DEF Request
  <2>4. setup' = s
    BY <1>1 DEF PCStep, PCSetup
  <2> QED BY <1>1, <2>3, <2>4
<1>2. CASE ev # "setup"
  <2>1. s = setup
    BY <1>2 DEF PCStep
  <2>2. setup' = setup
    BY <1>2 DEF PCStep, PCToken, PCByte, PCEndOfPacket, PCQuiet, pcVars
  <2> QED BY <1>2, <2>1, <2>2
<1> QED BY <1>1, <1>2

\* The interface a replay is offered for is one of the captured interfaces.
LEMMA OfferedInterface ==
    ASSUME current \subseteq Slots, resync_valid
    PROVE  CurrentInterface \in Nat
<1>1. current # {}
  BY DEF resync_valid, Offered
<1>2. (CHOOSE k \in current : TRUE) \in Slots
  BY <1>1
<1> QED BY <1>2, ForwardAssumption DEF CurrentInterface

\* One cycle keeps the handler's registers in their types.
LEMMA HandlerType ==
    ASSUME TypeOK, NEW ev, NEW s \in Request, HandlerCycle(ev, s)
    PROVE  /\ hstate' \in HandlerStates
           /\ defer_timer' \in 0..(TimerModulus - 1)
           /\ setup_pending' \in BOOLEAN /\ packet_ok' \in BOOLEAN
           /\ out_cursor' \in Nat
<1>1. /\ Tick(defer_timer) \in 0..(TimerModulus - 1)
      /\ 0 \in 0..(TimerModulus - 1)
  BY TimeoutAssumption DEF TypeOK, Tick
<1>2. s.class \in BOOLEAN
  BY DEF Request
<1> DEFINE ps == ev = "byte" /\ ~rx_valid
<1>3. CASE HandlerIdle(ev, s, request_ready(ready))
  BY <1>1, <1>2, <1>3 DEF HandlerIdle, Dispatch, TypeOK, HandlerStates
<1>4. CASE HandlerCaptureOut(ev, s, ps)
  BY <1>1, <1>2, <1>4 DEF HandlerCaptureOut, HandlerAbandon, TypeOK, HandlerStates
<1>5. CASE HandlerWaitRelay(ev, s, request_ready(ready))
  BY <1>1, <1>2, <1>5 DEF HandlerWaitRelay, HandlerAbandon, TypeOK, HandlerStates
<1>6. CASE HandlerAwaitingTarget(ev, s, response_valid, response_error)
  BY <1>1, <1>2, <1>6 DEF HandlerAwaitingTarget, HandlerAbandon, TypeOK, HandlerStates
<1>7. CASE HandlerRespond(ev, s)
  BY <1>1, <1>2, <1>7 DEF HandlerRespond, HandlerAbandon, TypeOK, HandlerStates
<1>8. CASE HandlerDrain(ev, s, response_valid, request_pending)
  BY <1>1, <1>2, <1>8 DEF HandlerDrain, TypeOK, HandlerStates
<1>9. CASE HandlerDispatch(ev, s, request_ready(ready))
  BY <1>1, <1>2, <1>9 DEF HandlerDispatch, HandlerAbandon, Dispatch, TypeOK, HandlerStates
<1>10. CASE HandlerStall(ev, s)
  BY <1>1, <1>2, <1>10 DEF HandlerStall, HandlerAbandon, TypeOK, HandlerStates
<1> QED
  BY <1>3, <1>4, <1>5, <1>6, <1>7, <1>8, <1>9, <1>10 DEF HandlerCycle

\* A request the relay accepts leaves its registers in their types.
LEMMA AcceptType ==
    ASSUME NEW r \in Request, NEW replay \in BOOLEAN, RelayAccept(r, replay)
    PROVE  /\ rstate' \in RelayStates /\ latched' \in Request
           /\ buffer' \in Seq(Nat \X Nat)
           /\ request_pending' \in BOOLEAN /\ resync_active' \in BOOLEAN
           /\ response_error' \in BOOLEAN /\ forward_ok' \in BOOLEAN
           /\ resync_done' \in BOOLEAN
<1>1. buffer' \in Seq(Nat \X Nat)
  BY DEF RelayAccept
<1>2. response_error' \in BOOLEAN
  BY BufferAssumption DEF RelayAccept, Request
<1>3. rstate' \in RelayStates
  BY DEF RelayAccept, RelayStates
<1> QED BY <1>1, <1>2, <1>3 DEF RelayAccept

\* One cycle keeps the relay's registers in their types.
LEMMA RelayType ==
    ASSUME TypeOK, NEW ev, NEW s \in Request, RelayCycle(ev, s)
    PROVE  /\ rstate' \in RelayStates /\ latched' \in Request
           /\ buffer' \in Seq(Nat \X Nat)
           /\ request_pending' \in BOOLEAN /\ resync_active' \in BOOLEAN
           /\ response_error' \in BOOLEAN /\ forward_ok' \in BOOLEAN
           /\ resync_done' \in BOOLEAN
<1> DEFINE rv == request_valid(ev, s, request_ready(ready))
<1>1. CASE RelayIdle(ready, rv, s, resync_valid, CurrentInterface)
  <2>1. CASE RelayAccept(s, FALSE)
    BY <2>1, AcceptType
  <2>2. CASE resync_valid /\ RelayAccept(ReplayRequest(CurrentInterface), TRUE)
    <3>1. CurrentInterface \in Nat
      BY <2>2, OfferedInterface DEF TypeOK
    <3>2. ReplayRequest(CurrentInterface) \in Request
      BY <3>1 DEF ReplayRequest, Request
    <3> QED BY <2>2, <3>2, AcceptType
  <2>3. CASE UNCHANGED <<rstate, latched, buffer, request_pending,
                         resync_active, response_error>>
             /\ forward_ok' = FALSE /\ resync_done' = FALSE
    BY <2>3 DEF TypeOK
  <2> QED BY <1>1, <2>1, <2>2, <2>3 DEF RelayIdle
<1>2. CASE RelayCaptureOut(out_valid(ev, ev = "byte" /\ ~rx_valid),
                           Byte(setup.id, pc_next + 1), abort(ev))
  <2>1. Byte(setup.id, pc_next + 1) \in Nat \X Nat
    BY DEF TypeOK, Byte, Request
  <2>2. buffer' \in Seq(Nat \X Nat)
    BY <1>2, <2>1 DEF RelayCaptureOut, TypeOK
  <2>3. response_error' \in BOOLEAN
    BY <1>2 DEF RelayCaptureOut, TypeOK
  <2> QED BY <1>2, <2>2, <2>3 DEF RelayCaptureOut, TypeOK, RelayStates
<1>3. CASE RelayIssue(ready, ctl_busy)
  BY <1>3 DEF RelayIssue, TypeOK, RelayStates
<1>4. CASE RelayAwait(ctl_done, ctl_ok)
  BY <1>4 DEF RelayAwait, TypeOK, RelayStates
<1>5. CASE RelayComplete(response_ack(ev, response_valid, response_error))
  BY <1>5 DEF RelayComplete, TypeOK, RelayStates
<1> QED
  BY <1>1, <1>2, <1>3, <1>4, <1>5 DEF RelayCycle

\* One cycle keeps the tracker's registers in their types.
LEMMA TrackerType ==
    ASSUME TypeOK, NEW trigger \in BOOLEAN, TrackerCycle(trigger)
    PROVE  /\ tstate' \in TrackerStates
           /\ trigger_seen' \in BOOLEAN /\ trigger_prev' \in BOOLEAN
           /\ apply' \in BOOLEAN /\ boot_value' \in BOOLEAN
           /\ pending' \subseteq Slots /\ current' \subseteq Slots
           /\ same_interface' \subseteq Slots /\ boot_mask' \subseteq Slots
           /\ forward_match' \subseteq Slots
<1>1. CASE TrackerReset
  BY <1>1 DEF TrackerReset, TrackerStates
<1>2. ASSUME NEW consumed, NEW replayed, NEW P, P \subseteq Slots,
             TrackerCommon(trigger, consumed, forward_ok, latched, replayed, P)
      PROVE  /\ trigger_seen' \in BOOLEAN /\ trigger_prev' \in BOOLEAN
             /\ apply' \in BOOLEAN /\ boot_value' \in BOOLEAN
             /\ pending' \subseteq Slots /\ boot_mask' \subseteq Slots
             /\ forward_match' \subseteq Slots
  BY <1>2 DEF TrackerCommon, SnoopDecode, SnoopApply, TriggerEdge, Snooped,
              SlotsOf, TypeOK, Request
<1>3. CASE TrackerIdle(trigger, forward_ok, latched)
  <2>1. (IF trigger_seen THEN boot_mask ELSE pending) \subseteq Slots
    BY DEF TypeOK
  <2> QED BY <1>2, <1>3, <2>1 DEF TrackerIdle, TypeOK, TrackerStates
<1>4. CASE TrackerSelect(trigger, forward_ok, latched)
  BY <1>2, <1>4 DEF TrackerSelect, TypeOK, TrackerStates, Lowest
<1>5. CASE TrackerOffer(trigger, forward_ok, latched, resync_active)
  BY <1>2, <1>5 DEF TrackerOffer, TypeOK, TrackerStates, SlotsOf
<1>6. CASE TrackerWait(trigger, forward_ok, latched, resync_done, response_error)
  <2>1. (IF resync_done THEN pending \ same_interface ELSE pending) \subseteq Slots
    BY DEF TypeOK
  <2> QED BY <1>2, <1>6, <2>1 DEF TrackerWait, TypeOK, TrackerStates
<1> QED
  BY <1>1, <1>3, <1>4, <1>5, <1>6 DEF TrackerCycle

\* One cycle keeps the rest of the state in its types: the PC, the engine,
\* the enumerator and the history variables.
LEMMA EnvironmentType ==
    ASSUME TypeOK, NEW ev, NEW s \in Latched, NEW trigger \in BOOLEAN,
           Cycle(ev, s, trigger)
    PROVE  /\ rx_valid' \in BOOLEAN /\ ready' \in BOOLEAN
           /\ pc_sent' \in Nat /\ pc_next' \in Nat /\ lost_acks' \in Nat
           /\ detaches' \in Nat /\ resets' \in Nat
           /\ last_started' \in Nat /\ carried_out' \in Nat /\ reset_id' \in Nat
           /\ choice_id' \in [Interfaces -> Nat]
           /\ dev_boot' \subseteq Nat /\ doubt' \subseteq Nat /\ superseded' \subseteq Nat
           /\ ctl_busy' \in BOOLEAN /\ ctl_done' \in BOOLEAN /\ ctl_ok' \in BOOLEAN
<1>1. setup' \in Request /\ setup.length \in Nat /\ latched.id \in Nat /\ latched.iface \in Nat
  BY SetupOfCycle DEF Cycle, TypeOK, Request
<1>2. rx_valid' \in BOOLEAN /\ pc_sent' \in Nat /\ pc_next' \in Nat /\ lost_acks' \in Nat
  <2>0. PCStep(ev, s)
    BY DEF Cycle
  <2>1. CASE PCSetup(s)
    <3>1. pc_sent' = 0 /\ pc_next' = 0 /\ UNCHANGED <<rx_valid, lost_acks>>
      BY <2>1 DEF PCSetup
    <3> QED BY <3>1 DEF TypeOK
  <2>5. CASE PCQuiet
    BY <2>5 DEF PCQuiet, pcVars, TypeOK
  <2>2. CASE PCToken(ev)
    BY <1>1, <2>2 DEF PCToken, PCHalted, TypeOK
  <2>3. CASE PCByte
    BY <2>3 DEF PCByte, TypeOK
  <2>4. CASE PCEndOfPacket
    <3>1. rx_valid' = FALSE
      BY <2>4 DEF PCEndOfPacket
    <3>2. pc_sent' \in {pc_sent, pc_next, setup.length}
      BY <2>4 DEF PCEndOfPacket, PCHalted
    <3>3. pc_next' \in {pc_sent, pc_next, setup.length}
      BY <2>4 DEF PCEndOfPacket, PCHalted
    <3>4. lost_acks' \in {lost_acks, lost_acks + 1}
      BY <2>4 DEF PCEndOfPacket
    <3>5. pc_sent' \in Nat
      BY <1>1, <3>2 DEF TypeOK
    <3>6. pc_next' \in Nat
      BY <1>1, <3>3 DEF TypeOK
    <3>7. lost_acks' \in Nat
      BY <3>4 DEF TypeOK
    <3> QED BY <3>1, <3>5, <3>6, <3>7
  <2> QED BY <2>0, <2>1, <2>2, <2>3, <2>4, <2>5 DEF PCStep
<1>3. ready' \in BOOLEAN /\ detaches' \in Nat
  <2>1. ready' \in BOOLEAN
    BY Zenon DEF Cycle, ReadyCycle, TypeOK
  <2>2. detaches' \in Nat
    BY DEF Cycle, ReadyCycle, TypeOK
  <2> QED BY <2>1, <2>2
<1>4. ctl_busy' \in BOOLEAN /\ ctl_done' \in BOOLEAN /\ ctl_ok' \in BOOLEAN
  BY DEF Cycle, EngineCycle, TypeOK
<1>5. dev_boot' \subseteq Nat /\ doubt' \subseteq Nat
  BY <1>1 DEF Cycle, DeviceCycle, TypeOK
<1>6. /\ superseded' \subseteq Nat /\ last_started' \in Nat /\ carried_out' \in Nat
      /\ reset_id' \in Nat /\ resets' \in Nat
  <2>1. superseded' \subseteq Nat
    BY <1>1 DEF Cycle, HistoryCycle, TypeOK
  <2>2. last_started' \in Nat /\ carried_out' \in Nat /\ resets' \in Nat
    BY <1>1 DEF Cycle, HistoryCycle, TypeOK
  <2>3. setup'.id \in Nat
    BY <1>1 DEF Request
  <2>4. reset_id' \in Nat
    BY <2>3 DEF Cycle, HistoryCycle, TypeOK
  <2> QED BY <2>1, <2>2, <2>4
<1>7. choice_id' \in [Interfaces -> Nat]
  BY <1>1 DEF Cycle, HistoryCycle, TypeOK
<1> QED BY <1>2, <1>3, <1>4, <1>5, <1>6, <1>7

\* The registers of the handler, the relay and the tracker stay in their types
\* for every request set, buffer size and timeout.
THEOREM TypeCorrect == Spec => []TypeOK
<1>1. Init => TypeOK
  <2> SUFFICES ASSUME Init PROVE TypeOK
    OBVIOUS
  <2>1. NoSetup \in Request
    BY DEF NoSetup, Request
  <2>2. /\ hstate \in HandlerStates /\ rstate \in RelayStates /\ tstate \in TrackerStates
        /\ setup_pending \in BOOLEAN /\ packet_ok \in BOOLEAN
        /\ request_pending \in BOOLEAN /\ resync_active \in BOOLEAN
        /\ response_error \in BOOLEAN /\ forward_ok \in BOOLEAN /\ resync_done \in BOOLEAN
        /\ trigger_seen \in BOOLEAN /\ trigger_prev \in BOOLEAN
        /\ apply \in BOOLEAN /\ boot_value \in BOOLEAN
        /\ rx_valid \in BOOLEAN /\ ready \in BOOLEAN
        /\ ctl_busy \in BOOLEAN /\ ctl_done \in BOOLEAN /\ ctl_ok \in BOOLEAN
    BY DEF Init, HandlerInit, RelayInit, TrackerInit, HandlerStates, RelayStates,
           TrackerStates
  <2>3. /\ pending \subseteq Slots /\ current \subseteq Slots
        /\ same_interface \subseteq Slots /\ boot_mask \subseteq Slots
        /\ forward_match \subseteq Slots
    BY DEF Init, TrackerInit
  <2>4. /\ out_cursor \in Nat /\ pc_sent \in Nat /\ pc_next \in Nat /\ lost_acks \in Nat
        /\ defer_timer \in 0..(TimerModulus - 1)
        /\ detaches \in Nat /\ resets \in Nat
        /\ last_started \in Nat /\ carried_out \in Nat /\ reset_id \in Nat
    BY TimeoutAssumption DEF Init, HandlerInit
  <2>5. /\ choice_id \in [Interfaces -> Nat]
        /\ dev_boot \subseteq Nat /\ doubt \subseteq Nat /\ superseded \subseteq Nat
    BY DEF Init
  <2>6. setup \in Request /\ latched \in Request /\ buffer \in Seq(Nat \X Nat)
    BY <2>1 DEF Init, RelayInit
  <2> QED BY <2>2, <2>3, <2>4, <2>5, <2>6 DEF TypeOK
<1>2. TypeOK /\ [Next]_vars => TypeOK'
  <2> SUFFICES ASSUME TypeOK, [Next]_vars PROVE TypeOK'
    OBVIOUS
  <2>1. CASE Next
    <3>1. PICK ev \in Events, s \in Latched, trigger \in BOOLEAN : Cycle(ev, s, trigger)
      BY <2>1 DEF Next
    <3>2. s \in Request /\ setup' = s
      BY <3>1, SetupOfCycle DEF Cycle, TypeOK
    <3>3. HandlerCycle(ev, s) /\ RelayCycle(ev, s) /\ TrackerCycle(trigger)
      BY <3>1 DEF Cycle
    <3> QED BY <3>1, <3>2, <3>3, HandlerType, RelayType, TrackerType, EnvironmentType
            DEF TypeOK
  <2>2. CASE UNCHANGED vars
    BY <2>2 DEF vars, handlerVars, relayVars, trackerVars, pcVars, deviceVars,
                historyVars, TypeOK
  <2> QED BY <2>1, <2>2
<1> QED BY <1>1, <1>2, PTL DEF Spec

\* What the relay does in a cycle, as the handler sees it.
LEMMA RelayEffect ==
    ASSUME TypeOK, Coupled, NEW ev, NEW s \in Request, RelayCycle(ev, s)
    PROVE  /\ rstate' \in RelayStates
           /\ request_pending' <=> rstate' # "IDLE"
           /\ resync_active' => rstate' \in {"ISSUE", "AWAIT", "COMPLETE"}
           /\ request_ready(ready) /\ request_valid(ev, s, request_ready(ready)) =>
                 rstate' # "IDLE" /\ ~resync_active' /\ latched' = s
           /\ rstate = "IDLE" /\ rstate' # "IDLE" /\ ~resync_active' =>
                 /\ request_ready(ready) /\ request_valid(ev, s, request_ready(ready))
                 /\ latched' = s
           /\ rstate = "IDLE" /\ resync_active' => latched'.class /\ latched'.id = 0
           /\ rstate # "IDLE" => /\ latched' = latched
                                 /\ rstate' # "IDLE" => resync_active' = resync_active
           /\ rstate # "IDLE" /\ ~resync_active
                 /\ ~response_ack(ev, response_valid, response_error)
                 => rstate' # "IDLE"
           /\ response_valid /\ response_ack(ev, response_valid, response_error) =>
                 rstate' = "IDLE"
           /\ response_valid /\ ~response_ack(ev, response_valid, response_error) =>
                 rstate' = "COMPLETE" /\ response_error' = response_error
<1> DEFINE rv == request_valid(ev, s, request_ready(ready))
<1>1. CASE RelayIdle(ready, rv, s, resync_valid, CurrentInterface)
  BY <1>1 DEF RelayIdle, RelayAccept, ReplayRequest, request_ready, response_valid,
              Coupled, TypeOK, RelayStates
<1>2. CASE RelayCaptureOut(out_valid(ev, ev = "byte" /\ ~rx_valid),
                           Byte(setup.id, pc_next + 1), abort(ev))
  BY <1>2 DEF RelayCaptureOut, request_ready, response_valid, Coupled, TypeOK, RelayStates
<1>3. CASE RelayIssue(ready, ctl_busy)
  BY <1>3 DEF RelayIssue, request_ready, response_valid, Coupled, TypeOK, RelayStates
<1>4. CASE RelayAwait(ctl_done, ctl_ok)
  BY <1>4 DEF RelayAwait, request_ready, response_valid, Coupled, TypeOK, RelayStates
<1>5. CASE RelayComplete(response_ack(ev, response_valid, response_error))
  BY <1>5 DEF RelayComplete, request_ready, response_valid, Coupled, TypeOK, RelayStates
<1> QED
  BY <1>1, <1>2, <1>3, <1>4, <1>5 DEF RelayCycle

\* The inductive step of Coupled, by the handler's state: the relay gives up a
\* request only to the handler's acknowledgement, and takes only what it offers.
LEMMA CoupledStep ==
    ASSUME TypeOK, Coupled, NEW ev \in Events, NEW s \in Latched,
           NEW trigger \in BOOLEAN, Cycle(ev, s, trigger)
    PROVE  Coupled'
<1>1. /\ s \in Request /\ setup' = s
      /\ ev # "setup" => s = setup
      /\ ev = "setup" => s.id = setup.id + 1
  BY SetupOfCycle DEF Cycle, TypeOK
<1>2. s.id \in Nat /\ setup.id \in Nat /\ (ev = "setup" => s.id # 0)
  BY <1>1 DEF TypeOK, Request
<1> DEFINE rdy == request_ready(ready)
           ps == ev = "byte" /\ ~rx_valid
           rv == request_valid(ev, s, rdy)
           ack == response_ack(ev, response_valid, response_error)
<1>3. RelayCycle(ev, s) /\ HandlerCycle(ev, s)
  BY DEF Cycle
<1> USE DEF Coupled, TypeOK
<1>4. CASE HandlerIdle(ev, s, rdy)
  BY <1>1, <1>2, <1>3, <1>4, RelayEffect
     DEF HandlerIdle, Dispatch, request_ready, request_valid
<1>5. CASE HandlerCaptureOut(ev, s, ps)
  BY <1>1, <1>2, <1>3, <1>5, RelayEffect
     DEF HandlerCaptureOut, HandlerAbandon, response_ack
<1>6. CASE HandlerWaitRelay(ev, s, rdy)
  BY <1>1, <1>2, <1>3, <1>6, RelayEffect
     DEF HandlerWaitRelay, HandlerAbandon, request_ready, request_valid
<1>7. CASE HandlerAwaitingTarget(ev, s, response_valid, response_error)
  BY <1>1, <1>2, <1>3, <1>7, RelayEffect
     DEF HandlerAwaitingTarget, HandlerAbandon, response_ack, response_valid
<1>8. CASE HandlerRespond(ev, s)
  BY <1>1, <1>2, <1>3, <1>8, RelayEffect
     DEF HandlerRespond, HandlerAbandon, response_ack, response_valid
<1>9. CASE HandlerDrain(ev, s, response_valid, request_pending)
  BY <1>1, <1>2, <1>3, <1>9, RelayEffect
     DEF HandlerDrain, response_ack, response_valid, request_valid
<1>10. CASE HandlerDispatch(ev, s, rdy)
  BY <1>1, <1>2, <1>3, <1>10, RelayEffect
     DEF HandlerDispatch, HandlerAbandon, Dispatch, request_ready, request_valid
<1>11. CASE HandlerStall(ev, s)
  BY <1>1, <1>2, <1>3, <1>11, RelayEffect
     DEF HandlerStall, HandlerAbandon, request_valid
<1> QED
  BY <1>3, <1>4, <1>5, <1>6, <1>7, <1>8, <1>9, <1>10, <1>11 DEF HandlerCycle

\* Between SETUPs a request becomes un-offered no more.
LEMMA UnofferedStays ==
    ASSUME TypeOK, Ordered, NEW ev, NEW s, HandlerCycle(ev, s), ev # "setup", Unoffered'
    PROVE  Unoffered
BY DEF HandlerCycle, HandlerIdle, HandlerCaptureOut, HandlerWaitRelay,
   HandlerAwaitingTarget, HandlerRespond, HandlerDrain, HandlerDispatch, HandlerStall,
   HandlerAbandon, Dispatch, Ordered, Unoffered, TypeOK, HandlerStates

\* The inductive step of Ordered: the engine is started only on the request
\* the relay holds, and a request not yet offered is newer than that one.
LEMMA OrderedStep ==
    ASSUME TypeOK, Coupled, Ordered, NEW ev \in Events, NEW s \in Latched,
           NEW trigger \in BOOLEAN, Cycle(ev, s, trigger)
    PROVE  Ordered'
<1>1. /\ s \in Request /\ setup' = s
      /\ ev # "setup" => s = setup
      /\ ev = "setup" => s.id = setup.id + 1
  BY SetupOfCycle DEF Cycle, TypeOK
<1>2. /\ s.id \in Nat /\ setup.id \in Nat /\ latched.id \in Nat /\ last_started \in Nat
      /\ setup.id <= s.id
  BY <1>1 DEF TypeOK, Request
<1>3. RelayCycle(ev, s) /\ HandlerCycle(ev, s)
  BY DEF Cycle
<1>4. last_started' = IF rstate = "ISSUE" /\ ready /\ ~ctl_busy /\ ~resync_active
                      THEN latched.id ELSE last_started
  BY DEF Cycle, HistoryCycle, ctl_start
<1>5. last_started' \in Nat /\ last_started' <= setup.id
  BY <1>2, <1>4 DEF Ordered
<1>6. hstate' \in {"CAPTURE_OUT", "WAIT_RELAY", "AWAITING_TARGET", "RESPOND"} =>
          ~setup_pending'
  BY <1>3 DEF HandlerCycle, HandlerIdle, HandlerCaptureOut, HandlerWaitRelay,
     HandlerAwaitingTarget, HandlerRespond, HandlerDrain, HandlerDispatch, HandlerStall,
     HandlerAbandon, Dispatch, Ordered, TypeOK, HandlerStates
<1>7. Unoffered' /\ ev # "setup" => Unoffered
  BY <1>3, UnofferedStays
<1>8. Unoffered' => last_started' < s.id
  BY <1>1, <1>2, <1>4, <1>5, <1>7 DEF Ordered
<1>9. rstate' # "IDLE" /\ ~resync_active' =>
         \/ rstate # "IDLE" /\ ~resync_active /\ latched' = latched
         \/ /\ rstate = "IDLE" /\ latched' = s
            /\ request_ready(ready) /\ request_valid(ev, s, request_ready(ready))
  BY <1>1, <1>3, RelayEffect
<1>10. rstate' # "IDLE" /\ ~resync_active' => latched'.id <= s.id
  BY <1>1, <1>2, <1>9 DEF Ordered
\* What the handler offers has not been started.
<1>11. request_ready(ready) /\ request_valid(ev, s, request_ready(ready)) =>
          last_started < s.id /\ ~Unoffered'
  <2>1. CASE hstate = "IDLE" /\ ev = "setup" /\ s.class
    BY <1>1, <1>2, <1>3, <2>1 DEF HandlerCycle, HandlerIdle, Dispatch, HandlerCaptureOut,
       HandlerWaitRelay, HandlerAwaitingTarget, HandlerRespond, HandlerDrain,
       HandlerDispatch, HandlerStall, Unoffered, Ordered
  <2>2. CASE hstate = "DISPATCH" /\ ev # "setup" /\ s.class
    BY <1>1, <1>2, <1>3, <2>2 DEF HandlerCycle, HandlerIdle, Dispatch, HandlerCaptureOut,
       HandlerWaitRelay, HandlerAwaitingTarget, HandlerRespond, HandlerDrain,
       HandlerDispatch, HandlerStall, HandlerAbandon, Unoffered, Ordered
  <2>3. CASE hstate = "WAIT_RELAY" /\ ev # "setup"
    BY <1>1, <1>2, <1>3, <2>3 DEF HandlerCycle, HandlerIdle, Dispatch, HandlerCaptureOut,
       HandlerWaitRelay, HandlerAwaitingTarget, HandlerRespond, HandlerDrain,
       HandlerDispatch, HandlerStall, HandlerAbandon, Unoffered, Ordered
  <2> QED BY <2>1, <2>2, <2>3 DEF request_valid
<1>12. Unoffered' /\ rstate' # "IDLE" /\ ~resync_active' => latched'.id < s.id
  BY <1>1, <1>2, <1>7, <1>9, <1>11 DEF Ordered
<1>13. rstate' \in {"CAPTURE_OUT", "ISSUE"} /\ ~resync_active' => latched'.id > last_started'
  <2>1. CASE rstate = "IDLE"
    BY <1>2, <1>4, <1>9, <1>11, <2>1
  <2>2. CASE rstate # "IDLE"
    <3>1. ASSUME rstate' \in {"CAPTURE_OUT", "ISSUE"}, ~resync_active'
          PROVE  /\ rstate \in {"CAPTURE_OUT", "ISSUE"} /\ ~resync_active
                 /\ latched' = latched /\ last_started' = last_started
      <4>1. ~resync_active /\ latched' = latched
        BY <1>9, <2>2, <3>1
      <4>2. /\ rstate \in {"CAPTURE_OUT", "ISSUE"}
            /\ ~(rstate = "ISSUE" /\ ready /\ ~ctl_busy)
        BY <1>3, <2>2, <3>1
           DEF RelayCycle, RelayIdle, RelayCaptureOut, RelayIssue, RelayAwait, RelayComplete
      <4> QED BY <1>4, <4>1, <4>2
    <3> QED BY <3>1 DEF Ordered
  <2> QED BY <2>1, <2>2
<1> QED
  BY <1>1, <1>2, <1>5, <1>6, <1>8, <1>10, <1>12, <1>13 DEF Ordered

\* The handler and the relay agree on whose request is in flight, and requests
\* reach the engine in SETUP order.
THEOREM CoupledInvariant == Spec => [](Coupled /\ Ordered)
<1>1. Init => Coupled /\ Ordered
  BY DEF Init, HandlerInit, RelayInit, NoSetup, Coupled, Ordered, Unoffered
<1>2. TypeOK /\ Coupled /\ Ordered /\ [Next]_vars => (Coupled /\ Ordered)'
  <2> SUFFICES ASSUME TypeOK, Coupled, Ordered, [Next]_vars
               PROVE  (Coupled /\ Ordered)'
    OBVIOUS
  <2>1. CASE Next
    <3>1. PICK ev \in Events, s \in Latched, trigger \in BOOLEAN : Cycle(ev, s, trigger)
      BY <2>1 DEF Next
    <3> QED BY <3>1, CoupledStep, OrderedStep
  <2>2. CASE UNCHANGED vars
    BY <2>2 DEF vars, handlerVars, relayVars, pcVars, historyVars, Coupled, Ordered, Unoffered
  <2> QED BY <2>1, <2>2
<1> QED BY <1>1, <1>2, TypeCorrect, PTL DEF Spec

\* The PC is served the answer to its current request and no other.
THEOREM NoStaleAnswerTheorem == Spec => []NoStaleAnswer
<1>1. TypeOK /\ Coupled => NoStaleAnswer
  BY DEF TypeOK, Coupled, NoStaleAnswer
<1> QED BY <1>1, TypeCorrect, CoupledInvariant, PTL

\* Only class requests of the PC and replays are carried to the real device.
THEOREM OnlyClassForwardedTheorem == Spec => []OnlyClassForwarded
<1>1. TypeOK /\ Coupled => OnlyClassForwarded
  BY DEF TypeOK, Coupled, OnlyClassForwarded
<1> QED BY <1>1, TypeCorrect, CoupledInvariant, PTL

\* A PC request is forwarded at most once.
THEOREM ForwardedOnceTheorem == Spec => []ForwardedOnce
<1>1. Ordered => ForwardedOnce
  BY DEF Ordered, ForwardedOnce
<1> QED BY <1>1, CoupledInvariant, PTL

\* The relay's request is always one the handler will acknowledge.
THEOREM RelayNeverOrphanedTheorem == Spec => []RelayNeverOrphaned
<1>1. TypeOK /\ Coupled => RelayNeverOrphaned
  BY DEF TypeOK, Coupled, RelayNeverOrphaned
<1> QED BY <1>1, TypeCorrect, CoupledInvariant, PTL

\* The engine ends a transfer only while the relay waits for it, and reports the
\* end for one cycle.
LEMMA EngineEffect ==
    ASSUME TypeOK, OneInFlight, NEW ev, NEW s \in Request, RelayCycle(ev, s), EngineCycle
    PROVE  /\ rstate' = "AWAIT" <=> ctl_busy' \/ ctl_done'
           /\ ~(ctl_busy' /\ ctl_done')
           /\ EngineFinishes => rstate = "AWAIT" /\ rstate' = "AWAIT" /\ ctl_done'
           /\ ctl_done' => EngineFinishes
<1> USE DEF TypeOK, OneInFlight, EngineCycle, ctl_start, EngineFinishes, RelayStates
<1>1. CASE rstate = "IDLE"
  BY <1>1 DEF RelayCycle, RelayIdle, RelayAccept, RelayCaptureOut, RelayIssue, RelayAwait,
              RelayComplete
<1>2. CASE rstate = "CAPTURE_OUT"
  BY <1>2 DEF RelayCycle, RelayIdle, RelayCaptureOut, RelayIssue, RelayAwait, RelayComplete
<1>3. CASE rstate = "ISSUE"
  BY <1>3 DEF RelayCycle, RelayIdle, RelayCaptureOut, RelayIssue, RelayAwait, RelayComplete
<1>4. CASE rstate = "AWAIT"
  BY <1>4 DEF RelayCycle, RelayIdle, RelayCaptureOut, RelayIssue, RelayAwait, RelayComplete
<1>5. CASE rstate = "COMPLETE"
  BY <1>5 DEF RelayCycle, RelayIdle, RelayCaptureOut, RelayIssue, RelayAwait, RelayComplete
<1> QED BY <1>1, <1>2, <1>3, <1>4, <1>5

\* What the relay's pulses stand for in the next cycle.
LEMMA PulseEffect ==
    ASSUME TypeOK, Coupled, OneInFlight, NEW ev, NEW s \in Request, RelayCycle(ev, s)
    PROVE  /\ forward_ok' => /\ rstate = "AWAIT" /\ ctl_done /\ ctl_ok /\ ~resync_active
                             /\ rstate' = "COMPLETE" /\ ~resync_active' /\ latched' = latched
           /\ resync_done' => /\ rstate = "COMPLETE" /\ resync_active /\ rstate' = "IDLE"
                              /\ latched' = latched /\ response_error' = response_error
           /\ forward_ok => /\ rstate' \in {"COMPLETE", "IDLE"} /\ ~resync_active'
                            /\ ~forward_ok' /\ ~resync_done'
           /\ resync_active' => \/ resync_active /\ latched' = latched
                                \/ /\ rstate = "IDLE" /\ rstate' \in {"ISSUE", "COMPLETE"}
                                   /\ ready /\ resync_valid
                                   /\ latched' = ReplayRequest(CurrentInterface)
<1> USE DEF TypeOK, Coupled, OneInFlight, RelayStates
<1>1. CASE rstate = "IDLE"
  BY <1>1 DEF RelayCycle, RelayIdle, RelayAccept, RelayCaptureOut, RelayIssue, RelayAwait,
              RelayComplete, ReplayRequest
<1>2. CASE rstate = "CAPTURE_OUT"
  BY <1>2 DEF RelayCycle, RelayIdle, RelayCaptureOut, RelayIssue, RelayAwait, RelayComplete
<1>3. CASE rstate = "ISSUE"
  BY <1>3 DEF RelayCycle, RelayIdle, RelayCaptureOut, RelayIssue, RelayAwait, RelayComplete
<1>4. CASE rstate = "AWAIT"
  BY <1>4 DEF RelayCycle, RelayIdle, RelayCaptureOut, RelayIssue, RelayAwait, RelayComplete
<1>5. CASE rstate = "COMPLETE"
  BY <1>5 DEF RelayCycle, RelayIdle, RelayCaptureOut, RelayIssue, RelayAwait, RelayComplete
<1> QED BY <1>1, <1>2, <1>3, <1>4, <1>5

\* The snoop decodes a request in the cycle after its completion pulse.
LEMMA DecodeEffect ==
    ASSUME TypeOK, NEW trigger \in BOOLEAN, TrackerCycle(trigger)
    PROVE  /\ apply' = (ready /\ forward_ok /\ IsSetProtocol(latched))
           /\ ready => boot_value' = latched.boot /\ forward_match' = SlotsOf(latched.iface)
           /\ ~ready => tstate' = "IDLE" /\ pending' = {} /\ current' = {} /\ boot_mask' = {}
<1> USE DEF TypeOK, Request, IsSetProtocol
<1>1. CASE ~ready
  BY <1>1 DEF TrackerCycle, TrackerReset
<1>2. CASE ready
  BY <1>2 DEF TrackerCycle, TrackerIdle, TrackerSelect, TrackerOffer, TrackerWait,
              TrackerCommon, SnoopDecode
<1> QED BY <1>1, <1>2

\* The inductive step of OneInFlight.
LEMMA OneInFlightStep ==
    ASSUME TypeOK, Coupled, OneInFlight, NEW ev \in Events, NEW s \in Latched,
           NEW trigger \in BOOLEAN, Cycle(ev, s, trigger)
    PROVE  OneInFlight'
<1>1. s \in Request /\ RelayCycle(ev, s) /\ EngineCycle /\ TrackerCycle(trigger)
  BY SetupOfCycle DEF Cycle, TypeOK
<1>2. rstate' = "AWAIT" <=> ctl_busy' \/ ctl_done'
  BY <1>1, EngineEffect
<1>3. ~(ctl_busy' /\ ctl_done')
  BY <1>1, EngineEffect
<1>4. forward_ok' => rstate' = "COMPLETE" /\ ~resync_active'
  BY <1>1, PulseEffect
<1>5. resync_done' => rstate' = "IDLE"
  BY <1>1, PulseEffect
<1>6. apply' => /\ rstate' \in {"COMPLETE", "IDLE"}
                /\ ~resync_active' /\ ~forward_ok' /\ ~resync_done'
  BY <1>1, PulseEffect, DecodeEffect
<1>7. resync_active' \/ resync_done' => IsSetProtocol(latched)' /\ ~latched'.boot
  <2>1. IsSetProtocol(ReplayRequest(CurrentInterface)) /\ ~ReplayRequest(CurrentInterface).boot
    BY DEF IsSetProtocol, ReplayRequest
  <2>2. ASSUME latched' = ReplayRequest(CurrentInterface)
        PROVE  IsSetProtocol(latched)' /\ ~latched'.boot
    BY <2>1, <2>2 DEF IsSetProtocol
  <2>3. ASSUME latched' = latched, resync_active
        PROVE  IsSetProtocol(latched)' /\ ~latched'.boot
    BY <2>3 DEF OneInFlight, IsSetProtocol
  <2> QED BY <1>1, <2>2, <2>3, PulseEffect
<1> QED BY <1>2, <1>3, <1>4, <1>5, <1>6, <1>7 DEF OneInFlight

\* What the tracker's FSM does in a cycle of a ready device.
LEMMA TrackerEffect ==
    ASSUME TypeOK, ready, NEW trigger \in BOOLEAN, TrackerCycle(trigger)
    PROVE  /\ current' = current \/ (tstate = "SELECT" /\ current' = Lowest(pending))
           /\ tstate = "OFFER" => /\ current' = current
                                  /\ same_interface' = SlotsOf(CurrentInterface)
                                  /\ resync_active => tstate' = "WAIT"
                                  /\ resync_valid => tstate' \in {"OFFER", "WAIT"}
           /\ tstate = "WAIT" => /\ current' = current /\ same_interface' = same_interface
                                 /\ ~resync_done => tstate' = "WAIT"
           /\ tstate' = "WAIT" => \/ tstate = "WAIT" /\ ~resync_done
                                  \/ tstate = "OFFER" /\ resync_active
<1> USE DEF TypeOK, TrackerStates
<1>1. CASE tstate = "IDLE"
  BY <1>1 DEF TrackerCycle, TrackerIdle, TrackerSelect, TrackerOffer, TrackerWait, resync_valid
<1>2. CASE tstate = "SELECT"
  BY <1>2 DEF TrackerCycle, TrackerIdle, TrackerSelect, TrackerOffer, TrackerWait, resync_valid
<1>3. CASE tstate = "OFFER"
  BY <1>3 DEF TrackerCycle, TrackerIdle, TrackerSelect, TrackerOffer, TrackerWait, resync_valid
<1>4. CASE tstate = "WAIT"
  BY <1>4 DEF TrackerCycle, TrackerIdle, TrackerSelect, TrackerOffer, TrackerWait, resync_valid
<1> QED BY <1>1, <1>2, <1>3, <1>4

\* A device becomes ready only with no transfer in its engine.
LEMMA ReadyAgain ==
    ASSUME TypeOK, Coupled, OneInFlight, NEW ev, NEW s \in Request, ~ready, ready',
           RelayCycle(ev, s), EngineCycle, ReadyCycle
    PROVE  /\ resync_active' => rstate' \notin {"ISSUE", "AWAIT"}
           /\ ~ctl_done' /\ ~forward_ok'
<1>1. ~ctl_busy /\ ~ctl_done
  BY DEF ReadyCycle
<1>2. rstate # "AWAIT"
  BY <1>1 DEF OneInFlight
<1>3. ~forward_ok'
  BY <1>2, PulseEffect
<1>4. ~ctl_done'
  BY <1>1 DEF EngineCycle
<1>5. resync_active' => rstate' \notin {"ISSUE", "AWAIT"}
  BY <1>2 DEF Coupled, TypeOK, RelayStates, RelayCycle, RelayIdle, RelayAccept,
     RelayCaptureOut, RelayIssue, RelayAwait, RelayComplete
<1> QED BY <1>3, <1>4, <1>5

\* A replay completes when the engine reports its end.
LEMMA ReplayCompletes ==
    ASSUME TypeOK, Coupled, OneInFlight, NEW ev, NEW s \in Request, ready, resync_active',
           rstate' = "COMPLETE", RelayCycle(ev, s)
    PROVE  /\ rstate = "AWAIT" /\ resync_active /\ latched' = latched
           /\ ctl_done /\ response_error' = ~ctl_ok
<1>1. rstate # "IDLE"
  <2>1. ReplayRequest(CurrentInterface).length = 0 /\ ~ReplayRequest(CurrentInterface).in
    BY DEF ReplayRequest
  <2>2. RelayAccept(ReplayRequest(CurrentInterface), TRUE) => rstate' = "ISSUE"
    BY <2>1, BufferAssumption DEF RelayAccept
  <2>3. RelayAccept(s, FALSE) => ~resync_active'
    BY DEF RelayAccept
  <2> QED BY <2>2, <2>3 DEF Coupled, RelayCycle, RelayIdle, RelayCaptureOut, RelayIssue,
             RelayAwait, RelayComplete
<1>2. resync_active /\ latched' = latched
  BY <1>1, PulseEffect
<1>3. rstate = "AWAIT"
  BY <1>1, <1>2 DEF Coupled, TypeOK, RelayStates, RelayCycle, RelayIdle,
     RelayCaptureOut, RelayIssue, RelayAwait, RelayComplete
<1>4. ctl_done /\ response_error' = ~ctl_ok
  BY <1>3 DEF RelayCycle, RelayIdle, RelayCaptureOut, RelayIssue, RelayAwait, RelayComplete
<1> QED BY <1>2, <1>3, <1>4

\* The inductive step of ReplayTracked.
LEMMA ReplayTrackedStep ==
    ASSUME TypeOK, Coupled, OneInFlight, ReplayTracked, NEW ev \in Events,
           NEW s \in Latched, NEW trigger \in BOOLEAN, Cycle(ev, s, trigger)
    PROVE  ReplayTracked'
<1>1. /\ s \in Request /\ RelayCycle(ev, s) /\ EngineCycle /\ TrackerCycle(trigger)
      /\ ReadyCycle
  BY SetupOfCycle DEF Cycle, TypeOK
<1>2. \A j, k \in current' : j = k
  <2>1. CASE ~ready
    BY <1>1, <2>1, DecodeEffect
  <2>2. CASE ready /\ current' = current
    BY <2>2 DEF ReplayTracked
  <2>3. CASE ready /\ current' = Lowest(pending)
    <3>1. ASSUME NEW j \in current', NEW k \in current'
          PROVE  j = k
      <4>1. j \in Slots /\ k \in Slots /\ j <= k /\ k <= j
        BY <2>3 DEF Lowest, TypeOK
      <4> QED BY <4>1, SlotsAssumption
    <3> QED BY <3>1
  <2> QED BY <1>1, <2>1, <2>2, <2>3, TrackerEffect
<1>3. ASSUME current' = current
      PROVE  (CurrentInterface)' = CurrentInterface
  BY <1>3 DEF CurrentInterface
<1>4. ASSUME ready', resync_active', rstate' \in {"ISSUE", "AWAIT"}
      PROVE  /\ tstate' = "WAIT" \/ (tstate' = "OFFER" /\ rstate' = "ISSUE")
             /\ current' # {} /\ (CurrentInterface)' = latched'.iface
             /\ same_interface' = SlotsOf(latched'.iface)
  <2>1. ready
    BY <1>1, <1>4, ReadyAgain
  <2>2. CASE resync_active /\ latched' = latched
    <3>1. rstate \in {"ISSUE", "AWAIT"} /\ (rstate = "AWAIT" => rstate' = "AWAIT")
      BY <1>1, <1>4, <2>2 DEF Coupled, TypeOK, RelayStates, RelayCycle, RelayIdle,
         RelayAccept, RelayCaptureOut, RelayIssue, RelayAwait, RelayComplete
    <3>2. ~resync_done
      BY <3>1 DEF OneInFlight
    <3>3. /\ tstate = "WAIT" \/ tstate = "OFFER"
          /\ current # {} /\ CurrentInterface = latched.iface
          /\ same_interface = SlotsOf(latched.iface)
      BY <2>1, <2>2, <3>1 DEF ReplayTracked
    <3>4. tstate' = "WAIT" /\ current' = current /\ same_interface' = same_interface
      BY <1>1, <2>1, <2>2, <3>2, <3>3, TrackerEffect
    <3> QED BY <1>3, <2>2, <3>3, <3>4
  <2>3. CASE /\ rstate = "IDLE" /\ resync_valid
             /\ latched' = ReplayRequest(CurrentInterface)
    <3>1. ~resync_active /\ tstate = "OFFER" /\ current # {}
      BY <2>3 DEF Coupled, resync_valid, Offered
    <3>2. tstate' = "OFFER"
      BY <1>1, <2>1, <2>3, <3>1, TrackerEffect
    <3>3. current' = current /\ same_interface' = SlotsOf(CurrentInterface)
      BY <1>1, <2>1, <3>1, TrackerEffect
    <3>4. latched'.iface = CurrentInterface
      BY <2>3 DEF ReplayRequest
    <3>5. rstate' = "ISSUE"
      BY <1>1, <1>4, <2>3, PulseEffect, <3>1
    <3> QED BY <1>3, <3>1, <3>2, <3>3, <3>4, <3>5
  <2> QED BY <1>1, <1>4, <2>2, <2>3, PulseEffect
<1>5. ASSUME tstate' = "WAIT", Completes'
      PROVE  same_interface' = SlotsOf(latched'.iface)
  <2>1. ready
    BY <1>1, <1>5, DecodeEffect
  <2>2. resync_active /\ latched' = latched
    <3>1. CASE resync_done'
      BY <1>1, <3>1, PulseEffect
    <3>2. CASE resync_active' /\ rstate' = "COMPLETE"
      <4>1. ~(rstate = "IDLE" /\ ready /\ resync_valid)
        \* The tracker is still in OFFER in the cycle after.
        <5>1. ASSUME rstate = "IDLE", resync_valid
              PROVE  FALSE
          <6>1. ~resync_active /\ tstate = "OFFER"
            BY <5>1 DEF Coupled, resync_valid
          <6> QED BY <1>1, <1>5, <2>1, <5>1, <6>1, TrackerEffect
        <5> QED BY <5>1
      <4> QED BY <1>1, <3>2, <4>1, PulseEffect
    <3> QED BY <1>5, <3>1, <3>2 DEF Completes
  <2>3. rstate \in {"ISSUE", "AWAIT", "COMPLETE"} /\ ~resync_done
    BY <2>2 DEF Coupled, OneInFlight
  <2>4. CASE tstate = "WAIT"
    <3>1. same_interface = SlotsOf(latched.iface)
      BY <2>1, <2>2, <2>3, <2>4 DEF ReplayTracked, Completes
    <3>2. same_interface' = same_interface
      BY <1>1, <2>1, <2>4, TrackerEffect
    <3> QED BY <2>2, <3>1, <3>2
  <2>5. CASE tstate = "OFFER"
    <3>1. same_interface' = SlotsOf(CurrentInterface)
      BY <1>1, <2>1, <2>5, TrackerEffect
    <3>2. rstate \in {"ISSUE", "AWAIT"}
      BY <2>2, <2>3, <2>5 DEF ReplayTracked
    <3>3. CurrentInterface = latched.iface
      BY <2>1, <2>2, <3>2 DEF ReplayTracked
    <3> QED BY <2>2, <3>1, <3>3
  <2> QED BY <1>1, <1>5, <2>1, <2>4, <2>5, TrackerEffect
<1>6. resync_active' /\ rstate' = "COMPLETE" => tstate' # "OFFER"
  <2>1. CASE ~ready
    BY <1>1, <2>1, DecodeEffect
  <2>2. ASSUME ready, resync_active', rstate' = "COMPLETE"
        PROVE  tstate' # "OFFER"
    <3>1. rstate = "AWAIT" /\ resync_active
      BY <1>1, <2>2, ReplayCompletes
    <3>2. tstate = "WAIT" /\ ~resync_done
      BY <2>2, <3>1 DEF ReplayTracked, OneInFlight
    <3> QED BY <1>1, <2>2, <3>2, TrackerEffect
  <2> QED BY <2>1, <2>2
<1> QED
  BY <1>2, <1>4, <1>5, <1>6 DEF ReplayTracked, SlotsOf

\* A slot is pending after a cycle of a ready device if it was before, or if the
\* cycle loads the mask, and the snoop does not drop it.
LEMMA PendingEffect ==
    ASSUME TypeOK, ready, NEW trigger \in BOOLEAN, TrackerCycle(trigger), NEW k \in pending'
    PROVE  /\ k \in pending \/ (tstate = "IDLE" /\ trigger_seen)
           /\ ~(apply /\ k \in forward_match)
<1> USE DEF TypeOK, TrackerStates, TrackerCommon, Snooped
<1>1. CASE tstate = "IDLE"
  BY <1>1 DEF TrackerCycle, TrackerIdle, TrackerSelect, TrackerOffer, TrackerWait
<1>2. CASE tstate = "SELECT"
  BY <1>2 DEF TrackerCycle, TrackerIdle, TrackerSelect, TrackerOffer, TrackerWait
<1>3. CASE tstate = "OFFER"
  BY <1>3 DEF TrackerCycle, TrackerIdle, TrackerSelect, TrackerOffer, TrackerWait
<1>4. CASE tstate = "WAIT"
  BY <1>4 DEF TrackerCycle, TrackerIdle, TrackerSelect, TrackerOffer, TrackerWait
<1> QED BY <1>1, <1>2, <1>3, <1>4

\* The interfaces superseded after a cycle: those before it, and the one whose
\* SET_PROTOCOL the relay completes in it, which is what its pulse reports.
LEMMA SupersededEffect ==
    ASSUME TypeOK, NEW ev, NEW s \in Request, NEW trigger \in BOOLEAN,
           RelayCycle(ev, s), HistoryCycle(trigger), NEW i \in superseded'
    PROVE  /\ ready /\ ~(tstate = "IDLE" /\ trigger_seen)
           /\ \/ i \in superseded
              \/ /\ forward_ok' /\ latched' = latched /\ rstate = "AWAIT" /\ ~resync_active
                 /\ IsSetProtocol(latched) /\ latched.iface = i
<1>1. ready /\ ~(tstate = "IDLE" /\ trigger_seen)
  BY DEF HistoryCycle
<1>2. ASSUME i \notin superseded
      PROVE  /\ rstate = "AWAIT" /\ ctl_done /\ ctl_ok /\ ~resync_active
             /\ IsSetProtocol(latched) /\ latched.iface = i
  BY <1>1, <1>2 DEF HistoryCycle
<1>3. ASSUME rstate = "AWAIT", ctl_done, ctl_ok, ~resync_active
      PROVE  forward_ok' /\ latched' = latched
  BY <1>3 DEF RelayCycle, RelayIdle, RelayCaptureOut, RelayIssue, RelayAwait, RelayComplete
<1> QED BY <1>1, <1>2, <1>3

\* The inductive step of SupersededDropped: no offer is accepted while the snoop
\* still holds the PC's request, since the relay then completes or the decode
\* withdraws the offer.
LEMMA SupersededDroppedStep ==
    ASSUME TypeOK, Coupled, OneInFlight, ReplayTracked, SupersededDropped,
           NEW ev \in Events, NEW s \in Latched, NEW trigger \in BOOLEAN,
           Cycle(ev, s, trigger)
    PROVE  SupersededDropped'
<1>1. /\ s \in Request /\ RelayCycle(ev, s) /\ TrackerCycle(trigger) /\ HistoryCycle(trigger)
  BY SetupOfCycle DEF Cycle, TypeOK
<1>2. ASSUME NEW k \in pending', EpInterface[k] \in superseded'
      PROVE  SnoopHolds(k)'
  <2>1. ready /\ ~(tstate = "IDLE" /\ trigger_seen)
    BY <1>1, <1>2, SupersededEffect
  <2>2. k \in pending /\ ~(apply /\ k \in forward_match)
    BY <1>1, <2>1, PendingEffect
  <2>3. k \in Slots
    BY <2>2 DEF TypeOK
  <2>4. CASE EpInterface[k] \in superseded
    <3>1. forward_ok /\ SetsSlot(latched, k)
      BY <2>2, <2>4 DEF SupersededDropped, SnoopHolds
    <3>2. apply' /\ forward_match' = SlotsOf(latched.iface)
      BY <1>1, <2>1, <3>1, DecodeEffect DEF SetsSlot
    <3>3. k \in SlotsOf(latched.iface)
      BY <2>3, <3>1 DEF SlotsOf, SetsSlot
    <3> QED BY <3>2, <3>3 DEF SnoopHolds
  <2>5. CASE forward_ok' /\ latched' = latched /\ IsSetProtocol(latched)
             /\ latched.iface = EpInterface[k]
    BY <2>5 DEF SnoopHolds, SetsSlot, IsSetProtocol
  <2> QED BY <1>1, <1>2, <2>4, <2>5, SupersededEffect
<1>3. ASSUME resync_active', rstate' \in {"ISSUE", "AWAIT"}, latched'.iface \in superseded'
      PROVE  FALSE
  <2>1. CASE resync_active /\ latched' = latched
    <3>1. latched.iface \in superseded
      BY <1>1, <1>3, <2>1, SupersededEffect
    <3>2. rstate \in {"ISSUE", "AWAIT"}
      BY <1>1, <1>3, <2>1 DEF Coupled, TypeOK, RelayStates, RelayCycle, RelayIdle,
         RelayAccept, RelayCaptureOut, RelayIssue, RelayAwait, RelayComplete
    <3> QED BY <2>1, <3>1, <3>2 DEF SupersededDropped
  <2>2. CASE /\ rstate = "IDLE" /\ resync_valid
             /\ latched' = ReplayRequest(CurrentInterface)
    <3>1. latched'.iface = CurrentInterface
      BY <2>2 DEF ReplayRequest
    <3>2. PICK k \in pending : k \in current
      BY <2>2 DEF resync_valid, Offered
    <3>3. CurrentInterface = EpInterface[k]
      <4>1. (CHOOSE j \in current : TRUE) = k
        BY <3>2 DEF ReplayTracked
      <4> QED BY <4>1 DEF CurrentInterface
    <3>4. EpInterface[k] \in superseded
      BY <1>1, <1>3, <2>2, <3>1, <3>3, SupersededEffect
    <3>5. SnoopHolds(k)
      BY <3>2, <3>4 DEF SupersededDropped
    <3> QED BY <2>2, <3>5 DEF SnoopHolds, OneInFlight, resync_valid
  <2> QED BY <1>1, <1>3, <2>1, <2>2, PulseEffect
<1> QED BY <1>2, <1>3 DEF SupersededDropped

\* The mask after a cycle of a ready device: the snoop's choice, or the end of a
\* replay, or the mask before it.
LEMMA MaskEffect ==
    ASSUME TypeOK, ready, NEW trigger \in BOOLEAN, TrackerCycle(trigger), NEW k \in Slots
    PROVE  k \in boot_mask' <=>
              IF apply /\ k \in forward_match THEN boot_value
              ELSE /\ k \in boot_mask
                   /\ ~(tstate = "WAIT" /\ resync_done /\ ~response_error /\ k \in same_interface)
<1> USE DEF TypeOK, TrackerStates, TrackerCommon, SnoopApply, Snooped
<1>1. CASE tstate = "IDLE"
  BY <1>1 DEF TrackerCycle, TrackerIdle, TrackerSelect, TrackerOffer, TrackerWait
<1>2. CASE tstate = "SELECT"
  BY <1>2 DEF TrackerCycle, TrackerIdle, TrackerSelect, TrackerOffer, TrackerWait
<1>3. CASE tstate = "OFFER"
  BY <1>3 DEF TrackerCycle, TrackerIdle, TrackerSelect, TrackerOffer, TrackerWait
<1>4. CASE tstate = "WAIT"
  BY <1>4 DEF TrackerCycle, TrackerIdle, TrackerSelect, TrackerOffer, TrackerWait
<1> QED BY <1>1, <1>2, <1>3, <1>4

\* What the device does in a cycle, for an interface not left in doubt: it takes
\* the SET_PROTOCOL that the engine completes, or keeps its protocol.
LEMMA DeviceEffect ==
    ASSUME TypeOK, ready, DeviceCycle, NEW i \in Nat, i \notin doubt'
    PROVE  IF EngineFinishes /\ IsSetProtocol(latched) /\ latched.iface = i
           THEN ctl_ok' /\ (i \in dev_boot' <=> latched.boot)
           ELSE i \notin doubt /\ (i \in dev_boot' <=> i \in dev_boot)
<1>1. CASE EngineFinishes /\ IsSetProtocol(latched) /\ latched.iface = i
  <2>1. ctl_ok'
    BY <1>1 DEF DeviceCycle
  <2>2. dev_boot' = IF latched.boot THEN dev_boot \cup {i} ELSE dev_boot \ {i}
    BY <1>1, <2>1 DEF DeviceCycle
  <2> QED BY <1>1, <2>1, <2>2
<1>2. CASE EngineFinishes /\ IsSetProtocol(latched) /\ latched.iface # i
  BY <1>2 DEF DeviceCycle
<1>3. CASE ~(EngineFinishes /\ IsSetProtocol(latched))
  BY <1>3 DEF DeviceCycle
<1> QED BY <1>1, <1>2, <1>3

\* The stages a success goes through, for slot k: the engine's done, the relay's
\* pulse or completion, the snoop's decode or the replay's pulse.  A success
\* enters the first stage,
LEMMA SuccessBegins ==
    ASSUME TypeOK, Coupled, OneInFlight, ready, NEW ev \in Events,
           NEW s \in Latched, NEW trigger \in BOOLEAN, Cycle(ev, s, trigger),
           NEW k \in Slots, EngineFinishes, ctl_ok', SetsSlot(latched, k)
    PROVE  /\ ~Unapplied(k) /\ Unapplied(k)' /\ ToApply' = latched.boot
           /\ k \in boot_mask' <=> k \in boot_mask
<1>1. s \in Request /\ RelayCycle(ev, s) /\ EngineCycle /\ TrackerCycle(trigger)
  BY SetupOfCycle DEF Cycle, TypeOK
<1>2. rstate = "AWAIT" /\ ctl_done' /\ ~ctl_done
  BY <1>1, EngineEffect DEF EngineFinishes, OneInFlight
<1>3. ~forward_ok /\ ~apply /\ ~resync_done
  BY <1>2 DEF OneInFlight
<1>4. latched' = latched
  BY <1>1, <1>2, RelayEffect
<1>5. ~apply'
  BY <1>1, <1>3, DecodeEffect
<1>6. ~Unapplied(k)
  BY <1>2, <1>3 DEF Unapplied, SnoopHolds, Completes
<1>7. Unapplied(k)' /\ ToApply' = latched.boot
  BY <1>2, <1>4, <1>5 DEF Unapplied, SnoopHolds, ToApply, SetsSlot, IsSetProtocol
<1>8. k \in boot_mask' <=> k \in boot_mask
  BY <1>1, <1>3, MaskEffect
<1> QED BY <1>6, <1>7, <1>8

\* moves to the next stage with its choice, or is applied to the mask,
LEMMA SuccessMoves ==
    ASSUME TypeOK, Coupled, OneInFlight, ReplayTracked, ready, NEW ev \in Events,
           NEW s \in Latched, NEW trigger \in BOOLEAN, Cycle(ev, s, trigger),
           NEW k \in Slots, Unapplied(k)
    PROVE  /\ ~EngineFinishes
           /\ IF Unapplied(k)' THEN ToApply' = ToApply ELSE k \in boot_mask' <=> ToApply
<1>1. s \in Request /\ RelayCycle(ev, s) /\ EngineCycle /\ TrackerCycle(trigger)
  BY SetupOfCycle DEF Cycle, TypeOK
<1>2. CASE ctl_done /\ ctl_ok /\ SetsSlot(latched, k)
  <2>1. rstate = "AWAIT" /\ ~apply /\ ~forward_ok /\ ~resync_done /\ ~EngineFinishes
    BY <1>2 DEF OneInFlight, EngineFinishes
  <2>2. latched' = latched /\ rstate' = "COMPLETE" /\ ~response_error'
        /\ resync_active' = resync_active /\ (~resync_active => forward_ok')
    BY <1>1, <1>2, <2>1 DEF RelayCycle, RelayIdle, RelayCaptureOut, RelayIssue, RelayAwait,
                            RelayComplete, TypeOK
  <2>3. ~apply'
    BY <1>1, <2>1, DecodeEffect
  <2>4. ToApply' = ToApply
    BY <2>1, <2>2, <2>3 DEF ToApply
  <2>5. resync_active => tstate' = "WAIT"
    BY <1>1, <2>1, TrackerEffect DEF ReplayTracked
  <2>6. Unapplied(k)'
    BY <1>2, <2>2, <2>5 DEF Unapplied, SnoopHolds, Completes, SetsSlot, IsSetProtocol
  <2> QED BY <2>1, <2>4, <2>6
<1>3. CASE forward_ok /\ SetsSlot(latched, k)
  <2>1. ~apply /\ ~EngineFinishes
    BY <1>3 DEF OneInFlight, EngineFinishes
  <2>2. apply' /\ boot_value' = latched.boot /\ forward_match' = SlotsOf(latched.iface)
    BY <1>1, <1>3, DecodeEffect DEF SetsSlot
  <2>3. ToApply' = ToApply
    BY <2>1, <2>2 DEF ToApply
  <2>4. Unapplied(k)'
    BY <1>3, <2>2 DEF Unapplied, SnoopHolds, SetsSlot, SlotsOf
  <2> QED BY <2>1, <2>3, <2>4
<1>4. CASE apply /\ k \in forward_match
  <2>1. /\ rstate \in {"COMPLETE", "IDLE"} /\ ~resync_active /\ ~forward_ok
        /\ ~EngineFinishes
    BY <1>4 DEF OneInFlight, EngineFinishes
  <2>2. ~ctl_done' /\ ~forward_ok' /\ ~apply' /\ ~resync_done'
    BY <1>1, <2>1, EngineEffect, PulseEffect, DecodeEffect
  <2>3. ~(resync_active' /\ rstate' = "COMPLETE")
    BY <1>1, <2>1, ReplayCompletes
  <2>4. ~Unapplied(k)'
    BY <2>2, <2>3 DEF Unapplied, SnoopHolds, Completes
  <2>5. k \in boot_mask' <=> ToApply
    BY <1>1, <1>4, MaskEffect DEF ToApply
  <2> QED BY <2>1, <2>4, <2>5
<1>5. CASE /\ tstate = "WAIT" /\ ~response_error /\ SetsSlot(latched, k)
           /\ resync_active /\ rstate = "COMPLETE"
  <2>1. ~apply /\ ~forward_ok /\ ~resync_done /\ ~EngineFinishes
    BY <1>5 DEF OneInFlight, EngineFinishes
  <2>2. resync_done' /\ latched' = latched /\ response_error' = response_error
    BY <1>1, <1>5 DEF RelayCycle, RelayIdle, RelayCaptureOut, RelayIssue, RelayAwait,
                      RelayComplete, TypeOK
  <2>3. ~apply' /\ tstate' = "WAIT"
    BY <1>1, <1>5, <2>1, DecodeEffect, TrackerEffect
  <2>4. ToApply' = ToApply
    BY <2>1, <2>2, <2>3 DEF ToApply
  <2>5. Unapplied(k)'
    BY <1>5, <2>2, <2>3 DEF Unapplied, Completes, SetsSlot, IsSetProtocol
  <2> QED BY <2>1, <2>4, <2>5
<1>6. CASE tstate = "WAIT" /\ ~response_error /\ SetsSlot(latched, k) /\ resync_done
  <2>1. /\ rstate = "IDLE" /\ ~apply /\ ~forward_ok /\ ~EngineFinishes /\ ~latched.boot
    BY <1>6 DEF OneInFlight, EngineFinishes
  <2>2. ~ctl_done' /\ ~forward_ok' /\ ~apply' /\ ~resync_done'
    BY <1>1, <2>1, EngineEffect, PulseEffect, DecodeEffect
  <2>3. ~(resync_active' /\ rstate' = "COMPLETE")
    BY <1>1, <2>1, ReplayCompletes
  <2>4. ~Unapplied(k)'
    BY <2>2, <2>3 DEF Unapplied, SnoopHolds, Completes
  <2>5. k \in same_interface
    BY <1>6 DEF ReplayTracked, Completes, SetsSlot, SlotsOf
  <2>6. k \in boot_mask' <=> ToApply
    BY <1>1, <1>6, <2>1, <2>5, MaskEffect DEF ToApply
  <2> QED BY <2>1, <2>4, <2>6
<1> QED
  BY <1>2, <1>3, <1>4, <1>5, <1>6 DEF Unapplied, SnoopHolds, Completes

\* and there is no other way into a stage, nor to a change of the mask.
LEMMA NothingToApply ==
    ASSUME TypeOK, Coupled, OneInFlight, ReplayTracked, ready, NEW ev \in Events,
           NEW s \in Latched, NEW trigger \in BOOLEAN, Cycle(ev, s, trigger),
           NEW k \in Slots, ~Unapplied(k), ~(EngineFinishes /\ SetsSlot(latched, k))
    PROVE  ~Unapplied(k)' /\ (k \in boot_mask' <=> k \in boot_mask)
<1>1. s \in Request /\ RelayCycle(ev, s) /\ EngineCycle /\ TrackerCycle(trigger)
  BY SetupOfCycle DEF Cycle, TypeOK
<1>2. ~(SetsSlot(latched', k) /\ ctl_done' /\ ctl_ok')
  <2>1. ASSUME ctl_done' PROVE EngineFinishes /\ latched' = latched
    BY <1>1, <2>1, EngineEffect, RelayEffect
  <2> QED BY <2>1
<1>3. ~(forward_ok' /\ SetsSlot(latched', k))
  BY <1>1, PulseEffect DEF Unapplied
<1>4. ~(apply' /\ k \in forward_match')
  BY <1>1, DecodeEffect DEF Unapplied, SnoopHolds, SetsSlot, SlotsOf
<1>5. ~(SetsSlot(latched', k) /\ tstate' = "WAIT" /\ ~response_error' /\ Completes')
  <2>1. ASSUME resync_done', tstate' = "WAIT"
        PROVE  /\ resync_active /\ rstate = "COMPLETE" /\ tstate = "WAIT"
               /\ latched' = latched /\ response_error' = response_error
    <3>1. resync_active /\ rstate = "COMPLETE" /\ latched' = latched
          /\ response_error' = response_error
      BY <1>1, <2>1, PulseEffect
    <3>2. tstate = "WAIT"
      BY <1>1, <2>1, <3>1, TrackerEffect DEF ReplayTracked
    <3> QED BY <3>1, <3>2
  <2>2. ASSUME resync_active', rstate' = "COMPLETE"
        PROVE  ctl_done /\ response_error' = ~ctl_ok /\ latched' = latched
    BY <1>1, <2>2, ReplayCompletes
  <2> QED BY <2>1, <2>2 DEF Unapplied, Completes, TypeOK
<1>6. ~Unapplied(k)'
  BY <1>2, <1>3, <1>4, <1>5 DEF Unapplied, SnoopHolds
<1>7. ~(apply /\ k \in forward_match)
  BY DEF Unapplied, SnoopHolds
<1>8. ~(tstate = "WAIT" /\ resync_done /\ ~response_error /\ k \in same_interface)
  BY DEF Unapplied, Completes, ReplayTracked, OneInFlight, SetsSlot, SlotsOf
<1>9. k \in boot_mask' <=> k \in boot_mask
  BY <1>1, <1>7, <1>8, MaskEffect
<1> QED BY <1>6, <1>9

\* The inductive step of MaskFollowsDevice.
LEMMA MaskFollowsDeviceStep ==
    ASSUME TypeOK, Coupled, OneInFlight, ReplayTracked, MaskFollowsDevice,
           NEW ev \in Events, NEW s \in Latched, NEW trigger \in BOOLEAN,
           Cycle(ev, s, trigger)
    PROVE  MaskFollowsDevice'
<1>1. /\ s \in Request /\ RelayCycle(ev, s) /\ TrackerCycle(trigger) /\ EngineCycle
      /\ ReadyCycle /\ DeviceCycle
  BY SetupOfCycle DEF Cycle, TypeOK
<1>2. SUFFICES ASSUME ready', NEW k \in Slots, EpInterface[k] \notin doubt'
               PROVE  EpInterface[k] \in dev_boot' <=>
                          IF Unapplied(k)' THEN ToApply' ELSE k \in boot_mask'
  BY DEF MaskFollowsDevice
<1>3. EpInterface[k] \in Nat
  BY ForwardAssumption
<1>4. CASE ~ready
  <2>1. dev_boot' = {}
    BY <1>1, <1>4 DEF DeviceCycle
  <2>2. boot_mask' = {} /\ ~apply' /\ tstate' = "IDLE"
    BY <1>1, <1>4, DecodeEffect
  <2>3. ~ctl_done' /\ ~forward_ok'
    BY <1>1, <1>2, <1>4, ReadyAgain
  <2>4. ~Unapplied(k)'
    BY <2>2, <2>3 DEF Unapplied, SnoopHolds
  <2> QED BY <2>1, <2>2, <2>4
<1>5. CASE ready /\ EngineFinishes /\ SetsSlot(latched, k)
  <2>1. ctl_ok' /\ (EpInterface[k] \in dev_boot' <=> latched.boot)
    BY <1>1, <1>2, <1>3, <1>5, DeviceEffect DEF SetsSlot
  <2>2. Unapplied(k)' /\ ToApply' = latched.boot
    BY <1>5, <2>1, SuccessBegins
  <2> QED BY <2>1, <2>2
<1>6. CASE ready /\ ~(EngineFinishes /\ SetsSlot(latched, k))
  <2>1. EpInterface[k] \notin doubt
        /\ (EpInterface[k] \in dev_boot' <=> EpInterface[k] \in dev_boot)
    BY <1>1, <1>2, <1>3, <1>6, DeviceEffect DEF SetsSlot
  <2>2. EpInterface[k] \in dev_boot <=> IF Unapplied(k) THEN ToApply ELSE k \in boot_mask
    BY <1>6, <2>1 DEF MaskFollowsDevice
  <2>3. CASE Unapplied(k)
    <3>1. IF Unapplied(k)' THEN ToApply' = ToApply ELSE k \in boot_mask' <=> ToApply
      BY <1>6, <2>3, SuccessMoves
    <3> QED BY <2>1, <2>2, <2>3, <3>1
  <2>4. CASE ~Unapplied(k)
    <3>1. ~Unapplied(k)' /\ (k \in boot_mask' <=> k \in boot_mask)
      BY <1>6, <2>4, NothingToApply
    <3> QED BY <2>1, <2>2, <2>4, <3>1
  <2> QED BY <2>3, <2>4
<1> QED BY <1>4, <1>5, <1>6

\* Replays, the PC's choices and the mask, together: the invariant that
\* SupersededReplayNeverIssued and MaskTracksDevice rest on.
THEOREM ReplayInvariant ==
    Spec => [](OneInFlight /\ ReplayTracked /\ SupersededDropped /\ MaskFollowsDevice)
<1> DEFINE Inv == OneInFlight /\ ReplayTracked /\ SupersededDropped /\ MaskFollowsDevice
<1>1. Init => Inv
  BY DEF Init, HandlerInit, RelayInit, TrackerInit, NoSetup, OneInFlight, ReplayTracked,
         SupersededDropped, MaskFollowsDevice, Completes
<1>2. TypeOK /\ Coupled /\ Inv /\ [Next]_vars => Inv'
  <2> SUFFICES ASSUME TypeOK, Coupled, Inv, [Next]_vars
               PROVE  Inv'
    OBVIOUS
  <2>1. CASE Next
    <3>1. PICK ev \in Events, s \in Latched, trigger \in BOOLEAN : Cycle(ev, s, trigger)
      BY <2>1 DEF Next
    <3> QED BY <3>1, OneInFlightStep, ReplayTrackedStep, SupersededDroppedStep,
               MaskFollowsDeviceStep
  <2>2. CASE UNCHANGED vars
    <3>1. /\ UNCHANGED <<hstate, rstate, latched, resync_active, response_error>>
          /\ UNCHANGED <<forward_ok, resync_done, tstate, pending, current, same_interface>>
          /\ UNCHANGED <<boot_mask, apply, boot_value, forward_match, ready, ctl_busy>>
          /\ UNCHANGED <<ctl_done, ctl_ok, dev_boot, doubt, superseded>>
      BY <2>2 DEF vars, handlerVars, relayVars, trackerVars, deviceVars, historyVars
    <3>2. OneInFlight' /\ ReplayTracked' /\ SupersededDropped'
      BY <3>1 DEF OneInFlight, ReplayTracked, SupersededDropped, Completes, SnoopHolds,
                  CurrentInterface, SlotsOf, SetsSlot, IsSetProtocol
    <3>3. MaskFollowsDevice'
      BY <3>1 DEF MaskFollowsDevice, Unapplied, SnoopHolds, Completes, ToApply, SetsSlot,
                  IsSetProtocol
    <3> QED BY <3>2, <3>3
  <2> QED BY <2>1, <2>2
<1> QED BY <1>1, <1>2, TypeCorrect, CoupledInvariant, PTL DEF Spec

\* The inductive step of Carried: the relay completes without an error only behind
\* the engine's success, which the device had on the request still latched.
LEMMA CarriedStep ==
    ASSUME TypeOK, Coupled, OneInFlight, Carried, NEW ev \in Events, NEW s \in Latched,
           NEW trigger \in BOOLEAN, Cycle(ev, s, trigger)
    PROVE  Carried'
<1>1. /\ s \in Request /\ RelayCycle(ev, s) /\ EngineCycle
      /\ carried_out' = IF EngineFinishes /\ ctl_ok' /\ ~resync_active
                         THEN latched.id ELSE carried_out
  BY SetupOfCycle DEF Cycle, HistoryCycle, TypeOK
<1>2. /\ EngineFinishes => rstate = "AWAIT" /\ rstate' = "AWAIT" /\ ctl_done'
      /\ ctl_done' => EngineFinishes
  BY <1>1, EngineEffect
<1>3. rstate # "IDLE" => latched' = latched
  BY <1>1, RelayEffect
<1>4. CASE rstate' = "AWAIT" /\ ctl_done' /\ ctl_ok' /\ ~resync_active'
  <2>1. EngineFinishes /\ rstate = "AWAIT"
    BY <1>2, <1>4
  <2>2. resync_active' = resync_active
    BY <1>1, <1>4, <2>1, RelayEffect
  <2> QED BY <1>1, <1>3, <1>4, <2>1, <2>2 DEF Carried
<1>5. CASE rstate' = "COMPLETE" /\ ~response_error' /\ ~resync_active'
  <2>1. \/ rstate = "AWAIT" /\ ctl_done /\ ctl_ok /\ ~resync_active
        \/ rstate = "COMPLETE" /\ ~response_error /\ ~resync_active
    BY <1>1, <1>5 DEF RelayCycle, RelayIdle, RelayAccept, RelayCaptureOut, RelayIssue,
       RelayAwait, RelayComplete, TypeOK, Request
  <2>2. ~EngineFinishes
    BY <1>2, <1>5
  <2> QED BY <1>1, <1>3, <1>5, <2>1, <2>2 DEF Carried
<1> QED BY <1>4, <1>5 DEF Carried

\* A success that the PC is told of is the real device's, on that very request.
THEOREM SuccessIsRealTheorem == Spec => []SuccessIsReal
<1>1. Init => Carried
  BY DEF Init, RelayInit, Carried
<1>2. TypeOK /\ Coupled /\ OneInFlight /\ Carried /\ [Next]_vars => Carried'
  <2> SUFFICES ASSUME TypeOK, Coupled, OneInFlight, Carried, [Next]_vars
               PROVE  Carried'
    OBVIOUS
  <2>1. CASE Next
    <3>1. PICK ev \in Events, s \in Latched, trigger \in BOOLEAN : Cycle(ev, s, trigger)
      BY <2>1 DEF Next
    <3> QED BY <3>1, CarriedStep
  <2>2. CASE UNCHANGED vars
    BY <2>2 DEF vars, relayVars, deviceVars, historyVars, Carried
  <2> QED BY <2>1, <2>2
<1>3. Coupled /\ Carried => SuccessIsReal
  BY DEF Coupled, Carried, SuccessIsReal
<1> QED BY <1>1, <1>2, <1>3, TypeCorrect, CoupledInvariant, ReplayInvariant, PTL DEF Spec

\* A replay that the PC's own SET_PROTOCOL superseded is never issued.
THEOREM SupersededReplayNeverIssuedTheorem == Spec => []SupersededReplayNeverIssued
<1>1. SupersededDropped => SupersededReplayNeverIssued
  BY DEF SupersededDropped, SupersededReplayNeverIssued
<1> QED BY <1>1, ReplayInvariant, PTL

\* With nothing in flight the mask is the device's protocol of every interface
\* that no failure left in doubt.
THEOREM MaskTracksDeviceTheorem == Spec => []MaskTracksDevice
<1>1. TypeOK /\ Coupled /\ MaskFollowsDevice => MaskTracksDevice
  BY DEF TypeOK, Coupled, MaskFollowsDevice, MaskTracksDevice, Unapplied, SnoopHolds, Completes
<1> QED BY <1>1, TypeCorrect, CoupledInvariant, ReplayInvariant, PTL

\* What the PC has sent, event by event, in a cycle in which no ACK is lost.
LEMMA PCEffect ==
    ASSUME TypeOK, NEW ev, NEW s, PCStep(ev, s)
    PROVE  /\ lost_acks' = 0 => lost_acks = 0
           /\ ev = "setup" => ~rx_valid /\ ~rx_valid' /\ pc_sent' = 0 /\ pc_next' = 0
           /\ ev = "byte" => rx_valid' /\ pc_sent' = pc_sent /\ pc_next' = pc_next + 1
           /\ ev \in {"in", "status"} => /\ ~rx_valid /\ ~rx_valid'
                                         /\ \/ pc_sent' = pc_sent /\ pc_next' = pc_next
                                            \/ Handshake(ev) = "STALL" /\ pc_sent' = pc_next'
           /\ ev = "eop" => /\ rx_valid /\ ~rx_valid'
                            /\ \/ Handshake(ev) = "ACK" /\ pc_sent' = pc_next /\ pc_next' = pc_next
                               \/ Handshake(ev) = "ACK" /\ pc_next' = pc_sent /\ pc_sent' = pc_sent
                                  /\ lost_acks' # 0
                               \/ Handshake(ev) = "STALL" /\ pc_sent' = pc_next'
                               \/ /\ Handshake(ev) \in {"NAK", "SILENCE"}
                                  /\ pc_sent' = pc_sent /\ pc_next' = pc_sent
           /\ ev \notin {"setup", "in", "status", "byte", "eop"} =>
                 rx_valid' = rx_valid /\ pc_sent' = pc_sent /\ pc_next' = pc_next
<1> USE DEF TypeOK, PCStep
<1>1. CASE ev = "setup"
  BY <1>1 DEF PCSetup
<1>2. CASE ev = "byte"
  BY <1>2 DEF PCByte
<1>3. CASE ev \in {"in", "status"}
  BY <1>3 DEF PCToken, PCHalted
<1>4. CASE ev = "eop"
  BY <1>4 DEF PCEndOfPacket, PCHalted
<1>5. CASE ev = "quiet"
  BY <1>5 DEF PCQuiet, pcVars
<1> QED BY <1>1, <1>2, <1>3, <1>4, <1>5

\* The handler answers no token and no packet but with a NAK while it holds a
\* SETUP that it has not offered, and acknowledges only the packets it captured.
LEMMA HandshakeGiven ==
    ASSUME TypeOK, NEW ev \in {"in", "status", "eop"}
    PROVE  /\ Unoffered => Handshake(ev) = "NAK"
           /\ hstate = "CAPTURE_OUT" =>
                 Handshake(ev) = IF ev = "eop" /\ packet_ok THEN "ACK" ELSE "NAK"
<1>1. CASE hstate \in {"WAIT_RELAY", "DISPATCH"}
  BY <1>1 DEF Handshake, Unoffered
<1>2. CASE hstate = "DRAIN_THEN_STALL"
  BY <1>2 DEF Handshake, Unoffered
<1>3. CASE hstate = "CAPTURE_OUT"
  BY <1>3 DEF Handshake, Unoffered
<1> QED BY <1>1, <1>2, <1>3 DEF Unoffered

\* The handler starts to capture with its counters cleared, in the cycle in which
\* it offers the request to the relay.
LEMMA CaptureBegins ==
    ASSUME TypeOK, Ordered, NEW ev, NEW s \in Request, HandlerCycle(ev, s),
           hstate = "WAIT_RELAY" => out_cursor = 0 /\ ~packet_ok
    PROVE  /\ hstate' = "WAIT_RELAY" => out_cursor' = 0 /\ ~packet_ok'
           /\ request_ready(ready) /\ request_valid(ev, s, request_ready(ready)) =>
                 /\ out_cursor' = 0 /\ ~packet_ok'
                 /\ ev # "setup" => Unoffered
                 /\ ~s.in /\ s.length # 0 => hstate' = "CAPTURE_OUT"
<1> USE DEF TypeOK, HandlerStates, request_valid, Unoffered
<1>1. CASE hstate = "IDLE"
  BY <1>1 DEF HandlerCycle, HandlerIdle, HandlerCaptureOut, HandlerWaitRelay,
     HandlerAwaitingTarget, HandlerRespond, HandlerDrain, HandlerDispatch, HandlerStall, Dispatch
<1>2. CASE hstate = "WAIT_RELAY"
  BY <1>2 DEF HandlerCycle, HandlerIdle, HandlerCaptureOut, HandlerWaitRelay, HandlerAbandon,
     HandlerAwaitingTarget, HandlerRespond, HandlerDrain, HandlerDispatch, HandlerStall
<1>3. CASE hstate = "DISPATCH"
  BY <1>3 DEF HandlerCycle, HandlerIdle, HandlerCaptureOut, HandlerWaitRelay, HandlerAbandon,
     HandlerAwaitingTarget, HandlerRespond, HandlerDrain, HandlerDispatch, HandlerStall, Dispatch
<1>4. CASE hstate \notin {"IDLE", "WAIT_RELAY", "DISPATCH"}
  BY <1>4 DEF HandlerCycle, HandlerIdle, HandlerCaptureOut, HandlerWaitRelay, HandlerAbandon,
     HandlerAwaitingTarget, HandlerRespond, HandlerDrain, HandlerDispatch, HandlerStall
<1> QED BY <1>1, <1>2, <1>3, <1>4

\* The relay's buffer in a cycle: emptied by a request it accepts, one byte longer
\* when the handler forwards one, and else kept.
LEMMA BufferEffect ==
    ASSUME TypeOK, Coupled, NEW ev, NEW s \in Request, RelayCycle(ev, s)
    PROVE  /\ rstate = "IDLE" /\ rstate' # "IDLE" =>
                 /\ buffer' = <<>>
                 /\ rstate' = "CAPTURE_OUT" => /\ ~latched'.in /\ latched'.length # 0
                                               /\ ~resync_active'
                 /\ rstate' \in {"ISSUE", "AWAIT"} => latched'.in \/ latched'.length = 0
           /\ rstate = "CAPTURE_OUT" =>
                 /\ latched' = latched
                 /\ buffer' = IF out_valid(ev, ev = "byte" /\ ~rx_valid)
                              THEN Append(buffer, Byte(setup.id, pc_next + 1)) ELSE buffer
                 /\ rstate' = IF abort(ev) THEN "COMPLETE"
                              ELSE IF Len(buffer') >= latched.length THEN "ISSUE"
                              ELSE "CAPTURE_OUT"
           /\ rstate \in {"ISSUE", "AWAIT", "COMPLETE"} =>
                 /\ latched' = latched /\ buffer' = buffer
                 /\ rstate' # "CAPTURE_OUT"
                 /\ rstate' \in {"ISSUE", "AWAIT"} => rstate \in {"ISSUE", "AWAIT"}
<1> USE DEF TypeOK, Coupled, RelayStates
<1>1. CASE rstate = "IDLE"
  BY <1>1 DEF RelayCycle, RelayIdle, RelayAccept, RelayCaptureOut, RelayIssue, RelayAwait,
              RelayComplete, ReplayRequest
<1>2. CASE rstate = "CAPTURE_OUT"
  BY <1>2 DEF RelayCycle, RelayIdle, RelayCaptureOut, RelayIssue, RelayAwait, RelayComplete
<1>3. CASE rstate = "ISSUE"
  BY <1>3 DEF RelayCycle, RelayIdle, RelayCaptureOut, RelayIssue, RelayAwait, RelayComplete
<1>4. CASE rstate = "AWAIT"
  BY <1>4 DEF RelayCycle, RelayIdle, RelayCaptureOut, RelayIssue, RelayAwait, RelayComplete
<1>5. CASE rstate = "COMPLETE"
  BY <1>5 DEF RelayCycle, RelayIdle, RelayCaptureOut, RelayIssue, RelayAwait, RelayComplete
<1> QED BY <1>1, <1>2, <1>3, <1>4, <1>5

\* The inductive step of Collecting, while the relay captures: the byte that is
\* forwarded is the next of the transfer, and the counters agree on it.
LEMMA CollectingStep ==
    ASSUME TypeOK, Coupled, Collected, NEW ev \in Events, NEW s \in Latched,
           NEW trigger \in BOOLEAN, Cycle(ev, s, trigger), lost_acks' = 0,
           rstate = "CAPTURE_OUT"
    PROVE  /\ out_valid(ev, ev = "byte" /\ ~rx_valid) => pc_next = Len(buffer)
           /\ Len(buffer') <= latched.length
           /\ rstate' = "CAPTURE_OUT" => Collecting'
<1> DEFINE starts == ev = "byte" /\ ~rx_valid
           forwards == out_valid(ev, starts)
<1>1. /\ s \in Request /\ setup' = s /\ (ev # "setup" => s = setup)
      /\ RelayCycle(ev, s) /\ HandlerCycle(ev, s) /\ PCStep(ev, s)
  BY SetupOfCycle DEF Cycle, TypeOK
<1>2. /\ hstate = "CAPTURE_OUT" /\ out_cursor = Len(buffer) /\ Len(buffer) < latched.length
      /\ IF packet_ok THEN rx_valid /\ pc_next = Len(buffer) ELSE pc_sent = Len(buffer)
      /\ ~rx_valid => pc_next = pc_sent
  BY DEF Collected, Collecting
<1>3. latched = setup /\ setup.length \in Nat /\ Len(buffer) \in Nat
  BY <1>2 DEF Coupled, TypeOK, Request
<1>4. HandlerCaptureOut(ev, s, starts)
  BY <1>1, <1>2 DEF HandlerCycle, HandlerIdle, HandlerWaitRelay, HandlerAwaitingTarget,
     HandlerRespond, HandlerDrain, HandlerDispatch, HandlerStall
<1>5. forwards <=> ev = "byte" /\ (packet_ok \/ ~rx_valid)
  BY <1>2 DEF out_valid
<1>6. forwards => pc_next = Len(buffer)
  BY <1>2, <1>5
<1>7. Len(buffer') = Len(buffer) + (IF forwards THEN 1 ELSE 0)
  <2>1. buffer' = IF forwards THEN Append(buffer, Byte(setup.id, pc_next + 1)) ELSE buffer
    BY <1>1, BufferEffect
  <2>2. Byte(setup.id, pc_next + 1) \in Nat \X Nat
    BY DEF TypeOK, Byte, Request
  <2> QED BY <2>1, <2>2 DEF TypeOK
<1>8. Len(buffer') <= latched.length
  BY <1>2, <1>3, <1>7
<1>9. ASSUME rstate' = "CAPTURE_OUT" PROVE Collecting'
  <2>1. /\ ~abort(ev) /\ Len(buffer') < latched.length /\ latched' = latched
    BY <1>1, <1>3, <1>8, <1>9, BufferEffect
  <2>2. ev # "setup" /\ defer_timer # TimeoutCycles
    BY <1>2, <2>1 DEF abort, Abandonable, HandlerStates
  <2>3. s = setup
    BY <1>1, <2>2
  <2>4. hstate' = "CAPTURE_OUT"
    BY <1>2, <1>3, <1>4, <2>2, <2>3 DEF HandlerCaptureOut, HandlerAbandon
  <2>5. out_cursor' = Len(buffer')
    BY <1>2, <1>4, <1>7 DEF HandlerCaptureOut
  <2>6. packet_ok' <=> (packet_ok \/ starts) /\ ev # "eop"
    BY <1>4 DEF HandlerCaptureOut
  <2>8. ev # "byte" => Len(buffer') = Len(buffer)
    BY <1>3, <1>5, <1>7
  <2>7. IF packet_ok' THEN rx_valid' /\ pc_next' = Len(buffer') ELSE pc_sent' = Len(buffer')
    <3>1. CASE ev = "byte"
      <4>1. rx_valid' /\ pc_sent' = pc_sent /\ pc_next' = pc_next + 1
        BY <1>1, <3>1, PCEffect
      <4>2. packet_ok' <=> forwards
        BY <1>5, <2>6, <3>1 DEF TypeOK
      <4>3. CASE forwards
        BY <1>6, <1>7, <4>1, <4>2, <4>3
      <4>4. CASE ~forwards
        <5>1. ~packet_ok /\ pc_sent = Len(buffer) /\ Len(buffer') = Len(buffer)
          BY <1>2, <1>3, <1>5, <1>7, <3>1, <4>4
        <5> QED BY <4>1, <4>2, <4>4, <5>1
      <4> QED BY <4>3, <4>4
    <3>2. CASE ev \in {"in", "status"}
      <4>1. Handshake(ev) = "NAK"
        BY <1>2, <3>2, HandshakeGiven
      <4>2. ~rx_valid /\ pc_sent' = pc_sent
        BY <1>1, <3>2, <4>1, PCEffect
      <4>3. ~packet_ok /\ ~packet_ok' /\ Len(buffer') = Len(buffer)
        BY <1>2, <2>6, <2>8, <3>2, <4>2
      <4> QED BY <1>2, <4>2, <4>3
    <3>3. CASE ev = "eop"
      <4>1. ~packet_ok' /\ Len(buffer') = Len(buffer)
        BY <2>6, <2>8, <3>3
      <4>2. CASE packet_ok
        <5>1. Handshake(ev) = "ACK"
          BY <1>2, <3>3, <4>2, HandshakeGiven
        <5>2. pc_sent' = pc_next
          BY <1>1, <3>3, <5>1, PCEffect
        <5> QED BY <1>2, <4>1, <4>2, <5>2
      <4>3. CASE ~packet_ok
        <5>1. Handshake(ev) = "NAK"
          BY <1>2, <3>3, <4>3, HandshakeGiven
        <5>2. pc_sent' = pc_sent
          BY <1>1, <3>3, <5>1, PCEffect
        <5> QED BY <1>2, <4>1, <4>3, <5>2
      <4> QED BY <4>2, <4>3
    <3>4. CASE ev = "quiet"
      <4>1. rx_valid' = rx_valid /\ pc_sent' = pc_sent /\ pc_next' = pc_next
        BY <1>1, <3>4, PCEffect
      <4>2. (packet_ok' <=> packet_ok) /\ Len(buffer') = Len(buffer)
        BY <2>6, <2>8, <3>4
      <4> QED BY <1>2, <4>1, <4>2
    <3> QED BY <2>2, <3>1, <3>2, <3>3, <3>4 DEF Events
  <2> QED BY <2>1, <2>4, <2>5, <2>7 DEF Collecting
<1> QED BY <1>6, <1>8, <1>9

\* The inductive step of Collected.
LEMMA CollectedStep ==
    ASSUME TypeOK, Coupled, Ordered, Collected, NEW ev \in Events, NEW s \in Latched,
           NEW trigger \in BOOLEAN, Cycle(ev, s, trigger), lost_acks' = 0
    PROVE  Collected'
<1>1. /\ s \in Request /\ RelayCycle(ev, s) /\ HandlerCycle(ev, s) /\ PCStep(ev, s)
  BY SetupOfCycle DEF Cycle, TypeOK
<1>2. ~rx_valid' => pc_next' = pc_sent'
  BY <1>1, PCEffect DEF Collected, Events
<1>3. NothingSent'
  <2>1. ASSUME Unoffered' PROVE pc_sent' = 0
    <3>1. CASE ev = "setup"
      BY <1>1, <3>1, PCEffect
    <3>2. CASE ev # "setup"
      <4>1. Unoffered /\ pc_sent = 0
        BY <1>1, <2>1, <3>2, UnofferedStays DEF Collected, NothingSent
      <4>2. ev \in {"in", "status", "eop"} => Handshake(ev) = "NAK"
        BY <4>1, HandshakeGiven
      <4>3. pc_sent' = pc_sent
        BY <1>1, <3>2, <4>2, PCEffect DEF Events
      <4> QED BY <4>1, <4>3
    <3> QED BY <3>1, <3>2
  <2> QED BY <2>1 DEF NothingSent
<1>4. hstate' = "WAIT_RELAY" => out_cursor' = 0 /\ ~packet_ok'
  BY <1>1, CaptureBegins DEF Collected
<1>5. rstate \in {"IDLE", "CAPTURE_OUT", "ISSUE", "AWAIT", "COMPLETE"}
  BY DEF TypeOK, RelayStates
<1>6. rstate' = "CAPTURE_OUT" => ~latched'.in
  BY <1>1, <1>5, BufferEffect DEF Collected
<1>7. ASSUME rstate' = "CAPTURE_OUT" PROVE Collecting'
  <2>1. CASE rstate = "CAPTURE_OUT"
    BY <1>7, <2>1, CollectingStep
  <2>2. CASE rstate = "IDLE"
    <3>1. /\ buffer' = <<>> /\ ~latched'.in /\ latched'.length # 0 /\ ~resync_active'
      BY <1>1, <1>7, <2>2, BufferEffect
    <3>2. /\ request_ready(ready) /\ request_valid(ev, s, request_ready(ready))
          /\ latched' = s
      BY <1>1, <1>7, <2>2, <3>1, RelayEffect
    <3>3. /\ out_cursor' = 0 /\ ~packet_ok' /\ hstate' = "CAPTURE_OUT"
          /\ ev # "setup" => Unoffered
      BY <1>1, <3>1, <3>2, CaptureBegins DEF Collected
    <3>4. pc_sent' = 0
      <4>1. CASE ev = "setup"
        BY <1>1, <4>1, PCEffect
      <4>2. CASE ev # "setup"
        <5>1. Unoffered /\ pc_sent = 0
          BY <3>3, <4>2 DEF Collected, NothingSent
        <5>2. ev \in {"in", "status", "eop"} => Handshake(ev) = "NAK"
          BY <5>1, HandshakeGiven
        <5>3. pc_sent' = pc_sent
          BY <1>1, <4>2, <5>2, PCEffect DEF Events
        <5> QED BY <5>1, <5>3
      <4> QED BY <4>1, <4>2
    <3>5. Len(buffer') = 0 /\ latched'.length \in Nat
      BY <1>1, <3>1, <3>2 DEF Request
    <3> QED BY <3>1, <3>3, <3>4, <3>5 DEF Collecting
  <2> QED BY <1>1, <1>5, <1>7, <2>1, <2>2, BufferEffect
<1>8. ASSUME rstate' \in {"ISSUE", "AWAIT"}, ~latched'.in
      PROVE  Len(buffer') = latched'.length
  <2>1. CASE rstate = "IDLE"
    <3>1. buffer' = <<>> /\ latched'.length = 0
      BY <1>1, <1>8, <2>1, BufferEffect
    <3> QED BY <3>1
  <2>2. CASE rstate = "CAPTURE_OUT"
    <3>1. Len(buffer') >= latched.length /\ latched' = latched
      BY <1>1, <1>8, <2>2, BufferEffect
    <3>2. Len(buffer') <= latched.length
      BY <2>2, CollectingStep
    <3>3. Len(buffer') \in Nat /\ latched.length \in Nat
      BY <1>1, RelayType DEF TypeOK, Request
    <3> QED BY <3>1, <3>2, <3>3
  <2>3. CASE rstate \in {"ISSUE", "AWAIT", "COMPLETE"}
    BY <1>1, <1>8, <2>3, BufferEffect DEF Collected
  <2> QED BY <1>5, <2>1, <2>2, <2>3
<1>9. ASSUME rstate' \in {"CAPTURE_OUT", "ISSUE", "AWAIT"}, NEW k \in 1..Len(buffer')
      PROVE  buffer'[k] = Byte(latched'.id, k)
  <2>1. CASE rstate = "IDLE"
    <3>1. buffer' = <<>>
      BY <1>1, <1>9, <2>1, BufferEffect
    <3> QED BY <1>9, <3>1
  <2>2. CASE rstate = "CAPTURE_OUT"
    <3>1. latched' = latched /\ latched = setup
      BY <1>1, <2>2, BufferEffect DEF Coupled, Collected, Collecting
    <3>2. \A j \in 1..Len(buffer) : buffer[j] = Byte(latched.id, j)
      BY <2>2 DEF Collected
    <3>3. CASE buffer' = buffer
      BY <1>9, <3>1, <3>2, <3>3
    <3>4. CASE /\ buffer' = Append(buffer, Byte(setup.id, pc_next + 1))
               /\ pc_next = Len(buffer)
      <4>1. Byte(setup.id, pc_next + 1) \in Nat \X Nat
        BY DEF TypeOK, Byte, Request
      <4>2. k \in 1..(Len(buffer) + 1)
            /\ buffer'[k] = IF k = Len(buffer) + 1 THEN Byte(setup.id, pc_next + 1)
                            ELSE buffer[k]
        BY <1>9, <3>4, <4>1 DEF TypeOK
      <4> QED BY <3>1, <3>2, <3>4, <4>2 DEF TypeOK
    <3> QED BY <1>1, <2>2, <3>3, <3>4, BufferEffect, CollectingStep
  <2>3. CASE rstate \in {"ISSUE", "AWAIT", "COMPLETE"}
    BY <1>1, <1>9, <2>3, BufferEffect DEF Collected
  <2> QED BY <1>5, <2>1, <2>2, <2>3
<1> QED
  BY <1>2, <1>3, <1>4, <1>6, <1>7, <1>8, <1>9 DEF Collected

\* While no acknowledgement was lost on the PC's bus, what the relay holds is what
\* the PC sent, in order and without a gap.
THEOREM CollectedInvariant == Spec => []CollectedUnlessLost
<1>1. Init => CollectedUnlessLost
  BY DEF Init, HandlerInit, RelayInit, CollectedUnlessLost, Collected, NothingSent, Unoffered
<1>2. TypeOK /\ Coupled /\ Ordered /\ CollectedUnlessLost /\ [Next]_vars => CollectedUnlessLost'
  <2> SUFFICES ASSUME TypeOK, Coupled, Ordered, CollectedUnlessLost, [Next]_vars, lost_acks' = 0
               PROVE  Collected'
    BY DEF CollectedUnlessLost
  <2>1. CASE Next
    <3>1. PICK ev \in Events, s \in Latched, trigger \in BOOLEAN : Cycle(ev, s, trigger)
      BY <2>1 DEF Next
    <3>2. Collected
      BY <3>1, PCEffect DEF Cycle, CollectedUnlessLost
    <3> QED BY <3>1, <3>2, CollectedStep
  <2>2. CASE UNCHANGED vars
    BY <2>2 DEF vars, handlerVars, relayVars, pcVars, CollectedUnlessLost, Collected,
                Collecting, NothingSent, Unoffered
  <2> QED BY <2>1, <2>2
<1> QED BY <1>1, <1>2, TypeCorrect, CoupledInvariant, PTL DEF Spec

\* The bytes the engine sends are the bytes the PC sent, as long as the PC sees
\* the acknowledgement of every packet (a packet that it sends again is captured
\* again: the handler does not look at the data toggle).
THEOREM BytesInBytesOutTheorem == Spec => [](lost_acks = 0 => BytesInBytesOut)
<1>1. TypeOK /\ CollectedUnlessLost => (lost_acks = 0 => BytesInBytesOut)
  <2> SUFFICES ASSUME TypeOK, Collected, rstate \in {"ISSUE", "AWAIT"}, ~latched.in
               PROVE  buffer = [k \in 1..latched.length |-> Byte(latched.id, k)]
    BY DEF CollectedUnlessLost, BytesInBytesOut
  <2>1. Len(buffer) = latched.length
    BY DEF Collected
  <2>2. \A k \in 1..Len(buffer) : buffer[k] = Byte(latched.id, k)
    BY DEF Collected
  <2>3. buffer = [k \in 1..Len(buffer) |-> buffer[k]]
    BY DEF TypeOK
  <2> QED BY <2>1, <2>2, <2>3
<1> QED BY <1>1, TypeCorrect, CollectedInvariant, PTL

=============================================================================
