--------------------------- MODULE ControlForward ---------------------------
(***************************************************************************)
(* The class-request path of the clone: the request handler on the PC's    *)
(* side, the relay, the boot-protocol tracker, the control engine of the   *)
(* real device, and the PC.  All run on one clock: a step is one cycle, in *)
(* which every component moves, reading the others' registers and the      *)
(* combinational signals derived from them (host.py and device.py wire     *)
(* them).                                                                  *)
(***************************************************************************)
EXTENDS HIDClassRequestHandler, ControlRelay, BootProtocolTracker

CONSTANTS
    Requests,            \* the SETUP packets the PC may send (id 0)
    MaxPacket,           \* EP0's packet size, for OUT data
    MaxSetups,           \* bound: SETUP packets of a behaviour
    MaxResets,           \* bound: session resets (PC bus reset, SET_CONFIGURATION)
    MaxDetaches,         \* bound: losses of the real device
    MaxLostAcks          \* bound: handshakes lost on the PC's bus

VARIABLES
    \* the PC and its bus
    setup,               \* the latched SETUP packet, LUNA's setup record
    rx_valid,            \* an OUT packet is in progress (rx_valid_prev)
    pc_sent,             \* OUT bytes of the transfer in packets the PC saw ACKed
    pc_next,             \* OUT bytes of the transfer sent so far
    lost_acks,
    \* the real device, its enumerator and its control engine
    ready,               \* enumerator.ready: relay.enable, tracker.ready
    detaches,
    ctl_busy, ctl_done, ctl_ok,
    \* history
    last_started,        \* id of the last PC request the engine was started on
    carried_out,         \* id of the last PC request the real device carried out
    dev_boot,            \* interfaces the real device has in boot protocol
    doubt,               \* interfaces whose last SET_PROTOCOL failed at the engine
    superseded,          \* interfaces the PC set since replays were last loaded
    reset_id,            \* id of the last SETUP before the last session reset
    choice_id,           \* per interface: id of the last SET_PROTOCOL completed
    resets

pcVars == <<setup, rx_valid, pc_sent, pc_next, lost_acks>>
deviceVars == <<ready, detaches, ctl_busy, ctl_done, ctl_ok>>
historyVars == <<last_started, carried_out, dev_boot, doubt, superseded, reset_id,
                 choice_id, resets>>
vars == <<handlerVars, relayVars, trackerVars, pcVars, deviceVars, historyVars>>

Request == [id : Nat, class : BOOLEAN, req : {"SET_PROTOCOL", "SET_IDLE", "OTHER"},
            iface : Nat, boot : BOOLEAN, in : BOOLEAN, length : Nat]

ASSUME ForwardAssumption ==
    /\ Requests \subseteq Request
    /\ EpInterface \in [Slots -> Nat]
    /\ MaxPacket \in Nat \ {0}
    /\ MaxSetups \in Nat /\ MaxResets \in Nat /\ MaxDetaches \in Nat
    /\ MaxLostAcks \in Nat

Interfaces == {r.iface : r \in Requests}

\* Before the first SETUP: a STANDARD request, already answered.
NoSetup == [id |-> 0, class |-> FALSE, req |-> "OTHER", iface |-> 0,
            boot |-> FALSE, in |-> TRUE, length |-> 0]

IsSetProtocol(r) == r.class /\ ~r.in /\ r.req = "SET_PROTOCOL"

\* Byte k of the data the PC sends in SETUP n's OUT data stage.
Byte(n, k) == <<n, k>>

Events == {"quiet", "setup", "in", "status", "byte", "eop"}

-----------------------------------------------------------------------------
Init ==
    /\ HandlerInit
    /\ RelayInit(NoSetup)
    /\ TrackerInit
    /\ setup = NoSetup
    /\ rx_valid = FALSE /\ pc_sent = 0 /\ pc_next = 0 /\ lost_acks = 0
    /\ ready = FALSE /\ detaches = 0
    /\ ctl_busy = FALSE /\ ctl_done = FALSE /\ ctl_ok = FALSE
    /\ last_started = 0 /\ carried_out = 0
    /\ dev_boot = {} /\ doubt = {} /\ superseded = {}
    /\ reset_id = 0 /\ choice_id = [i \in Interfaces |-> 0] /\ resets = 0

-----------------------------------------------------------------------------
\* The PC.  It may send a SETUP at any time between packets, abandoning the
\* transfer before it, and IN or status tokens; it sends the OUT data of a
\* class request packet by packet, and sends a packet again until it sees
\* the ACK.

PCSetup(s) ==
    /\ ~rx_valid
    /\ setup.id < MaxSetups
    /\ \E q \in Requests : s = [q EXCEPT !.id = setup.id + 1]
    /\ setup' = s
    /\ pc_sent' = 0 /\ pc_next' = 0
    /\ UNCHANGED <<rx_valid, lost_acks>>

\* A STALL ends the transfer: the PC sends no more of its data.
PCHalted == pc_sent' = setup.length /\ pc_next' = setup.length

PCToken(ev) ==
    /\ ~rx_valid
    /\ IF Handshake(ev) = "STALL" THEN PCHalted ELSE UNCHANGED <<pc_sent, pc_next>>
    /\ UNCHANGED <<setup, rx_valid, lost_acks>>

PCQuiet == UNCHANGED pcVars

PCByte ==
    /\ setup.class /\ ~setup.in
    /\ pc_next < setup.length
    /\ pc_next < pc_sent + MaxPacket
    /\ rx_valid' = TRUE
    /\ pc_next' = pc_next + 1
    /\ UNCHANGED <<setup, pc_sent, lost_acks>>

PCEndOfPacket ==
    /\ rx_valid
    /\ pc_next = setup.length \/ pc_next = pc_sent + MaxPacket
    /\ rx_valid' = FALSE
    /\ \/ /\ Handshake("eop") = "ACK"
          /\ pc_sent' = pc_next
          /\ UNCHANGED <<pc_next, lost_acks>>
       \/ /\ Handshake("eop") = "ACK"
          /\ lost_acks < MaxLostAcks
          /\ lost_acks' = lost_acks + 1
          /\ pc_next' = pc_sent
          /\ UNCHANGED pc_sent
       \/ /\ Handshake("eop") = "STALL"
          /\ PCHalted
          /\ UNCHANGED lost_acks
       \/ /\ Handshake("eop") \in {"NAK", "SILENCE"}
          /\ pc_next' = pc_sent
          /\ UNCHANGED <<pc_sent, lost_acks>>
    /\ UNCHANGED setup

PCStep(ev, s) ==
    \/ ev = "setup" /\ PCSetup(s)
    \/ ev \in {"in", "status"} /\ s = setup /\ PCToken(ev)
    \/ ev = "byte" /\ s = setup /\ PCByte
    \/ ev = "eop" /\ s = setup /\ PCEndOfPacket
    \/ ev = "quiet" /\ s = setup /\ PCQuiet

\* The SETUP packets setup.* may hold in this cycle.
Latched == {setup} \cup {[q EXCEPT !.id = setup.id + 1] : q \in Requests}

-----------------------------------------------------------------------------
\* The components, each with its inputs connected.

HandlerCycle(ev, s) ==
    LET packet_start == ev = "byte" /\ ~rx_valid
    IN  \/ HandlerIdle(ev, s, request_ready(ready))
        \/ HandlerCaptureOut(ev, s, packet_start)
        \/ HandlerWaitRelay(ev, s, request_ready(ready))
        \/ HandlerAwaitingTarget(ev, s, response_valid, response_error)
        \/ HandlerRespond(ev, s)
        \/ HandlerDrain(ev, s, response_valid, request_pending)
        \/ HandlerDispatch(ev, s, request_ready(ready))
        \/ HandlerStall(ev, s)

RelayCycle(ev, s) ==
    \/ RelayIdle(ready, request_valid(ev, s, request_ready(ready)), s,
                 resync_valid, CurrentInterface)
    \/ RelayCaptureOut(out_valid(ev, ev = "byte" /\ ~rx_valid),
                       Byte(setup.id, pc_next + 1), abort(ev))
    \/ RelayIssue(ready, ctl_busy)
    \/ RelayAwait(ctl_done, ctl_ok)
    \/ RelayComplete(response_ack(ev, response_valid, response_error))

TrackerCycle(trigger) ==
    \/ ~ready /\ TrackerReset
    \/ /\ ready
       /\ \/ TrackerIdle(trigger, forward_ok, latched)
          \/ TrackerSelect(trigger, forward_ok, latched)
          \/ TrackerOffer(trigger, forward_ok, latched, resync_active)
          \/ TrackerWait(trigger, forward_ok, latched, resync_done, response_error)

\* USBControlTransferEngine: busy from start until it finishes, which it
\* always does (NAKs time out); losing the device ends it at once.
EngineCycle ==
    \/ /\ ctl_start(ready, ctl_busy)
       /\ ctl_busy' = TRUE /\ ctl_done' = FALSE
       /\ UNCHANGED ctl_ok
    \/ /\ ~ctl_start(ready, ctl_busy) /\ ~ctl_busy
       /\ ctl_done' = FALSE
       /\ UNCHANGED <<ctl_busy, ctl_ok>>
    \/ /\ ctl_busy /\ ready
       /\ ctl_done' = FALSE
       /\ UNCHANGED <<ctl_busy, ctl_ok>>
    \/ /\ ctl_busy
       /\ ctl_busy' = FALSE /\ ctl_done' = TRUE
       /\ ctl_ok' \in {ok \in BOOLEAN : ok => ready}

\* The enumerator: ready falls when the device is lost, and rises after an
\* enumeration, long after the engine reported the loss.
ReadyCycle ==
    \/ UNCHANGED <<ready, detaches>>
    \/ /\ ready /\ detaches < MaxDetaches
       /\ ready' = FALSE /\ detaches' = detaches + 1
    \/ /\ ~ready /\ ~ctl_busy /\ ~ctl_done
       /\ ready' = TRUE
       /\ UNCHANGED detaches

-----------------------------------------------------------------------------
\* History.  The real device changes protocol as the engine finishes; when
\* the engine failed, the device may have taken the request or not.

EngineFinishes == ctl_busy /\ ~ctl_busy'

DeviceCycle ==
    LET i == latched.iface
        sets == EngineFinishes /\ IsSetProtocol(latched)
        taken == IF latched.boot THEN dev_boot \cup {i} ELSE dev_boot \ {i}
    IN  /\ dev_boot' \in IF ~ready THEN {{}}
                         ELSE IF ~sets THEN {dev_boot}
                         ELSE IF ctl_ok' THEN {taken}
                         ELSE {dev_boot, taken}
        /\ doubt' = IF ~ready THEN {}
                    ELSE IF ~sets THEN doubt
                    ELSE IF ctl_ok' THEN doubt \ {i} ELSE doubt \cup {i}

HistoryCycle(trigger) ==
    LET i == latched.iface
        chosen == /\ rstate = "AWAIT" /\ ctl_done /\ ctl_ok
                  /\ ~resync_active /\ IsSetProtocol(latched)
        edge == trigger /\ ~trigger_prev /\ ready
        load == ready /\ tstate = "IDLE" /\ trigger_seen
    IN  /\ last_started' = IF ctl_start(ready, ctl_busy) /\ ~resync_active
                           THEN latched.id ELSE last_started
        /\ carried_out' = IF EngineFinishes /\ ctl_ok' /\ ~resync_active
                          THEN latched.id ELSE carried_out
        /\ superseded' = IF ~ready \/ load THEN {}
                         ELSE IF chosen THEN superseded \cup {i} ELSE superseded
        /\ choice_id' = IF ~ready THEN [j \in Interfaces |-> 0]
                        ELSE IF chosen THEN [choice_id EXCEPT ![i] = latched.id]
                        ELSE choice_id
        /\ reset_id' = IF edge THEN setup'.id ELSE reset_id
        /\ resets' = IF trigger /\ ~trigger_prev THEN resets + 1 ELSE resets

-----------------------------------------------------------------------------
Cycle(ev, s, trigger) ==
    /\ PCStep(ev, s)
    /\ HandlerCycle(ev, s)
    /\ RelayCycle(ev, s)
    /\ TrackerCycle(trigger)
    /\ EngineCycle
    /\ ReadyCycle
    /\ DeviceCycle
    /\ HistoryCycle(trigger)

Next ==
    \E ev \in Events, s \in Latched, trigger \in BOOLEAN :
        /\ trigger => ready /\ (trigger_prev \/ resets < MaxResets)
        /\ Cycle(ev, s, trigger)

Spec == Init /\ [][Next]_vars

\* The clock never stops while there is a change to make: under [][Next]_vars
\* this is WF_vars(Next), in a form that does not have TLC evaluate Next again
\* for every step.
ClockRuns == []<>~ENABLED <<Next>>_vars \/ []<><<TRUE>>_vars

\* The control engine ends every transfer: each of its wait states ends in a NAK
\* timeout or in the loss of the device.
Fairness ==
    /\ ClockRuns
    /\ []<>~ctl_busy

FairSpec == Spec /\ Fairness

-----------------------------------------------------------------------------
TypeOK ==
    /\ hstate \in HandlerStates /\ rstate \in RelayStates /\ tstate \in TrackerStates
    /\ defer_timer \in 0..(TimerModulus - 1)
    /\ setup_pending \in BOOLEAN /\ packet_ok \in BOOLEAN /\ out_cursor \in Nat
    /\ request_pending \in BOOLEAN /\ resync_active \in BOOLEAN
    /\ response_error \in BOOLEAN /\ forward_ok \in BOOLEAN /\ resync_done \in BOOLEAN
    /\ trigger_seen \in BOOLEAN /\ trigger_prev \in BOOLEAN
    /\ apply \in BOOLEAN /\ boot_value \in BOOLEAN
    /\ pending \subseteq Slots /\ current \subseteq Slots
    /\ same_interface \subseteq Slots /\ boot_mask \subseteq Slots
    /\ forward_match \subseteq Slots
    /\ setup \in Request /\ latched \in Request
    /\ buffer \in Seq(Nat \X Nat)
    /\ rx_valid \in BOOLEAN /\ ready \in BOOLEAN
    /\ pc_sent \in Nat /\ pc_next \in Nat /\ lost_acks \in Nat
    /\ detaches \in Nat /\ resets \in Nat
    /\ last_started \in Nat /\ carried_out \in Nat /\ reset_id \in Nat
    /\ choice_id \in [Interfaces -> Nat]
    /\ dev_boot \subseteq Nat /\ doubt \subseteq Nat /\ superseded \subseteq Nat
    /\ ctl_busy \in BOOLEAN /\ ctl_done \in BOOLEAN /\ ctl_ok \in BOOLEAN

\* The answer the PC is served is the answer to its own, current request:
\* while the handler awaits or serves one, the relay holds that very SETUP
\* (abandon_on_new_setup and DRAIN_THEN_STALL: an abandoned transfer's answer
\* must not reach the next request).
NoStaleAnswer ==
    /\ hstate \in {"AWAITING_TARGET", "RESPOND"} =>
          request_pending /\ ~resync_active /\ latched = setup
    /\ hstate = "RESPOND" => rstate = "COMPLETE" /\ ~response_error

\* Nothing but a class request of the PC, or a replay, is ever carried to the
\* real device: a STANDARD request forwarded there (SET_ADDRESS) would make
\* it unreachable.
OnlyClassForwarded ==
    request_pending => latched.class /\ (latched.id = 0 <=> resync_active)

\* A PC request is forwarded to the real device at most once: what waits in
\* the relay to be issued is newer than everything issued before it.
ForwardedOnce ==
    rstate \in {"CAPTURE_OUT", "ISSUE"} /\ ~resync_active =>
        latched.id > last_started

\* The relay holds a PC request only while the handler will acknowledge it:
\* an orphaned request would leave request_pending set, and every later class
\* request STALLed, for good.
RelayNeverOrphaned ==
    request_pending /\ ~resync_active =>
        hstate \in {"CAPTURE_OUT", "AWAITING_TARGET", "RESPOND", "DRAIN_THEN_STALL"}

\* "Bytes in equal bytes out": what the engine sends in the OUT data stage is
\* what the PC sent for that request, complete and in order.
BytesInBytesOut ==
    rstate \in {"ISSUE", "AWAIT"} /\ ~resync_active /\ ~latched.in =>
        buffer = [k \in 1..latched.length |-> Byte(latched.id, k)]

\* A replay that a completed PC SET_PROTOCOL superseded while it was pending is
\* never issued: it would undo the PC's choice (the offer is withdrawn while
\* the snoop's decode is in flight).
SupersededReplayNeverIssued ==
    rstate = "ISSUE" /\ resync_active => latched.iface \notin superseded

\* The PC is told of success only if the real device carried out that very
\* request: whatever the relay was doing when the device was lost, or the transfer
\* failed there, the PC gets a STALL.
SuccessIsReal == hstate = "RESPOND" => carried_out = setup.id

\* With nothing of the snoop or a replay in flight, boot_mask marks exactly the
\* endpoints whose interface the device has in boot protocol, an interface
\* whose last SET_PROTOCOL failed excepted.
MaskTracksDevice ==
    (/\ ready /\ ~apply /\ ~forward_ok /\ ~resync_done
     /\ ~ctl_done /\ rstate \notin {"AWAIT"}
     /\ ~(rstate = "COMPLETE" /\ resync_active))
        => \A k \in Slots : EpInterface[k] \notin doubt =>
               (k \in boot_mask <=> EpInterface[k] \in dev_boot)

\* The control engine is always given back: while the relay owns it the
\* interrupt pollers are held off.
EngineReleased == engine_owned ~> ~engine_owned

\* The handler never holds the PC off for ever: every transfer it holds is
\* answered, STALLed or dropped.
HandlerSettles ==
    hstate \in {"CAPTURE_OUT", "WAIT_RELAY", "AWAITING_TARGET",
               "DRAIN_THEN_STALL", "DISPATCH"}
        ~> hstate \in {"IDLE", "RESPOND", "STALL"}

\* A session reset is acted on: the tracker returns to IDLE with no replay
\* pending, unless the PC leaves an answered transfer unfinished, which keeps
\* the relay busy until its next SETUP, or the device is lost.
ReplaySettles ==
    trigger_seen ~> (tstate = "IDLE" /\ ~trigger_seen) \/ hstate = "RESPOND" \/ ~ready

\* Neither the engine, nor the handler, nor a replay hangs.
Settles == EngineReleased /\ HandlerSettles /\ ReplaySettles

\* What makes NoStaleAnswer, OnlyClassForwarded, ForwardedOnce and
\* RelayNeverOrphaned inductive.  The handler and the relay agree on whose
\* request is in flight:
Coupled ==
    /\ request_pending <=> rstate # "IDLE"
    /\ resync_active => rstate \in {"ISSUE", "AWAIT", "COMPLETE"}
    /\ hstate \in {"CAPTURE_OUT", "AWAITING_TARGET", "RESPOND"} =>
          rstate # "IDLE" /\ ~resync_active /\ latched = setup
    /\ hstate = "RESPOND" => rstate = "COMPLETE" /\ ~response_error
    /\ rstate # "IDLE" /\ ~resync_active =>
          hstate \in {"CAPTURE_OUT", "AWAITING_TARGET", "RESPOND", "DRAIN_THEN_STALL"}
    /\ rstate # "IDLE" => latched.class /\ (latched.id = 0 <=> resync_active)
    /\ hstate = "WAIT_RELAY" => setup.class
    /\ setup.class => setup.id > 0

\* and a SETUP that waits to be offered is newer than all that was started.
Unoffered ==
    \/ hstate \in {"DISPATCH", "WAIT_RELAY"}
    \/ hstate = "DRAIN_THEN_STALL" /\ setup_pending

Ordered ==
    /\ hstate \in {"CAPTURE_OUT", "WAIT_RELAY", "AWAITING_TARGET", "RESPOND"} =>
          ~setup_pending
    /\ last_started <= setup.id
    /\ rstate # "IDLE" /\ ~resync_active => latched.id <= setup.id
    /\ Unoffered => /\ last_started < setup.id
                    /\ rstate # "IDLE" /\ ~resync_active => latched.id < setup.id
    /\ rstate \in {"CAPTURE_OUT", "ISSUE"} /\ ~resync_active =>
          latched.id > last_started

\* What makes SuccessIsReal inductive: a success on its way to the handler is the
\* one the device had last.
Carried ==
    (\/ rstate = "AWAIT" /\ ctl_done /\ ctl_ok
     \/ rstate = "COMPLETE" /\ ~response_error) /\ ~resync_active
        => carried_out = latched.id

\* What makes SupersededReplayNeverIssued and MaskTracksDevice inductive.  The
\* relay, the engine and the snoop pipeline carry one request at a time, and
\* what a completion pulse stands for is still latched:
OneInFlight ==
    /\ rstate = "AWAIT" <=> ctl_busy \/ ctl_done
    /\ ~(ctl_busy /\ ctl_done)
    /\ forward_ok => rstate = "COMPLETE" /\ ~resync_active
    /\ resync_done => rstate = "IDLE"
    /\ apply => /\ rstate \in {"COMPLETE", "IDLE"}
                /\ ~resync_active /\ ~forward_ok /\ ~resync_done
    /\ resync_active \/ resync_done => IsSetProtocol(latched) /\ ~latched.boot

\* (a replay completes in the cycle before its pulse)
Completes == resync_done \/ (resync_active /\ rstate = "COMPLETE")

\* the tracker waits for the replay that the relay carries, and will settle the
\* slots of that replay's interface;
ReplayTracked ==
    /\ \A j, k \in current : j = k
    /\ ready /\ resync_active /\ rstate \in {"ISSUE", "AWAIT"} =>
          /\ tstate = "WAIT" \/ (tstate = "OFFER" /\ rstate = "ISSUE")
          /\ current # {} /\ CurrentInterface = latched.iface
          /\ same_interface = SlotsOf(latched.iface)
    /\ resync_active /\ rstate = "COMPLETE" => tstate # "OFFER"
    /\ tstate = "WAIT" /\ Completes =>
          same_interface = SlotsOf(latched.iface)

\* a slot whose interface the PC has set is pending no more, once the snoop
\* pipeline has seen the PC's request;
SetsSlot(r, k) == IsSetProtocol(r) /\ r.iface = EpInterface[k]

SnoopHolds(k) ==
    \/ forward_ok /\ SetsSlot(latched, k)
    \/ apply /\ k \in forward_match

SupersededDropped ==
    /\ \A k \in pending : EpInterface[k] \in superseded => SnoopHolds(k)
    /\ resync_active /\ rstate \in {"ISSUE", "AWAIT"} => latched.iface \notin superseded

\* and a slot's bit differs from the device only between the device's success
\* and the cycle that applies it, and then the device has what will be applied.
Unapplied(k) ==
    \/ SnoopHolds(k)
    \/ /\ SetsSlot(latched, k)
       /\ \/ ctl_done /\ ctl_ok
          \/ /\ tstate = "WAIT" /\ ~response_error
             /\ Completes

ToApply == IF apply THEN boot_value ELSE latched.boot

MaskFollowsDevice ==
    ready => \A k \in Slots : EpInterface[k] \notin doubt =>
        (EpInterface[k] \in dev_boot <=> IF Unapplied(k) THEN ToApply ELSE k \in boot_mask)

\* What makes BytesInBytesOut inductive while no ACK was lost.  The PC resumes
\* at the byte the relay expects:
NothingSent == Unoffered => pc_sent = 0

Collecting ==
    /\ hstate = "CAPTURE_OUT"
    /\ out_cursor = Len(buffer) /\ Len(buffer) < latched.length
    /\ IF packet_ok THEN rx_valid /\ pc_next = Len(buffer) ELSE pc_sent = Len(buffer)

Collected ==
    /\ ~rx_valid => pc_next = pc_sent
    /\ NothingSent
    /\ hstate = "WAIT_RELAY" => out_cursor = 0 /\ ~packet_ok
    /\ rstate = "CAPTURE_OUT" => Collecting
    /\ rstate = "CAPTURE_OUT" => ~latched.in
    /\ rstate \in {"ISSUE", "AWAIT"} /\ ~latched.in => Len(buffer) = latched.length
    /\ rstate \in {"CAPTURE_OUT", "ISSUE", "AWAIT"} =>
          \A k \in 1..Len(buffer) : buffer[k] = Byte(latched.id, k)

CollectedUnlessLost == lost_acks = 0 => Collected

\* A replay never undoes a SET_PROTOCOL that the PC sent after the session
\* reset the replay answers.
ReplayRespectsChoice ==
    rstate = "ISSUE" /\ resync_active => choice_id[latched.iface] <= reset_id

=============================================================================
