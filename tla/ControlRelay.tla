---------------------------- MODULE ControlRelay ----------------------------
(***************************************************************************)
(* control_relay.py: the relay that carries one class request at a time    *)
(* from the clone's request handler to the control engine of the real      *)
(* device, and the boot-protocol replays as a second, lower-priority       *)
(* source.  One action per FSM state; each is one cycle of the usb clock.  *)
(* Signals driven by other components are parameters.                      *)
(*                                                                         *)
(* A request is a record: `id` tells SETUP packets apart (0: a replay),    *)
(* `class` the type field of bmRequestType, `req` its bRequest, `iface` its*)
(* wIndex, `boot` whether wValue is 0, `in` the direction and `length` its *)
(* wLength.                                                                *)
(***************************************************************************)
EXTENDS Naturals, Sequences

CONSTANTS BufferBytes    \* depth of the bounce buffer

ASSUME BufferAssumption == BufferBytes \in Nat \ {0}

VARIABLES
    rstate,              \* FSM state
    latched,             \* latched_type .. latched_length
    buffer,              \* OUT payload captured so far; its length is `cursor`
    request_pending,
    resync_active,       \* the request in flight is a replay
    response_error,
    forward_ok,          \* one-cycle pulse: the device completed a PC request
    resync_done          \* one-cycle pulse: a replay completed

relayVars == <<rstate, latched, buffer, request_pending, resync_active,
               response_error, forward_ok, resync_done>>

RelayStates == {"IDLE", "CAPTURE_OUT", "ISSUE", "AWAIT", "COMPLETE"}

\* SET_PROTOCOL(report) to interface i: the request a replay latches.
ReplayRequest(i) ==
    [id |-> 0, class |-> TRUE, req |-> "SET_PROTOCOL", iface |-> i,
     boot |-> FALSE, in |-> FALSE, length |-> 0]

-----------------------------------------------------------------------------
\* Combinational outputs.

request_ready(enable) == rstate = "IDLE" /\ enable
response_valid == rstate = "COMPLETE" /\ ~resync_active
engine_owned == rstate \in {"ISSUE", "AWAIT"}
ctl_start(enable, ctl_busy) == rstate = "ISSUE" /\ enable /\ ~ctl_busy

-----------------------------------------------------------------------------
RelayInit(r0) ==
    /\ rstate = "IDLE"
    /\ latched = r0
    /\ buffer = <<>>
    /\ request_pending = FALSE
    /\ resync_active = FALSE
    /\ response_error = FALSE
    /\ forward_ok = FALSE
    /\ resync_done = FALSE

\* IDLE takes the handler's request or else a replay, and decides its first
\* stage: too long for the buffer, nothing to collect, or an OUT payload.
RelayAccept(r, replay) ==
    /\ latched' = r
    /\ buffer' = <<>>
    /\ request_pending' = TRUE
    /\ resync_active' = replay
    /\ response_error' = (r.length > BufferBytes)
    /\ rstate' = IF r.length > BufferBytes THEN "COMPLETE"
                 ELSE IF r.in \/ r.length = 0 THEN "ISSUE"
                 ELSE "CAPTURE_OUT"
    /\ forward_ok' = FALSE
    /\ resync_done' = FALSE

RelayIdle(enable, request_valid, r, resync_valid, resync_index) ==
    /\ rstate = "IDLE"
    /\ \/ enable /\ request_valid /\ RelayAccept(r, FALSE)
       \/ /\ enable /\ ~request_valid /\ resync_valid
          /\ RelayAccept(ReplayRequest(resync_index), TRUE)
       \/ /\ ~(enable /\ (request_valid \/ resync_valid))
          /\ forward_ok' = FALSE
          /\ resync_done' = FALSE
          /\ UNCHANGED <<rstate, latched, buffer, request_pending,
                         resync_active, response_error>>

RelayCaptureOut(out_valid, out_data, abort) ==
    /\ rstate = "CAPTURE_OUT"
    /\ buffer' = IF out_valid THEN Append(buffer, out_data) ELSE buffer
    /\ rstate' = IF abort THEN "COMPLETE"
                 ELSE IF Len(buffer') >= latched.length THEN "ISSUE"
                 ELSE "CAPTURE_OUT"
    /\ response_error' = (response_error \/ abort)
    /\ forward_ok' = FALSE
    /\ resync_done' = FALSE
    /\ UNCHANGED <<latched, request_pending, resync_active>>

\* Mutant: a lost device is no error.
RelayIssueLossIsNoError(enable, ctl_busy) ==
    /\ rstate = "ISSUE"
    /\ rstate' = IF ~enable THEN "COMPLETE"
                 ELSE IF ~ctl_busy THEN "AWAIT"
                 ELSE "ISSUE"
    /\ forward_ok' = FALSE
    /\ resync_done' = FALSE
    /\ UNCHANGED <<latched, buffer, request_pending, resync_active, response_error>>

RelayIssue(enable, ctl_busy) ==
    /\ rstate = "ISSUE"
    /\ rstate' = IF ~enable THEN "COMPLETE"
                 ELSE IF ~ctl_busy THEN "AWAIT"
                 ELSE "ISSUE"
    /\ response_error' = (response_error \/ ~enable)
    /\ forward_ok' = FALSE
    /\ resync_done' = FALSE
    /\ UNCHANGED <<latched, buffer, request_pending, resync_active>>

\* No timeout: only the engine's done ends the wait.
RelayAwait(ctl_done, ctl_ok) ==
    /\ rstate = "AWAIT"
    /\ rstate' = IF ctl_done THEN "COMPLETE" ELSE "AWAIT"
    /\ response_error' = IF ctl_done THEN ~ctl_ok ELSE response_error
    /\ forward_ok' = (ctl_done /\ ctl_ok /\ ~resync_active)
    /\ resync_done' = FALSE
    /\ UNCHANGED <<latched, buffer, request_pending, resync_active>>

RelayComplete(response_ack) ==
    /\ rstate = "COMPLETE"
    /\ rstate' = IF resync_active \/ response_ack THEN "IDLE" ELSE "COMPLETE"
    /\ request_pending' = (request_pending /\ ~(resync_active \/ response_ack))
    /\ resync_active' = FALSE
    /\ resync_done' = resync_active
    /\ forward_ok' = FALSE
    /\ UNCHANGED <<latched, buffer, response_error>>

=============================================================================
