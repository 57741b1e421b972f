----------------------- MODULE HIDClassRequestHandler -----------------------
(***************************************************************************)
(* device_control.py, HIDClassRequestHandler with a relay: the clone's     *)
(* handler of HID class requests.  One action per FSM state, each one      *)
(* cycle of the usb clock.  `ev` is what the PC's bus does in the cycle:   *)
(*   "setup"   setup.received: `s` is the new SETUP packet                 *)
(*   "in"      data_requested       "status"  status_requested             *)
(*   "byte"    rx.valid & rx.next: a byte of an OUT packet                 *)
(*   "eop"     rx_ready_for_response: the end of an OUT packet             *)
(*   "quiet"   none of these                                               *)
(* The registers that cut a response into packets (pkt_base and the rest)  *)
(* are EP0DataStage's subject.                                             *)
(***************************************************************************)
EXTENDS Naturals

CONSTANTS
    TimeoutCycles,       \* timeout_cycles
    TimerModulus         \* 2^w, w the width of defer_timer: range(TimeoutCycles + 1)

ASSUME TimeoutAssumption ==
    /\ TimeoutCycles \in Nat \ {0}
    /\ TimerModulus \in Nat
    /\ TimerModulus > TimeoutCycles

\* The width is the least that holds TimeoutCycles.
ASSUME TimerWidthAssumption ==
    \E w \in 0..TimeoutCycles :
        TimerModulus = 2^w /\ 2^w <= 2 * TimeoutCycles

VARIABLES
    hstate,              \* FSM state
    defer_timer,
    setup_pending,       \* a class SETUP arrived while draining
    packet_ok,           \* the OUT packet in progress started while capturing
    out_cursor           \* OUT bytes forwarded

handlerVars == <<hstate, defer_timer, setup_pending, packet_ok, out_cursor>>

HandlerStates == {"IDLE", "CAPTURE_OUT", "WAIT_RELAY", "AWAITING_TARGET",
                  "RESPOND", "DRAIN_THEN_STALL", "DISPATCH", "STALL"}

\* The counter wraps.
Tick(t) == (t + 1) % TimerModulus

\* SET_IDLE and SET_PROTOCOL wait out a busy relay.
WaitsForRelay(s) == s.req \in {"SET_IDLE", "SET_PROTOCOL"}

\* The states abandon_on_new_setup() guards.
Abandonable == HandlerStates \ {"IDLE", "DRAIN_THEN_STALL"}

-----------------------------------------------------------------------------
\* Combinational outputs to the relay.

\* Mutant: DISPATCH trusts setup_pending, without looking at the type again.
request_valid_of_any_type(ev, s, ready) ==
    \/ hstate = "IDLE" /\ ev = "setup" /\ s.class /\ ready
    \/ hstate = "DISPATCH" /\ ev # "setup" /\ ready
    \/ hstate = "WAIT_RELAY" /\ ev # "setup"

\* Mutant: DISPATCH offers in the cycle of a new SETUP too.
request_valid_on_new_setup(ev, s, ready) ==
    \/ hstate = "IDLE" /\ ev = "setup" /\ s.class /\ ready
    \/ hstate = "DISPATCH" /\ s.class /\ ready
    \/ hstate = "WAIT_RELAY" /\ ev # "setup"

request_valid(ev, s, ready) ==
    \/ hstate = "IDLE" /\ ev = "setup" /\ s.class /\ ready
    \/ hstate = "DISPATCH" /\ ev # "setup" /\ s.class /\ ready
    \/ hstate = "WAIT_RELAY" /\ ev # "setup"

abort(ev) ==
    \/ hstate \in Abandonable /\ ev = "setup"
    \/ hstate = "CAPTURE_OUT" /\ defer_timer = TimeoutCycles

\* Mutant: bytes of a packet that was under way before the capture count.
out_valid_any_packet(ev, packet_start) ==
    hstate = "CAPTURE_OUT" /\ ev = "byte"

out_valid(ev, packet_start) ==
    hstate = "CAPTURE_OUT" /\ ev = "byte" /\ (packet_ok \/ packet_start)

response_ack(ev, valid, error) ==
    \/ hstate = "AWAITING_TARGET" /\ valid /\ error
    \/ hstate = "RESPOND" /\ ev = "status"
    \/ hstate = "DRAIN_THEN_STALL" /\ valid

\* The handshake the PC gets for a token or an OUT packet.
Handshake(ev) ==
    CASE ev \in {"in", "status", "eop"} ->
           (CASE hstate \in {"WAIT_RELAY", "DISPATCH"} -> "NAK"
              [] hstate = "STALL" -> "STALL"
              [] hstate = "CAPTURE_OUT" /\ ev = "eop" ->
                    IF packet_ok THEN "ACK" ELSE "NAK"
              [] hstate = "CAPTURE_OUT" /\ ev # "eop" -> "NAK"
              [] hstate = "DRAIN_THEN_STALL" ->
                    IF setup_pending THEN "NAK"
                    ELSE IF ev # "eop" THEN "STALL" ELSE "SILENCE"
              [] hstate = "IDLE" -> IF ev # "eop" THEN "STALL" ELSE "SILENCE"
              [] hstate = "AWAITING_TARGET" -> IF ev # "eop" THEN "NAK" ELSE "SILENCE"
              [] hstate = "RESPOND" -> IF ev # "eop" THEN "DATA" ELSE "SILENCE")
      [] OTHER -> "NONE"

-----------------------------------------------------------------------------
HandlerInit ==
    /\ hstate = "IDLE"
    /\ defer_timer = 0
    /\ setup_pending = FALSE
    /\ packet_ok = FALSE
    /\ out_cursor = 0

\* dispatch(): start the latched SETUP if the relay can take it, wait if it
\* is one of the two that may, and otherwise STALL it.
Dispatch(s, ready) ==
    /\ setup_pending' = FALSE
    /\ packet_ok' = FALSE
    /\ hstate' = IF ready THEN (IF s.in \/ s.length = 0
                                THEN "AWAITING_TARGET" ELSE "CAPTURE_OUT")
                 ELSE IF WaitsForRelay(s) THEN "WAIT_RELAY"
                 ELSE "STALL"

\* abandon_on_new_setup(): a SETUP supersedes the transfer, from any state
\* but IDLE and DRAIN_THEN_STALL.
HandlerAbandon(ev, s) ==
    /\ hstate \in Abandonable
    /\ ev = "setup"
    /\ hstate' = "DRAIN_THEN_STALL"
    /\ setup_pending' = s.class

HandlerIdle(ev, s, ready) ==
    /\ hstate = "IDLE"
    /\ defer_timer' = 0
    /\ out_cursor' = 0
    /\ IF ev = "setup" /\ s.class
       THEN Dispatch(s, ready)
       ELSE UNCHANGED <<hstate, setup_pending, packet_ok>>

HandlerCaptureOut(ev, s, packet_start) ==
    LET last == ev = "eop" /\ packet_ok /\ out_cursor >= s.length
    IN  /\ hstate = "CAPTURE_OUT"
        /\ out_cursor' = out_cursor + (IF out_valid(ev, packet_start) THEN 1 ELSE 0)
        /\ packet_ok' = ((packet_ok \/ packet_start) /\ ev # "eop")
        /\ defer_timer' = IF last THEN 0 ELSE Tick(defer_timer)
        /\ \/ HandlerAbandon(ev, s)
           \/ /\ ev # "setup"
              /\ hstate' = IF defer_timer = TimeoutCycles THEN "DRAIN_THEN_STALL"
                           ELSE IF last THEN "AWAITING_TARGET"
                           ELSE "CAPTURE_OUT"
              /\ UNCHANGED setup_pending

HandlerWaitRelay(ev, s, ready) ==
    /\ hstate = "WAIT_RELAY"
    /\ defer_timer' = Tick(defer_timer)
    /\ \/ HandlerAbandon(ev, s)
       \/ /\ ev # "setup"
          /\ hstate' = IF ready THEN (IF s.in \/ s.length = 0
                                      THEN "AWAITING_TARGET" ELSE "CAPTURE_OUT")
                       ELSE IF defer_timer = TimeoutCycles THEN "STALL"
                       ELSE "WAIT_RELAY"
          /\ UNCHANGED setup_pending
    /\ UNCHANGED <<packet_ok, out_cursor>>

\* Mutant: a new SETUP is not noticed while the target answers.
HandlerAwaitingTargetDeaf(ev, s, valid, error) ==
    /\ hstate = "AWAITING_TARGET"
    /\ defer_timer' = Tick(defer_timer)
    /\ hstate' = IF valid THEN (IF error THEN "STALL" ELSE "RESPOND")
                 ELSE IF defer_timer = TimeoutCycles THEN "DRAIN_THEN_STALL"
                 ELSE "AWAITING_TARGET"
    /\ UNCHANGED <<setup_pending, packet_ok, out_cursor>>

HandlerAwaitingTarget(ev, s, valid, error) ==
    /\ hstate = "AWAITING_TARGET"
    /\ defer_timer' = Tick(defer_timer)
    /\ \/ HandlerAbandon(ev, s)
       \/ /\ ev # "setup"
          /\ hstate' = IF valid THEN (IF error THEN "STALL" ELSE "RESPOND")
                       ELSE IF defer_timer = TimeoutCycles THEN "DRAIN_THEN_STALL"
                       ELSE "AWAITING_TARGET"
          /\ UNCHANGED setup_pending
    /\ UNCHANGED <<packet_ok, out_cursor>>

HandlerRespond(ev, s) ==
    /\ hstate = "RESPOND"
    /\ \/ HandlerAbandon(ev, s)
       \/ /\ ev # "setup"
          /\ hstate' = IF ev = "status" THEN "IDLE" ELSE "RESPOND"
          /\ UNCHANGED setup_pending
    /\ UNCHANGED <<defer_timer, packet_ok, out_cursor>>

\* Mutant: the relay's completion is not waited for.
HandlerDrainAtOnce(ev, s, valid, relay_pending) ==
    /\ hstate = "DRAIN_THEN_STALL"
    /\ setup_pending' = IF ev = "setup" THEN s.class ELSE setup_pending
    /\ hstate' = IF setup_pending \/ (ev = "setup" /\ s.class)
                 THEN "DISPATCH" ELSE "IDLE"
    /\ UNCHANGED <<defer_timer, packet_ok, out_cursor>>

\* Mutant: a relay with nothing to drain is no exit.
HandlerDrainNeedsAnswer(ev, s, valid, relay_pending) ==
    /\ hstate = "DRAIN_THEN_STALL"
    /\ setup_pending' = IF ev = "setup" THEN s.class ELSE setup_pending
    /\ hstate' = IF valid
                 THEN (IF setup_pending \/ (ev = "setup" /\ s.class)
                       THEN "DISPATCH" ELSE "IDLE")
                 ELSE "DRAIN_THEN_STALL"
    /\ UNCHANGED <<defer_timer, packet_ok, out_cursor>>

\* Exit once the relay is acknowledged, or held nothing to drain.
HandlerDrain(ev, s, valid, relay_pending) ==
    /\ hstate = "DRAIN_THEN_STALL"
    /\ setup_pending' = IF ev = "setup" THEN s.class ELSE setup_pending
    /\ hstate' = IF valid \/ ~relay_pending
                 THEN (IF setup_pending \/ (ev = "setup" /\ s.class)
                       THEN "DISPATCH" ELSE "IDLE")
                 ELSE "DRAIN_THEN_STALL"
    /\ UNCHANGED <<defer_timer, packet_ok, out_cursor>>

HandlerDispatch(ev, s, ready) ==
    /\ hstate = "DISPATCH"
    /\ defer_timer' = 0
    /\ out_cursor' = 0
    /\ \/ HandlerAbandon(ev, s) /\ UNCHANGED packet_ok
       \/ ev # "setup" /\ s.class /\ Dispatch(s, ready)
       \/ /\ ev # "setup" /\ ~s.class
          /\ hstate' = "IDLE"
          /\ UNCHANGED <<setup_pending, packet_ok>>

HandlerStall(ev, s) ==
    /\ hstate = "STALL"
    /\ \/ HandlerAbandon(ev, s)
       \/ /\ ev # "setup"
          /\ hstate' = IF ev \in {"in", "status", "eop"} THEN "IDLE" ELSE "STALL"
          /\ UNCHANGED setup_pending
    /\ UNCHANGED <<defer_timer, packet_ok, out_cursor>>

=============================================================================
