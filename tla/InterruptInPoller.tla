------------------------- MODULE InterruptInPoller -------------------------
(***************************************************************************)
(* poller.py, InterruptInPoller: polls one interrupt-IN endpoint and hands *)
(* its reports on.  A poller is a record; PollerNext is its next value     *)
(* after one cycle of the usb clock.                                       *)
(*   due           pacer.due: the interval has elapsed                     *)
(*   toggle        expected_toggle                                         *)
(*   mem           the bytes copied of report_memory; copy_index is its    *)
(*                 length                                                  *)
(*   length        report_length, copy_length                              *)
(*   errors        transport_error_count                                   *)
(* last_status, which only the enumerator and the debug registers read, is *)
(* left out.                                                               *)
(***************************************************************************)
EXTENDS Naturals, Sequences

CONSTANTS
    MaxTransportErrors,  \* timing.max_transport_errors
    MaxPacketSize        \* max_packet_size, of every endpoint

ASSUME PollerAssumption ==
    MaxTransportErrors \in Nat \ {0} /\ MaxPacketSize \in Nat \ {0}

Statuses == {"SUCCESS", "NAK", "STALL", "TIMEOUT", "CRC_ERROR", "OVERFLOW",
             "DISCONNECTED"}

PollerOff ==
    [due |-> FALSE, poll_active |-> FALSE, toggle |-> 0, copy_active |-> FALSE,
     mem |-> <<>>, length |-> 0, buffer_full |-> FALSE, stream_index |-> 0,
     failed |-> FALSE, errors |-> 0]

\* The types of the registers, for bytes in the set `byte`.
PollerTyped(p, byte) ==
    /\ DOMAIN p = DOMAIN PollerOff
    /\ p.due \in BOOLEAN /\ p.toggle \in {0, 1} /\ p.failed \in BOOLEAN
    /\ p.poll_active \in BOOLEAN /\ p.copy_active \in BOOLEAN
    /\ p.mem \in Seq(byte) /\ p.length \in Nat
    /\ p.buffer_full \in BOOLEAN /\ p.stream_index \in Nat
    /\ p.errors \in 0..MaxTransportErrors

active(p) == p.poll_active \/ p.copy_active

issue_poll(p, enable, connected, granted) ==
    /\ enable /\ connected /\ ~p.failed
    /\ p.due /\ ~active(p) /\ ~p.buffer_full
    /\ granted

report_last(p) == p.buffer_full /\ p.stream_index = p.length - 1

-----------------------------------------------------------------------------
clear_buffer(p) ==
    [p EXCEPT !.copy_active = FALSE, !.mem = <<>>, !.length = 0,
              !.buffer_full = FALSE, !.stream_index = 0]

fail(p) ==
    [clear_buffer(p) EXCEPT !.poll_active = FALSE, !.due = FALSE, !.failed = TRUE]

record_transport_error(p) ==
    LET counted == [p EXCEPT !.poll_active = FALSE, !.errors = @ + 1]
    IN  IF p.errors = MaxTransportErrors - 1
        THEN [counted EXCEPT !.failed = TRUE, !.due = FALSE]
        ELSE counted

\* pacer.advance and pacer.consume: a period that ends in the issue cycle
\* itself is not lost.
Paced(p, issued, elapsed) ==
    [p EXCEPT !.due = elapsed \/ (@ /\ ~issued), !.poll_active = @ \/ issued]

\* Mutant: a packet with the other toggle is taken too.
ReportTakenTwice(p, duplicate, rx_length) ==
    LET answered == [p EXCEPT !.poll_active = FALSE, !.errors = 0, !.toggle = 1 - @]
    IN  IF rx_length > 0
        THEN [answered EXCEPT !.copy_active = TRUE, !.mem = <<>>, !.length = rx_length]
        ELSE answered

\* A packet arrived and was ACKed.  A duplicate is the device's last packet
\* again; one too long for the endpoint still moves the toggle.
ReportTaken(p, duplicate, rx_length) ==
    LET answered == [p EXCEPT !.poll_active = FALSE, !.errors = 0]
        advanced == [answered EXCEPT !.toggle = 1 - @]
    IN  CASE duplicate -> answered
          [] ~duplicate /\ rx_length > MaxPacketSize ->
               record_transport_error([p EXCEPT !.toggle = 1 - @])
          [] ~duplicate /\ rx_length = 0 -> advanced
          [] ~duplicate /\ rx_length \in 1..MaxPacketSize ->
               [advanced EXCEPT !.copy_active = TRUE, !.mem = <<>>,
                                !.length = rx_length]

Completed(p, status, duplicate, rx_length) ==
    CASE status = "SUCCESS" -> ReportTaken(p, duplicate, rx_length)
      [] status = "NAK" -> [p EXCEPT !.poll_active = FALSE, !.errors = 0]
      [] status \in {"STALL", "DISCONNECTED"} -> fail(p)
      [] OTHER -> record_transport_error(p)

Copied(p, data) ==
    LET whole == Len(p.mem) = p.length - 1
    IN  [p EXCEPT !.mem = Append(@, data), !.copy_active = ~whole,
                  !.buffer_full = @ \/ whole]

Streamed(p) ==
    IF report_last(p)
    THEN [p EXCEPT !.buffer_full = FALSE, !.stream_index = 0, !.length = 0,
                   !.mem = <<>>]
    ELSE [p EXCEPT !.stream_index = @ + 1]

\* One cycle.  `in` holds the inputs: enable, connected, elapsed (the interval
\* ends), issued (the poll was granted), done with status, duplicate and
\* rx_length, data (rx_read_data), ready (report_ready).
PollerNext(p, in) ==
    LET paced == Paced(p, in.issued, in.elapsed)
        polled == IF p.poll_active /\ in.done
                  THEN Completed(paced, in.status, in.duplicate, in.rx_length)
                  ELSE paced
        copied == IF p.copy_active THEN Copied(polled, in.data) ELSE polled
        streamed == IF p.buffer_full /\ in.ready THEN Streamed(copied) ELSE copied
    IN  CASE ~in.enable -> PollerOff
          [] in.enable /\ ~in.connected -> fail(p)
          [] in.enable /\ in.connected /\ p.failed -> p
          [] OTHER -> streamed
=============================================================================
