------------------------- MODULE InterruptOutWriter -------------------------
(***************************************************************************)
(* out_writer.py, InterruptOutWriter: buffers one OUT packet of the PC and *)
(* writes it to the real device.  The writer is a record; WriterNext is    *)
(* its next value after one cycle.                                         *)
(*   state     FILL, READY or SEND                                         *)
(*   mem       the packet's bytes: fill_count, then packet_length, is its  *)
(*             length                                                      *)
(***************************************************************************)
EXTENDS Naturals, Sequences

CONSTANTS
    OutPacketSize,       \* max_packet_size of the OUT endpoint
    MaxAttempts          \* timing.max_transport_errors

ASSUME WriterAssumption ==
    OutPacketSize \in Nat \ {0} /\ MaxAttempts \in Nat \ {0}

WriterOff ==
    [state |-> "FILL", due |-> FALSE, mem |-> <<>>, attempts |-> 0,
     active |-> FALSE, toggle |-> 0]

\* The types of the registers, for bytes in the set `byte`.
WriterTyped(w, byte) ==
    /\ DOMAIN w = DOMAIN WriterOff
    /\ w.state \in {"FILL", "READY", "SEND"} /\ w.due \in BOOLEAN
    /\ w.mem \in Seq(byte) /\ w.attempts \in 0..(MaxAttempts - 1)
    /\ w.active \in BOOLEAN /\ w.toggle \in {0, 1}

out_ready(w, live) == ~live \/ w.state = "FILL"

issue_write(w, live, flush, granted) ==
    w.state = "READY" /\ live /\ ~flush /\ w.due /\ granted

\* FILL: a packet is complete at out_last or when it is as long as it may be.
Filled(w, byte, last) ==
    LET mem == Append(w.mem, byte)
    IN  IF last \/ Len(mem) = OutPacketSize
        THEN [w EXCEPT !.mem = mem, !.attempts = 0, !.state = "READY"]
        ELSE [w EXCEPT !.mem = mem]

Emptied(w) == [w EXCEPT !.state = "FILL", !.mem = <<>>]

\* Mutant: the toggle moves on when the packet is tried again.
WrittenDroppedToggle(w, status) ==
    LET idle == [w EXCEPT !.active = FALSE]
    IN  CASE status = "SUCCESS" -> Emptied([idle EXCEPT !.toggle = 1 - @])
          [] status = "NAK" -> [idle EXCEPT !.attempts = 0, !.state = "READY"]
          [] status \in {"STALL", "DISCONNECTED"} -> Emptied(idle)
          [] OTHER -> [idle EXCEPT !.attempts = @ + 1, !.state = "READY",
                                   !.toggle = 1 - @]

\* SEND: the transaction is done.
Written(w, status) ==
    LET idle == [w EXCEPT !.active = FALSE]
    IN  CASE status = "SUCCESS" -> Emptied([idle EXCEPT !.toggle = 1 - @])
          [] status = "NAK" -> [idle EXCEPT !.attempts = 0, !.state = "READY"]
          [] status \in {"STALL", "DISCONNECTED"} -> Emptied(idle)
          [] OTHER -> IF w.attempts = MaxAttempts - 1
                      THEN Emptied(idle)
                      ELSE [idle EXCEPT !.attempts = @ + 1, !.state = "READY"]

\* One cycle.  `in` holds the inputs: live (enabled and connected), flush,
\* elapsed, valid with byte and last (the clone's OUT stream), issued, done
\* with status.  Not live, every state falls back to FILL.
WriterNext(w, in) ==
    LET paced == [w EXCEPT !.due = in.elapsed \/ (@ /\ ~in.issued)]
    IN  CASE ~in.live -> WriterOff
          [] in.live /\ w.state = "FILL" ->
               (CASE in.flush -> [paced EXCEPT !.mem = <<>>]
                  [] ~in.flush /\ in.valid -> Filled(paced, in.byte, in.last)
                  [] OTHER -> paced)
          [] in.live /\ w.state = "READY" ->
               (CASE in.flush -> Emptied(paced)
                  [] ~in.flush /\ in.issued -> [paced EXCEPT !.active = TRUE, !.state = "SEND"]
                  [] OTHER -> paced)
          [] in.live /\ w.state = "SEND" ->
               IF in.done THEN Written(paced, in.status) ELSE paced
=============================================================================
