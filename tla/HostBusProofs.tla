--------------------------- MODULE HostBusProofs ---------------------------
(***************************************************************************)
(* Proofs about HostBus: its types, that the transaction engine and its    *)
(* receive buffer have one owner at a time, and that the pollers hand on   *)
(* the device's reports, and the device takes the PC's packets, in order   *)
(* and once.                                                               *)
(***************************************************************************)
EXTENDS HostBus, SequenceTheorems, TLAPS

\* A poller that has counted its last transport error has failed.
Spent(p) == p.errors = MaxTransportErrors => p.failed

LEMMA PacedType ==
    ASSUME NEW Byte, NEW p, PollerTyped(p, Byte),
           NEW issued \in BOOLEAN, NEW elapsed \in BOOLEAN
    PROVE  /\ PollerTyped(Paced(p, issued, elapsed), Byte)
           /\ Paced(p, issued, elapsed).errors = p.errors
           /\ Paced(p, issued, elapsed).failed = p.failed
           /\ active(Paced(p, issued, elapsed)) => active(p) \/ issued
BY DEF Paced, PollerTyped, PollerOff, active

LEMMA FailType ==
    ASSUME NEW Byte, NEW p, PollerTyped(p, Byte)
    PROVE  /\ PollerTyped(fail(p), Byte)
           /\ fail(p).failed /\ ~active(fail(p))
BY DEF fail, clear_buffer, PollerTyped, PollerOff, active

LEMMA ErrorType ==
    ASSUME NEW Byte, NEW p, PollerTyped(p, Byte), p.errors # MaxTransportErrors
    PROVE  /\ PollerTyped(record_transport_error(p), Byte)
           /\ Spent(record_transport_error(p))
           /\ record_transport_error(p).copy_active = p.copy_active
           /\ ~record_transport_error(p).poll_active
<1> DEFINE counted == [p EXCEPT !.poll_active = FALSE, !.errors = @ + 1]
<1>1. /\ DOMAIN counted = DOMAIN p /\ counted.errors = p.errors + 1
      /\ ~counted.poll_active /\ counted.copy_active = p.copy_active
  BY DEF PollerTyped, PollerOff
<1>2. PollerTyped(counted, Byte)
  BY PollerAssumption DEF PollerTyped, PollerOff
<1> HIDE DEF counted
<1>3. PollerTyped([counted EXCEPT !.failed = TRUE, !.due = FALSE], Byte)
  BY <1>2 DEF PollerTyped, PollerOff
<1>4. record_transport_error(p) = IF p.errors = MaxTransportErrors - 1
                                  THEN [counted EXCEPT !.failed = TRUE, !.due = FALSE]
                                  ELSE counted
  BY DEF record_transport_error, counted
<1>5. CASE p.errors = MaxTransportErrors - 1
  BY <1>1, <1>2, <1>3, <1>4, <1>5 DEF Spent, PollerTyped, PollerOff
<1>6. CASE p.errors # MaxTransportErrors - 1
  BY <1>1, <1>2, <1>4, <1>6, PollerAssumption DEF Spent, PollerTyped, PollerOff
<1>7. QED
  BY <1>5, <1>6

\* What a poller does with a completed poll keeps its registers in their types.
LEMMA TakenType ==
    ASSUME NEW Byte, NEW p, PollerTyped(p, Byte), p.errors # MaxTransportErrors,
           NEW duplicate \in BOOLEAN, NEW length \in Nat
    PROVE  /\ PollerTyped(ReportTaken(p, duplicate, length), Byte)
           /\ Spent(ReportTaken(p, duplicate, length))
<1> DEFINE answered == [p EXCEPT !.poll_active = FALSE, !.errors = 0]
           advanced == [answered EXCEPT !.toggle = 1 - @]
           toggled == [p EXCEPT !.toggle = 1 - @]
           copying == [advanced EXCEPT !.copy_active = TRUE, !.mem = <<>>,
                                       !.length = length]
<1>1. /\ PollerTyped(answered, Byte) /\ answered.errors = 0
      /\ PollerTyped(advanced, Byte) /\ advanced.errors = 0
      /\ PollerTyped(toggled, Byte) /\ toggled.errors = p.errors
  BY PollerAssumption DEF PollerTyped, PollerOff
<1>2. \/ ReportTaken(p, duplicate, length) = answered
      \/ ReportTaken(p, duplicate, length) = record_transport_error(toggled)
      \/ ReportTaken(p, duplicate, length) = advanced
      \/ ReportTaken(p, duplicate, length) = copying
  <2>1. \/ duplicate
        \/ ~duplicate /\ length > MaxPacketSize
        \/ ~duplicate /\ length = 0
        \/ ~duplicate /\ length \in 1..MaxPacketSize
    BY PollerAssumption
  <2>2. CASE duplicate
    BY <2>2 DEF ReportTaken
  <2>3. CASE ~duplicate /\ length > MaxPacketSize
    BY <2>3, PollerAssumption DEF ReportTaken
  <2>4. CASE ~duplicate /\ length = 0
    BY <2>4, PollerAssumption DEF ReportTaken
  <2>5. CASE ~duplicate /\ length \in 1..MaxPacketSize
    BY <2>5, PollerAssumption DEF ReportTaken
  <2>6. QED
    BY <2>1, <2>2, <2>3, <2>4, <2>5
<1> HIDE DEF answered, toggled
<1>3. PollerTyped(copying, Byte) /\ copying.errors = 0
  <2> HIDE DEF advanced
  <2>1. QED
    BY <1>1 DEF PollerTyped, PollerOff
<1>4. /\ PollerTyped(record_transport_error(toggled), Byte)
      /\ Spent(record_transport_error(toggled))
  BY <1>1, ErrorType
<1> HIDE DEF advanced, copying
<1>5. QED
  BY <1>1, <1>2, <1>3, <1>4, PollerAssumption DEF Spent

LEMMA CompletedType ==
    ASSUME NEW Byte, NEW p, PollerTyped(p, Byte), p.errors # MaxTransportErrors,
           NEW status \in Statuses, NEW duplicate \in BOOLEAN, NEW length \in Nat
    PROVE  /\ PollerTyped(Completed(p, status, duplicate, length), Byte)
           /\ Spent(Completed(p, status, duplicate, length))
<1> DEFINE idle == [p EXCEPT !.poll_active = FALSE, !.errors = 0]
<1>1. PollerTyped(idle, Byte) /\ Spent(idle)
  BY PollerAssumption DEF PollerTyped, PollerOff, Spent
<1>2. CASE status = "SUCCESS"
  BY <1>2, TakenType DEF Completed
<1>3. CASE status = "NAK"
  BY <1>1, <1>3 DEF Completed
<1>4. CASE status \in {"STALL", "DISCONNECTED"}
  BY <1>4, FailType DEF Completed, Spent
<1>5. CASE status \notin {"SUCCESS", "NAK", "STALL", "DISCONNECTED"}
  BY <1>5, ErrorType DEF Completed
<1>6. QED
  BY <1>2, <1>3, <1>4, <1>5

LEMMA CopiedType ==
    ASSUME NEW Byte, NEW p, PollerTyped(p, Byte), NEW data \in Byte
    PROVE  /\ PollerTyped(Copied(p, data), Byte)
           /\ Copied(p, data).errors = p.errors /\ Copied(p, data).failed = p.failed
           /\ Copied(p, data).poll_active = p.poll_active
<1> DEFINE whole == Len(p.mem) = p.length - 1
           longer == [p EXCEPT !.mem = Append(@, data), !.copy_active = ~whole]
<1>1. Append(p.mem, data) \in Seq(Byte)
  BY DEF PollerTyped
<1>2. /\ PollerTyped(longer, Byte) /\ longer.errors = p.errors
      /\ longer.failed = p.failed /\ longer.poll_active = p.poll_active
      /\ longer.buffer_full = p.buffer_full
  <2> HIDE DEF whole
  <2>1. QED
    BY <1>1 DEF PollerTyped, PollerOff
<1>3. Copied(p, data) = [longer EXCEPT !.buffer_full = p.buffer_full \/ whole]
  BY DEF Copied, PollerTyped, PollerOff
<1> HIDE DEF longer, whole
<1>4. QED
  BY <1>2, <1>3 DEF PollerTyped, PollerOff

LEMMA StreamedType ==
    ASSUME NEW Byte, NEW p, PollerTyped(p, Byte)
    PROVE  /\ PollerTyped(Streamed(p), Byte)
           /\ Streamed(p).errors = p.errors /\ Streamed(p).failed = p.failed
           /\ Streamed(p).poll_active = p.poll_active
           /\ Streamed(p).copy_active = p.copy_active
<1>1. CASE report_last(p)
  BY <1>1 DEF Streamed, PollerTyped, PollerOff
<1>2. CASE ~report_last(p)
  BY <1>2 DEF Streamed, PollerTyped, PollerOff
<1>3. QED
  BY <1>1, <1>2

\* One cycle of a poller.  It becomes active only by an issued poll.
LEMMA PollerStep ==
    ASSUME NEW Byte, NEW p, PollerTyped(p, Byte), Spent(p),
           NEW in, in.enable \in BOOLEAN, in.connected \in BOOLEAN,
           in.elapsed \in BOOLEAN, in.issued \in BOOLEAN, in.done \in BOOLEAN,
           in.status \in Statuses, in.duplicate \in BOOLEAN, in.rx_length \in Nat,
           in.data \in Byte, in.ready \in BOOLEAN
    PROVE  /\ PollerTyped(PollerNext(p, in), Byte) /\ Spent(PollerNext(p, in))
           /\ active(PollerNext(p, in)) => active(p) \/ in.issued
<1> DEFINE paced == Paced(p, in.issued, in.elapsed)
           polled == IF p.poll_active /\ in.done
                     THEN Completed(paced, in.status, in.duplicate, in.rx_length)
                     ELSE paced
           copied == IF p.copy_active THEN Copied(polled, in.data) ELSE polled
           streamed == IF p.buffer_full /\ in.ready THEN Streamed(copied) ELSE copied
<1>1. CASE ~in.enable
  <2>1. PollerTyped(PollerOff, Byte) /\ Spent(PollerOff) /\ ~active(PollerOff)
    BY PollerAssumption DEF PollerTyped, PollerOff, Spent, active
  <2>2. QED
    BY <1>1, <2>1 DEF PollerNext
<1>2. CASE in.enable /\ ~in.connected
  BY <1>2, FailType DEF PollerNext, Spent
<1>3. CASE in.enable /\ in.connected /\ p.failed
  BY <1>3 DEF PollerNext
<1>4. CASE in.enable /\ in.connected /\ ~p.failed
  <2>1. PollerNext(p, in) = streamed
    BY <1>4 DEF PollerNext
  <2>2. p.errors # MaxTransportErrors
    BY <1>4 DEF Spent
  <2>3. /\ PollerTyped(paced, Byte) /\ paced.errors = p.errors
        /\ active(paced) => active(p) \/ in.issued
    <3>1. in.issued \in BOOLEAN /\ in.elapsed \in BOOLEAN
      OBVIOUS
    <3>2. QED
      BY <3>1, PacedType, ZenonT(60)
  <2> HIDE DEF paced
  <2>4. PollerTyped(polled, Byte) /\ Spent(polled)
    BY <2>2, <2>3, CompletedType DEF Spent
  <2>5. active(polled) => active(p) \/ in.issued
    <3>1. CASE p.poll_active
      BY <3>1 DEF active
    <3>2. CASE ~p.poll_active
      <4>1. polled = paced
        BY <3>2
      <4>2. QED
        BY <2>3, <4>1
    <3>3. QED
      BY <3>1, <3>2
  <2> HIDE DEF polled
  <2>6. PollerTyped(copied, Byte) /\ Spent(copied)
    BY <2>4, CopiedType DEF Spent
  <2>7. active(copied) => active(p) \/ in.issued
    BY <2>4, <2>5, CopiedType DEF active
  <2> HIDE DEF copied
  <2>8. /\ PollerTyped(streamed, Byte) /\ Spent(streamed)
        /\ active(streamed) => active(p) \/ in.issued
    BY <2>6, <2>7, StreamedType DEF Spent, active
  <2>9. QED
    BY <2>1, <2>8
<1>5. QED
  BY <1>1, <1>2, <1>3, <1>4

LEMMA FilledType ==
    ASSUME NEW Byte, NEW w, WriterTyped(w, Byte), NEW byte \in Byte, NEW last \in BOOLEAN
    PROVE  WriterTyped(Filled(w, byte, last), Byte) /\ Filled(w, byte, last).active = w.active
<1>1. Append(w.mem, byte) \in Seq(Byte)
  BY DEF WriterTyped
<1>2. QED
  BY <1>1, WriterAssumption DEF Filled, WriterTyped, WriterOff

LEMMA EmptiedType ==
    ASSUME NEW Byte, NEW w, WriterTyped(w, Byte)
    PROVE  WriterTyped(Emptied(w), Byte) /\ Emptied(w).active = w.active
BY DEF Emptied, WriterTyped, WriterOff

LEMMA WrittenType ==
    ASSUME NEW Byte, NEW w, WriterTyped(w, Byte), NEW status \in Statuses
    PROVE  WriterTyped(Written(w, status), Byte) /\ ~Written(w, status).active
<1> DEFINE idle == [w EXCEPT !.active = FALSE]
           toggled == [idle EXCEPT !.toggle = 1 - @]
<1>1. /\ WriterTyped(idle, Byte) /\ ~idle.active /\ idle.attempts = w.attempts
      /\ WriterTyped(toggled, Byte) /\ ~toggled.active
  BY DEF WriterTyped, WriterOff
<1>2. Written(w, status) =
        CASE status = "SUCCESS" -> Emptied(toggled)
          [] status = "NAK" -> [idle EXCEPT !.attempts = 0, !.state = "READY"]
          [] status \in {"STALL", "DISCONNECTED"} -> Emptied(idle)
          [] OTHER -> IF w.attempts = MaxAttempts - 1
                      THEN Emptied(idle)
                      ELSE [idle EXCEPT !.attempts = @ + 1, !.state = "READY"]
  BY DEF Written
<1> HIDE DEF idle, toggled
<1>3. CASE status = "SUCCESS"
  BY <1>1, <1>2, <1>3, EmptiedType
<1>4. CASE status = "NAK"
  <2>1. Written(w, status) = [idle EXCEPT !.attempts = 0, !.state = "READY"]
    BY <1>2, <1>4
  <2>2. QED
    BY <1>1, <2>1, WriterAssumption DEF WriterTyped, WriterOff
<1>5. CASE status \in {"STALL", "DISCONNECTED"}
  BY <1>1, <1>2, <1>5, EmptiedType
<1>6. CASE status \notin {"SUCCESS", "NAK", "STALL", "DISCONNECTED"}
  <2>1. CASE w.attempts = MaxAttempts - 1
    BY <1>1, <1>2, <1>6, <2>1, EmptiedType
  <2>2. CASE w.attempts # MaxAttempts - 1
    <3>1. Written(w, status) = [idle EXCEPT !.attempts = @ + 1, !.state = "READY"]
      BY <1>2, <1>6, <2>2
    <3>2. QED
      BY <1>1, <2>2, <3>1, WriterAssumption, SMTT(30) DEF WriterTyped, WriterOff
  <2>3. QED
    BY <2>1, <2>2
<1>7. QED
  BY <1>3, <1>4, <1>5, <1>6

\* One cycle of the writer.  It becomes active only by an issued write.
LEMMA WriterStep ==
    ASSUME NEW Byte, NEW w, WriterTyped(w, Byte),
           NEW in, in.live \in BOOLEAN, in.flush \in BOOLEAN, in.elapsed \in BOOLEAN,
           in.valid \in BOOLEAN, in.byte \in Byte, in.last \in BOOLEAN,
           in.issued \in BOOLEAN, in.done \in BOOLEAN, in.status \in Statuses
    PROVE  /\ WriterTyped(WriterNext(w, in), Byte)
           /\ WriterNext(w, in).active => w.active \/ in.issued
<1> DEFINE paced == [w EXCEPT !.due = in.elapsed \/ (@ /\ ~in.issued)]
           cleared == [paced EXCEPT !.mem = <<>>]
           sending == [paced EXCEPT !.active = TRUE, !.state = "SEND"]
<1>1. WriterTyped(paced, Byte) /\ paced.active = w.active
  BY DEF WriterTyped, WriterOff
<1>2. WriterTyped(WriterOff, Byte) /\ ~WriterOff.active
  BY WriterAssumption DEF WriterTyped, WriterOff
<1> HIDE DEF paced
<1>3. /\ WriterTyped(cleared, Byte) /\ cleared.active = w.active
      /\ WriterTyped(sending, Byte)
  BY <1>1 DEF WriterTyped, WriterOff
<1> HIDE DEF cleared, sending
<1>4. CASE ~in.live
  BY <1>2, <1>4 DEF WriterNext
<1>5. CASE in.live /\ w.state = "FILL"
  <2>1. \/ WriterNext(w, in) = cleared
        \/ WriterNext(w, in) = Filled(paced, in.byte, in.last)
        \/ WriterNext(w, in) = paced
    <3>1. CASE in.flush
      BY <1>5, <3>1 DEF WriterNext, paced, cleared
    <3>2. CASE ~in.flush /\ in.valid
      BY <1>5, <3>2 DEF WriterNext, paced
    <3>3. CASE ~in.flush /\ ~in.valid
      BY <1>5, <3>3 DEF WriterNext, paced
    <3>4. QED
      BY <3>1, <3>2, <3>3
  <2>2. /\ WriterTyped(Filled(paced, in.byte, in.last), Byte)
        /\ Filled(paced, in.byte, in.last).active = paced.active
    <3> DEFINE byte == in.byte
               last == in.last
    <3>1. byte \in Byte /\ last \in BOOLEAN
      OBVIOUS
    <3> HIDE DEF byte, last
    <3>2. WriterTyped(Filled(paced, byte, last), Byte)
          /\ Filled(paced, byte, last).active = paced.active
      BY <1>1, <3>1, FilledType
    <3>3. QED
      BY <3>2 DEF byte, last
  <2>3. QED
    BY <1>1, <1>3, <2>1, <2>2
<1>6. CASE in.live /\ w.state = "READY"
  <2>1. \/ WriterNext(w, in) = Emptied(paced)
        \/ WriterNext(w, in) = sending /\ in.issued
        \/ WriterNext(w, in) = paced
    <3>1. CASE in.flush
      BY <1>6, <3>1 DEF WriterNext, paced
    <3>2. CASE ~in.flush /\ in.issued
      BY <1>6, <3>2 DEF WriterNext, paced, sending
    <3>3. CASE ~in.flush /\ ~in.issued
      BY <1>6, <3>3 DEF WriterNext, paced
    <3>4. QED
      BY <3>1, <3>2, <3>3
  <2>2. QED
    BY <1>1, <1>3, <2>1, EmptiedType
<1>7. CASE in.live /\ w.state = "SEND"
  <2>1. \/ WriterNext(w, in) = Written(paced, in.status)
        \/ WriterNext(w, in) = paced
    BY <1>7 DEF WriterNext, paced
  <2>2. QED
    BY <1>1, <2>1, WrittenType
<1>8. QED
  BY <1>4, <1>5, <1>6, <1>7 DEF WriterTyped

-----------------------------------------------------------------------------
\* The strengthened invariant.  The control engine is at work only while the
\* bus is its own, which is what keeps a poller from starting.
ControlInPhase == cstate # "idle" => control_phase

\* The transaction engine's result, and what the device sends.
ResultTyped ==
    /\ estatus \in Statuses /\ edone \in BOOLEAN /\ eduplicate \in BOOLEAN
    /\ rx \in Seq(Bytes) /\ rx_length \in Nat /\ packet_duplicate \in BOOLEAN
    /\ dev_report \in [Pollers -> Nat \ {0}]
    /\ pc_packet \in Nat /\ pc_bytes \in Nat

IInv ==
    /\ HostTypeOK /\ ResultTyped
    /\ \A k \in Pollers : Spent(poller[k])
    /\ ControlInPhase
    /\ SingleOwner

LEMMA InitIInv == Init => IInv
<1> SUFFICES ASSUME Init PROVE IInv
  OBVIOUS
<1> USE PollerAssumption, WriterAssumption, PortAssumption DEF Init
<1>1. PollerTyped(PollerOff, Bytes) /\ Spent(PollerOff) /\ ~active(PollerOff)
  BY DEF PollerTyped, PollerOff, Spent, active
<1>2. WriterTyped(WriterOff, Bytes) /\ ~WriterOff.active
  BY DEF WriterTyped, WriterOff
<1>3. HostTypeOK
  <2>1. DOMAIN poller = Pollers /\ \A k \in Pollers : PollerTyped(poller[k], Bytes)
    BY <1>1
  <2>2. WriterTyped(writer, Bytes)
    BY <1>2
  <2>3. rotate \in Ports /\ poller_owner \in Ports
    BY DEF ArbiterInit, Ports
  <2>4. QED
    BY <2>1, <2>2, <2>3 DEF HostTypeOK, ArbiterInit, ControlStates
<1>4. ResultTyped
  <2>1. rx = <<>> /\ dev_report \in [Pollers -> Nat \ {0}]
    BY DEF EngineInit
  <2>2. /\ estatus = "SUCCESS" /\ edone = FALSE /\ eduplicate = FALSE /\ rx_length = 0
        /\ packet_duplicate = FALSE /\ pc_packet = 1 /\ pc_bytes = 0
    BY DEF EngineInit
  <2>3. rx \in Seq(Bytes)
    BY <2>1
  <2> HIDE DEF Init
  <2>4. QED
    BY <2>1, <2>2, <2>3 DEF ResultTyped, Statuses
<1>5. SingleOwner /\ ControlInPhase
  BY <1>1, <1>2 DEF SingleOwner, ControlInPhase, poller_busy
<1>6. QED
  BY <1>1, <1>3, <1>4, <1>5 DEF IInv

-----------------------------------------------------------------------------
\* What a poller does in a cycle: it becomes active only by an issued poll.
PollerKept(k) ==
    /\ PollerTyped(poller'[k], Bytes) /\ Spent(poller'[k])
    /\ active(poller'[k]) => active(poller[k]) \/ polls(k)

LEMMA PollersStep ==
    ASSUME IInv, \E elapsed, consumer : PollerCycle(elapsed, consumer)
    PROVE  DOMAIN poller' = Pollers /\ \A k \in Pollers : PollerKept(k)
<1> PICK elapsed, consumer : PollerCycle(elapsed, consumer)
  OBVIOUS
<1>1. ReadData \in Bytes
  <2>1. ASSUME NEW i \in Nat \ {0}
        PROVE  (IF i <= Len(rx) THEN rx[i] ELSE Zero) \in Bytes
    BY PortAssumption DEF IInv, ResultTyped, Zero, Bytes, Sof
  <2>2. ASSUME NEW k \in Pollers PROVE Len(poller[k].mem) + 1 \in Nat \ {0}
    <3>1. poller[k].mem \in Seq(Bytes)
      BY DEF IInv, HostTypeOK, PollerTyped
    <3>2. QED
      BY <3>1
  <2>3. (IF mux \in Pollers THEN Len(poller[mux].mem) + 1 ELSE 1) \in Nat \ {0}
    BY <2>2
  <2>4. QED
    BY <2>1, <2>3 DEF ReadData
<1>2. DOMAIN poller' = Pollers
  BY DEF PollerCycle
<1>3. ASSUME NEW k \in Pollers
      PROVE  PollerKept(k)
  <2> DEFINE in == [enable |-> ready, connected |-> connected,
                    elapsed |-> k \in elapsed, issued |-> polls(k),
                    done |-> port_done(k, edone), status |-> estatus,
                    duplicate |-> eduplicate, rx_length |-> rx_length,
                    data |-> ReadData, ready |-> k = consumer]
  <2>1. poller'[k] = PollerNext(poller[k], in)
    BY DEF PollerCycle
  <2>2. PollerTyped(poller[k], Bytes) /\ Spent(poller[k])
    BY DEF IInv, HostTypeOK
  <2>3. polls(k) \in BOOLEAN /\ port_done(k, edone) \in BOOLEAN
    BY DEF polls, issue_poll, port_done
  <2>4. /\ in.enable \in BOOLEAN /\ in.connected \in BOOLEAN
        /\ in.elapsed \in BOOLEAN /\ in.issued \in BOOLEAN /\ in.done \in BOOLEAN
        /\ in.status \in Statuses /\ in.duplicate \in BOOLEAN /\ in.rx_length \in Nat
        /\ in.data \in Bytes /\ in.ready \in BOOLEAN
    BY <1>1, <2>3 DEF IInv, HostTypeOK, ResultTyped
  <2>5. in.issued = polls(k)
    OBVIOUS
  <2> HIDE DEF in
  <2>6. /\ PollerTyped(PollerNext(poller[k], in), Bytes) /\ Spent(PollerNext(poller[k], in))
        /\ active(PollerNext(poller[k], in)) => active(poller[k]) \/ in.issued
    BY <2>2, <2>4, PollerStep
  <2>7. QED
    BY <2>1, <2>5, <2>6 DEF PollerKept
<1>4. QED
  BY <1>2, <1>3

\* What the writer does in a cycle.
LEMMA OutStep ==
    ASSUME IInv, NEW elapsed, NEW valid \in BOOLEAN, NEW flush \in BOOLEAN,
           WriterCycle(elapsed, valid, flush)
    PROVE  /\ WriterTyped(writer', Bytes)
           /\ writer'.active => writer.active \/ writes(flush)
<1> DEFINE in == [live |-> out_live, flush |-> flush, elapsed |-> Writer \in elapsed,
                  valid |-> valid, byte |-> <<Writer, pc_packet, pc_bytes + 1>>,
                  last |-> /\ valid
                           /\ pc_bytes + 1 = PacketLengths[pc_packet]
                           /\ PacketLengths[pc_packet] < OutPacketSize,
                  issued |-> writes(flush), done |-> port_done(Writer, edone),
                  status |-> estatus]
<1>1. writer' = WriterNext(writer, in)
  BY DEF WriterCycle
<1>2. WriterTyped(writer, Bytes)
  BY DEF IInv, HostTypeOK
<1>3. /\ writes(flush) \in BOOLEAN /\ port_done(Writer, edone) \in BOOLEAN
      /\ out_live \in BOOLEAN
  BY DEF writes, issue_write, port_done, out_live
<1>4. <<Writer, pc_packet, pc_bytes + 1>> \in Bytes
  BY PortAssumption DEF IInv, ResultTyped, Bytes, Writer
<1>5. /\ in.live \in BOOLEAN /\ in.flush \in BOOLEAN /\ in.elapsed \in BOOLEAN
      /\ in.valid \in BOOLEAN /\ in.byte \in Bytes /\ in.last \in BOOLEAN
      /\ in.issued \in BOOLEAN /\ in.done \in BOOLEAN /\ in.status \in Statuses
  BY <1>3, <1>4 DEF IInv, ResultTyped
<1>6. in.issued = writes(flush)
  OBVIOUS
<1> HIDE DEF in
<1>7. /\ WriterTyped(WriterNext(writer, in), Bytes)
      /\ WriterNext(writer, in).active => writer.active \/ in.issued
  BY <1>2, <1>5, WriterStep
<1>8. QED
  BY <1>1, <1>6, <1>7

\* What the engine and the device leave behind.
LEMMA ResultStep ==
    ASSUME IInv, NEW flush \in BOOLEAN, NEW valid \in BOOLEAN,
           EngineCycle(flush), PCCycle(valid, flush)
    PROVE  ResultTyped'
<1> USE DEF Statuses
<1>1. /\ dev_report \in [Pollers -> Nat \ {0}] /\ rx \in Seq(Bytes) /\ rx_length \in Nat
      /\ packet_duplicate \in BOOLEAN
  BY DEF IInv, ResultTyped
<1>2. pc_packet' \in Nat /\ pc_bytes' \in Nat
  BY DEF IInv, ResultTyped, PCCycle
<1>3. ASSUME NEW status \in Statuses, NEW length \in Nat, NEW duplicate \in BOOLEAN,
             finish(status, length, duplicate)
      PROVE  /\ estatus' \in Statuses /\ edone' \in BOOLEAN /\ eduplicate' \in BOOLEAN
             /\ rx_length' \in Nat /\ packet_duplicate' \in BOOLEAN
  BY <1>3 DEF finish
<1>4. ASSUME NoStrobe
      PROVE  estatus' \in Statuses /\ edone' \in BOOLEAN /\ eduplicate' \in BOOLEAN
  BY <1>4 DEF NoStrobe
<1>5. ASSUME EngineStarts(flush)
      PROVE  /\ estatus' \in Statuses /\ edone' \in BOOLEAN /\ eduplicate' \in BOOLEAN
             /\ rx_length' \in Nat /\ packet_duplicate' \in BOOLEAN /\ rx' = rx
  <2>1. CASE finish("DISCONNECTED", 0, FALSE) /\ UNCHANGED rx
    BY <1>3, <2>1
  <2>2. CASE NoStrobe /\ rx_length' = 0 /\ packet_duplicate' \in BOOLEAN /\ UNCHANGED rx
    BY <1>4, <2>2
  <2>3. QED
    BY <1>1, <1>5, <2>1, <2>2 DEF EngineStarts, EngineIdle
<1> DEFINE Result == /\ estatus' \in Statuses /\ edone' \in BOOLEAN
                     /\ eduplicate' \in BOOLEAN /\ rx_length' \in Nat
                     /\ rx' \in Seq(Bytes) /\ packet_duplicate' \in BOOLEAN
           Device == dev_report' \in [Pollers -> Nat \ {0}]
<1>6. CASE ~connected /\ (EngineStarts(flush) \/ EngineAbort(connected)) /\ DeviceReset
  <2>1. Result
    BY <1>1, <1>3, <1>5, <1>6 DEF EngineAbort
  <2>2. Device
    BY <1>6 DEF DeviceReset
  <2>3. QED
    BY <1>2, <2>1, <2>2 DEF ResultTyped
<1>7. CASE /\ connected /\ DeviceQuiet /\ UNCHANGED lost
           /\ \/ EngineStarts(flush)
              \/ EngineWait(connected)
              \/ EngineToken(connected, txn.src = Sof)
              \/ EngineSendData(connected, Payload(Len(sent) + 1))
              \/ EngineSofDrain(connected)
  <2>1. CASE EngineStarts(flush)
    BY <1>1, <1>2, <1>5, <1>7, <2>1 DEF ResultTyped, DeviceQuiet, deviceVars
  <2>2. CASE EngineWait(connected)
    BY <1>1, <1>2, <1>4, <1>7, <2>2 DEF ResultTyped, DeviceQuiet, deviceVars, EngineWait
  <2>3. CASE EngineToken(connected, txn.src = Sof)
    BY <1>1, <1>2, <1>4, <1>7, <2>3 DEF ResultTyped, DeviceQuiet, deviceVars, EngineToken
  <2>4. CASE EngineSendData(connected, Payload(Len(sent) + 1))
    BY <1>1, <1>2, <1>4, <1>7, <2>4 DEF ResultTyped, DeviceQuiet, deviceVars, EngineSendData
  <2>5. CASE EngineSofDrain(connected)
    BY <1>1, <1>2, <1>3, <1>7, <2>5 DEF ResultTyped, DeviceQuiet, deviceVars, EngineSofDrain
  <2>6. QED
    BY <1>7, <2>1, <2>2, <2>3, <2>4, <2>5
<1>8. CASE AnswersIn
  <2>1. Device
    BY <1>1, <1>8 DEF AnswersIn, DeviceQuiet, deviceVars
  <2>2. ASSUME NEW status \in Statuses, EngineHandshake(connected, status)
        PROVE  Result
    BY <1>1, <1>3, <2>2 DEF EngineHandshake
  <2>3. ASSUME EngineBadData(connected, Junk) PROVE Result
    <3>1. Junk \in Seq(Bytes)
      BY PortAssumption DEF Junk, Zero, Bytes, Sof
    <3>2. QED
      BY <1>3, <2>3, <3>1 DEF EngineBadData
  <2>4. ASSUME NEW toggle, NEW bytes \in Seq(Bytes), EngineData(connected, toggle, bytes)
        PROVE  Result
    BY <1>1, <1>4, <2>4 DEF EngineData
  <2>5. ASSUME txn.src \in Pollers, dev_report[txn.src] <= Len(ReportLengths),
               EngineData(connected, dev_toggle[txn.src],
                          ReportBytes(txn.src, dev_report[txn.src]))
        PROVE  Result
    <3> DEFINE n == dev_report[txn.src]
    <3>1. n \in 1..Len(ReportLengths) /\ txn.src \in Nat
      BY <1>1, <2>5, HostAssumption, PortAssumption DEF Pollers
    <3> HIDE DEF n
    <3>2. ReportLengths[n] \in Nat
      BY <3>1, HostAssumption
    <3>3. ReportBytes(txn.src, n) \in Seq(Bytes)
      <4> DEFINE length == ReportLengths[n]
      <4>1. \A i \in 1..length : <<txn.src, n, i>> \in Bytes
        BY <3>1, <3>2 DEF Bytes
      <4>2. ReportBytes(txn.src, n) = [i \in 1..length |-> <<txn.src, n, i>>]
        BY DEF ReportBytes
      <4> HIDE DEF length
      <4>3. length \in Nat
        BY <3>2 DEF length
      <4>4. QED
        BY <4>1, <4>2, <4>3
    <3>4. QED
      BY <2>4, <2>5, <3>3 DEF n
  <2>6. ASSUME EngineData(connected, txn.toggle, ControlBytes) PROVE Result
    <3>1. ControlBytes \in Seq(Bytes)
      BY PortAssumption DEF ControlBytes, ControlLength, Control, Bytes
    <3>2. QED
      BY <2>4, <2>6, <3>1
  <2>7. Result
    BY <1>8, <2>2, <2>3, <2>5, <2>6 DEF AnswersIn
  <2>8. QED
    BY <1>2, <2>1, <2>7 DEF ResultTyped
<1>9. CASE AnswersOut
  <2>1. PICK status \in Statuses : EngineHandshake(connected, status)
    BY <1>9 DEF AnswersOut
  <2>2. Result
    BY <1>1, <1>3, <2>1 DEF EngineHandshake
  <2>3. Device
    BY <1>1, <1>9 DEF AnswersOut, TakesOut, DeviceQuiet, deviceVars
  <2>4. QED
    BY <1>2, <2>2, <2>3 DEF ResultTyped
<1>10. CASE Acknowledges
  <2>2. Result
    BY <1>1, <1>3, <1>10 DEF Acknowledges, EngineAck
  <2>3. Device
    BY <1>1, <1>10 DEF Acknowledges, DeviceQuiet, deviceVars
  <2>4. QED
    BY <1>2, <2>2, <2>3 DEF ResultTyped
<1>11. QED
  BY <1>6, <1>7, <1>8, <1>9, <1>10 DEF EngineCycle

\* The control engine's registers, and its part of the bus.
LEMMA ControlStep ==
    ASSUME IInv, ControlCycle, OwnedCycle, SofCycle, ReadyCycle
    PROVE  /\ connected' \in BOOLEAN /\ ready' \in BOOLEAN /\ (ready' => connected')
           /\ out_enable' \in BOOLEAN /\ sof_start' \in BOOLEAN /\ owned' \in BOOLEAN
           /\ cstate' \in ControlStates /\ cin' \in BOOLEAN
           /\ cnak' \in {"off", "counting", "expired"}
           /\ ControlInPhase'
           /\ bus_free \/ poller_busy => cstate' \notin {"wait", "stream"}
<1>1. /\ connected \in BOOLEAN /\ ready \in BOOLEAN /\ (ready => connected)
      /\ sof_start \in BOOLEAN /\ owned \in BOOLEAN
      /\ cstate \in ControlStates /\ cin \in BOOLEAN
      /\ cnak \in {"off", "counting", "expired"}
      /\ ControlInPhase
      /\ poller_busy => cstate \notin {"wait", "stream"}
  BY DEF IInv, HostTypeOK, SingleOwner
<1>2. connected' \in BOOLEAN /\ ready' \in BOOLEAN /\ (ready' => connected')
      /\ out_enable' \in BOOLEAN
  <2>1. out_enable' \in BOOLEAN
    BY <1>1 DEF ReadyCycle
  <2>2. \/ connected' = connected /\ ready' = ready
        \/ ~connected /\ connected' = TRUE /\ ready' = ready
        \/ connected /\ connected' = connected /\ ready' = TRUE
        \/ connected' = FALSE /\ ready' = FALSE
    BY DEF ReadyCycle
  <2>3. connected' \in BOOLEAN /\ ready' \in BOOLEAN
    BY <1>1, <2>2
  <2>4. ready' => connected'
    BY <1>1, <2>2, Zenon
  <2>5. QED
    BY <2>1, <2>3, <2>4
<1>3. sof_start' \in BOOLEAN /\ owned' \in BOOLEAN
  BY <1>1, HostAssumption DEF SofCycle, OwnedCycle
<1>4. /\ cstate' \in ControlStates /\ cin' \in BOOLEAN
      /\ cnak' \in {"off", "counting", "expired"}
      /\ cstate = "idle" /\ ~control_phase => cstate' = "idle"
      /\ poller_busy => cstate' \notin {"wait", "stream"}
  <2> USE DEF ControlStates
  <2>1. CASE ControlEnds
    BY <1>1, <2>1 DEF ControlEnds
  <2>2. CASE ControlIdle
    BY <1>1, <2>2 DEF ControlIdle, ControlBegins
  <2>3. CASE ControlIssue
    BY <1>1, <2>3 DEF ControlIssue, Counting, control_owns
  <2>4. CASE ControlWait
    BY <1>1, <2>4 DEF ControlWait, Counting, ControlBegins, ControlEnds
  <2>5. CASE ControlStream
    BY <1>1, <2>5 DEF ControlStream, ControlBegins
  <2>6. QED
    BY <2>1, <2>2, <2>3, <2>4, <2>5 DEF ControlCycle
<1>5. ControlInPhase'
  <2>1. SUFFICES ASSUME cstate' # "idle" PROVE control_phase'
    BY DEF ControlInPhase
  <2>2. control_phase
    BY <1>1, <1>4, <2>1 DEF ControlInPhase
  <2>3. QED
    BY <1>1, <2>1, <2>2 DEF control_phase, OwnedCycle, ReadyCycle
<1>6. bus_free => cstate' \notin {"wait", "stream"}
  BY <1>1, <1>4 DEF bus_free, poll_bus_free, ControlInPhase
<1>7. QED
  BY <1>2, <1>3, <1>4, <1>5, <1>6

\* A port starts only on a free bus and only by its turn; a port at work
\* keeps the bus from being free, and its number in poller_owner.
LEMMA OwnerStep ==
    ASSUME IInv, NEW flush \in BOOLEAN, ArbiterCycle(flush)
    PROVE  /\ rotate' \in Ports /\ poller_owner' \in Ports
           /\ owner_valid' \in BOOLEAN /\ engine_done_d' \in BOOLEAN
           /\ \A k \in Pollers : active(poller[k]) \/ polls(k) =>
                                   poller_owner' = k /\ (bus_free \/ poller_busy)
           /\ writer.active \/ writes(flush) =>
                poller_owner' = Writer /\ (bus_free \/ poller_busy)
<1>1. /\ rotate \in Ports /\ poller_owner \in Ports /\ owner_valid \in BOOLEAN
      /\ edone \in BOOLEAN
  BY DEF IInv, HostTypeOK, ResultTyped
<1>2. /\ rotate' \in Ports /\ poller_owner' \in Ports
      /\ owner_valid' \in BOOLEAN /\ engine_done_d' \in BOOLEAN
  <2>1. \A k \in Ports : NextPort(k) \in Ports
    BY PortAssumption DEF NextPort, Ports
  <2>2. QED
    BY <1>1, <2>1 DEF ArbiterCycle, ArbiterStep
<1>3. poller_busy => poller_owner' = poller_owner
  BY DEF ArbiterCycle, ArbiterStep, bus_free, poll_bus_free
<1>4. bus_free /\ selected_start(flush) => poller_owner' = rotate
  BY DEF ArbiterCycle, ArbiterStep
<1>5. ASSUME NEW k \in Pollers, active(poller[k]) \/ polls(k)
      PROVE  poller_owner' = k /\ (bus_free \/ poller_busy)
  <2>1. CASE active(poller[k])
    BY <1>3, <2>1 DEF IInv, SingleOwner, poller_busy
  <2>2. CASE polls(k)
    <3>1. bus_free /\ rotate = k
      BY <2>2 DEF polls, issue_poll, granted
    <3>2. k # Writer
      BY PortAssumption DEF Pollers, Writer
    <3>3. QED
      BY <1>4, <2>2, <3>1, <3>2 DEF selected_start
  <2>3. QED
    BY <1>5, <2>1, <2>2
<1>6. ASSUME writer.active \/ writes(flush)
      PROVE  poller_owner' = Writer /\ (bus_free \/ poller_busy)
  <2>1. CASE writer.active
    BY <1>3, <2>1 DEF IInv, SingleOwner, poller_busy
  <2>2. CASE writes(flush)
    <3>1. bus_free /\ rotate = Writer
      BY <2>2 DEF writes, issue_write, granted
    <3>2. QED
      BY <1>4, <2>2, <3>1 DEF selected_start
  <2>3. QED
    BY <1>6, <2>1, <2>2
<1>7. QED
  BY <1>2, <1>5, <1>6

LEMMA NextIInv == IInv /\ [Next]_vars => IInv'
<1> SUFFICES ASSUME IInv, [Next]_vars PROVE IInv'
  OBVIOUS
<1>1. CASE Next
  <2>1. PICK elapsed \in SUBSET Elapsing, consumer \in Consumers,
             valid \in BOOLEAN, flush \in BOOLEAN : Cycle(elapsed, consumer, valid, flush)
    BY <1>1 DEF Next
  <2>2. DOMAIN poller' = Pollers /\ \A k \in Pollers : PollerKept(k)
    <3>1. \E e, c : PollerCycle(e, c)
      BY <2>1 DEF Cycle
    <3>2. QED
      BY <3>1, PollersStep
  <2>3. /\ WriterTyped(writer', Bytes)
        /\ writer'.active => writer.active \/ writes(flush)
    BY <2>1, OutStep DEF Cycle
  <2>4. ResultTyped'
    BY <2>1, ResultStep DEF Cycle
  <2>5. /\ connected' \in BOOLEAN /\ ready' \in BOOLEAN /\ (ready' => connected')
        /\ out_enable' \in BOOLEAN /\ sof_start' \in BOOLEAN /\ owned' \in BOOLEAN
        /\ cstate' \in ControlStates /\ cin' \in BOOLEAN
        /\ cnak' \in {"off", "counting", "expired"}
        /\ ControlInPhase'
        /\ bus_free \/ poller_busy => cstate' \notin {"wait", "stream"}
    BY <2>1, ControlStep DEF Cycle
  <2>6. /\ rotate' \in Ports /\ poller_owner' \in Ports
        /\ owner_valid' \in BOOLEAN /\ engine_done_d' \in BOOLEAN
        /\ \A k \in Pollers : active(poller[k]) \/ polls(k) =>
                                poller_owner' = k /\ (bus_free \/ poller_busy)
        /\ writer.active \/ writes(flush) =>
             poller_owner' = Writer /\ (bus_free \/ poller_busy)
    BY <2>1, OwnerStep DEF Cycle
  <2>7. HostTypeOK'
    <3>1. (\A k \in Pollers : PollerTyped(poller[k], Bytes))'
      BY <2>2 DEF PollerKept
    <3>2. WriterTyped(writer, Bytes)'
      BY <2>3
    <3>3. QED
      BY <2>2, <2>5, <2>6, <3>1, <3>2 DEF HostTypeOK
  <2>8. SingleOwner'
    <3>1. \A k \in Pollers : active(poller'[k]) => poller_owner' = k
      BY <2>2, <2>6 DEF PollerKept
    <3>2. writer'.active => poller_owner' = Writer
      BY <2>3, <2>6
    <3>3. poller_busy' => cstate' \notin {"wait", "stream"}
      BY <2>2, <2>3, <2>5, <2>6 DEF poller_busy, PollerKept
    <3>4. QED
      BY <3>1, <3>2, <3>3 DEF SingleOwner
  <2>9. QED
    BY <2>2, <2>4, <2>5, <2>7, <2>8 DEF IInv, PollerKept
<1>2. CASE UNCHANGED vars
  BY <1>2 DEF vars, portVars, engineVars, arbiterVars, hostVars, deviceVars, historyVars,
     IInv, HostTypeOK, ResultTyped, ControlInPhase, control_phase, SingleOwner, poller_busy
<1>3. QED
  BY <1>1, <1>2

-----------------------------------------------------------------------------
\* The registers of the host's components keep their types, for any number of
\* endpoints, any reports and any losses; in particular no poller counts an
\* error after it has failed, and ready implies connected.
THEOREM HostTypes == Spec => []HostTypeOK
<1>1. IInv => HostTypeOK
  BY DEF IInv
<1>2. QED
  BY InitIInv, NextIInv, <1>1, PTL DEF Spec

\* host.py's arbiter: whoever holds the transaction engine or the shared
\* receive buffer holds both alone, from the grant until the report is copied
\* out, for any number of endpoints; the control engine waits for a
\* transaction only when no port is at work.
THEOREM EngineHasOneOwner == Spec => []SingleOwner
<1>1. IInv => SingleOwner
  BY DEF IInv
<1>2. QED
  BY InitIInv, NextIInv, <1>1, PTL DEF Spec

-----------------------------------------------------------------------------
\* Who started the transaction under way, or the one whose result is out.
OwnerSound ==
    /\ estate \in EngineStates /\ (ebusy => txn.in \in BOOLEAN)
    /\ edone => ~ebusy
    /\ owner_valid => (ebusy /\ txn.src = poller_owner) \/ edone
    /\ ~owner_valid /\ ebusy => txn.src \in {Control, Sof}
    /\ txn.src = Sof /\ ebusy => estate \in {"TOKEN", "WAIT_SOF_DRAIN"}
    /\ estate = "WAIT_SOF_DRAIN" => txn.src = Sof
    /\ txn.src = Control /\ ebusy => ~poller_busy
    /\ owner_valid => ready \/ ~connected
    /\ ready /\ owner_valid =>
         (poller_owner = Writer /\ writer.active) \/ (poller_owner \in Pollers /\ poller[poller_owner].poll_active)

\* A poller is idle, or waits for its result, or copies, or offers its report.
Exclusive(p) ==
    /\ ~(p.poll_active /\ p.copy_active) /\ ~(active(p) /\ p.buffer_full)
    /\ p.failed => ~active(p)

PollersSound ==
    \A k \in Pollers :
        /\ Exclusive(poller[k])
        /\ poller[k].poll_active => owner_valid /\ poller_owner = k
        /\ poller[k].copy_active => ~owner_valid

WriterSound ==
    /\ writer.active <=> writer.state = "SEND"
    /\ writer.active => owner_valid /\ poller_owner = Writer

\* A host that is not ready, and has been so for a cycle, has nothing of an
\* earlier device.
Fresh ==
    /\ poller = [k \in Pollers |-> PollerOff] /\ writer = WriterOff
    /\ taken = [k \in Pollers |-> <<>>] /\ written = 0
    /\ pc_packet = 1 /\ pc_bytes = 0
    /\ dev_report = [k \in Pollers |-> 1] /\ dev_toggle = [k \in Pollers |-> 0]
    /\ out_toggle = 0 /\ accepted = <<>>
Forgotten ==
    /\ out_enable => ready \/ ~connected
    /\ ~out_enable => Fresh

-----------------------------------------------------------------------------
\* A report has arrived and its poller is about to take it.
Pending(k) == edone /\ owner_valid /\ poller_owner = k /\ estatus = "SUCCESS" /\ ~eduplicate

\* The toggle the poller expects next, and the last report that has arrived.
Expected(k) == IF Pending(k) THEN 1 - poller[k].toggle ELSE poller[k].toggle
Got(k) == IF Expected(k) = dev_toggle[k] THEN dev_report[k] - 1 ELSE dev_report[k]

\* The receive buffer holds report n.
Holds(k, n) ==
    /\ n \in 1..Len(ReportLengths)
    /\ rx = ReportBytes(k, n)

Receiving(k) ==
    /\ ebusy /\ txn.src = k => txn.in /\ txn.toggle = poller[k].toggle
    /\ estate = "ACK" /\ txn.src = k =>
         /\ packet_duplicate <=> poller[k].toggle # dev_toggle[k]
         /\ ~packet_duplicate => Holds(k, dev_report[k]) /\ rx_length = ReportLengths[dev_report[k]]
    /\ Pending(k) => Holds(k, Got(k)) /\ rx_length = ReportLengths[Got(k)]
    /\ poller[k].copy_active =>
         /\ Holds(k, Got(k)) /\ poller[k].length = ReportLengths[Got(k)]
         /\ poller[k].length \in 1..MaxPacketSize
         /\ Len(poller[k].mem) < poller[k].length
         /\ \A i \in 1..Len(poller[k].mem) : poller[k].mem[i] = <<k, Got(k), i>>

\* The reports taken, up to the last that has arrived.
Arriving(k) == Pending(k) \/ poller[k].copy_active
Orderly(k, reports, got, arriving) ==
    /\ \A i \in 1..Len(reports) :
         /\ Deliverable(Number(reports[i]))
         /\ reports[i] = ReportBytes(k, Number(reports[i]))
         /\ Number(reports[i]) <= got
         /\ arriving => Number(reports[i]) < got
    /\ \A i, j \in 1..Len(reports) : i < j => Number(reports[i]) < Number(reports[j])
    /\ \A n \in 1..got : Deliverable(n) =>
         \/ \E j \in 1..Len(reports) : Number(reports[j]) = n
         \/ n = got /\ arriving
Order(k) == Orderly(k, taken[k], Got(k), Arriving(k))

InTyped == taken \in [Pollers -> Seq(Seq(Bytes))] /\ dev_toggle \in [Pollers -> {0, 1}]
InInv == InTyped /\ \A k \in Pollers : Receiving(k) /\ Order(k)

-----------------------------------------------------------------------------
\* The writer's memory: the bytes of the packet the PC sends, or a whole one.
Filling ==
    writer.state = "FILL" =>
        /\ writer.mem = [i \in 1..pc_bytes |-> <<Writer, pc_packet, i>>]
        /\ pc_bytes > 0 => pc_packet <= Len(PacketLengths) /\ pc_bytes < PacketLengths[pc_packet]
Full ==
    writer.state # "FILL" =>
        /\ pc_bytes = 0
        /\ Number(writer.mem) \in 1..Len(PacketLengths) /\ Number(writer.mem) < pc_packet
        /\ writer.mem = PacketBytes(Number(writer.mem))

\* The bytes on the wire are the writer's.
Sending ==
    ebusy /\ txn.src = Writer =>
        /\ writer.active /\ ~txn.in /\ txn.toggle = writer.toggle /\ txn.length = Len(writer.mem)
        /\ estate # "ACK"
        /\ sent \in Seq(Bytes) /\ Len(sent) <= Len(writer.mem)
        /\ \A i \in 1..Len(sent) : sent[i] = writer.mem[i]
        /\ estate = "TOKEN" => sent = <<>>
        /\ estate = "WAIT_RESPONSE" => sent = writer.mem

\* The packets the device took, all before `next`, and before the one that it
\* has still to take.
Orders(packets, next) ==
    /\ \A i \in 1..Len(packets) :
         /\ Number(packets[i]) \in 1..Len(PacketLengths)
         /\ packets[i] = PacketBytes(Number(packets[i]))
         /\ Number(packets[i]) < next
    /\ \A i, j \in 1..Len(packets) : i < j => Number(packets[i]) < Number(packets[j])
AcceptedSound ==
    /\ Orders(accepted, pc_packet)
    /\ writer.state # "FILL" /\ writer.toggle = out_toggle => Orders(accepted, Number(writer.mem))

\* The toggles differ while the device has a packet that is yet to be counted.
Counted ==
    /\ Len(accepted) >= written + (IF writer.toggle # out_toggle THEN 1 ELSE 0)
    /\ edone /\ owner_valid /\ poller_owner = Writer /\ estatus = "SUCCESS" => writer.toggle # out_toggle

OutTyped ==
    /\ accepted \in Seq(Seq(Bytes)) /\ written \in Nat /\ out_toggle \in {0, 1}
    /\ pc_packet \in Nat \ {0}
OutInv == OutTyped /\ Filling /\ Full /\ Sending /\ AcceptedSound /\ Counted

-----------------------------------------------------------------------------
\* One cycle of a poller, in the terms of the invariant.
Copies(p, q, data) ==
    LET whole == Len(p.mem) = p.length - 1
    IN  /\ q.toggle = p.toggle /\ q.mem = Append(p.mem, data) /\ q.length = p.length
        /\ ~q.poll_active /\ q.copy_active = ~whole /\ q.buffer_full = whole
        /\ q.failed = p.failed
Completes(p, q, status, duplicate, length) ==
    /\ ~q.poll_active /\ ~q.buffer_full
    /\ IF status = "SUCCESS" /\ ~duplicate
       THEN /\ q.toggle = 1 - p.toggle
            /\ q.copy_active <=> length \in 1..MaxPacketSize
            /\ q.copy_active => q.mem = <<>> /\ q.length = length /\ ~q.failed
       ELSE q.toggle = p.toggle /\ ~q.copy_active
Waits(p, q, issued) ==
    /\ q.toggle = p.toggle /\ ~q.copy_active
    /\ q.buffer_full => p.buffer_full
    /\ q.poll_active <=> p.poll_active \/ issued
    /\ q.failed = p.failed

LEMMA PacedFields ==
    ASSUME NEW Byte, NEW p, PollerTyped(p, Byte), NEW issued \in BOOLEAN, NEW elapsed \in BOOLEAN
    PROVE  LET q == Paced(p, issued, elapsed)
           IN  /\ q.toggle = p.toggle /\ q.copy_active = p.copy_active /\ q.mem = p.mem
               /\ q.length = p.length /\ q.buffer_full = p.buffer_full /\ q.failed = p.failed
               /\ q.stream_index = p.stream_index
               /\ q.poll_active <=> p.poll_active \/ issued
  BY DEF Paced, PollerTyped, PollerOff

LEMMA ErrorFields ==
    ASSUME NEW Byte, NEW p, PollerTyped(p, Byte)
    PROVE  LET q == record_transport_error(p)
           IN  /\ q.toggle = p.toggle /\ q.copy_active = p.copy_active
               /\ q.buffer_full = p.buffer_full /\ ~q.poll_active
  <1> DEFINE counted == [p EXCEPT !.poll_active = FALSE, !.errors = @ + 1]
  <1>1. /\ counted.toggle = p.toggle /\ counted.copy_active = p.copy_active
        /\ counted.buffer_full = p.buffer_full /\ ~counted.poll_active /\ DOMAIN counted = DOMAIN p
    BY DEF PollerTyped, PollerOff
  <1>2. record_transport_error(p) = IF p.errors = MaxTransportErrors - 1
                                    THEN [counted EXCEPT !.failed = TRUE, !.due = FALSE]
                                    ELSE counted
    BY DEF record_transport_error
  <1> HIDE DEF counted
  <1> QED
    BY <1>1, <1>2 DEF PollerTyped, PollerOff

LEMMA FailFields ==
    ASSUME NEW Byte, NEW p, PollerTyped(p, Byte)
    PROVE  fail(p).toggle = p.toggle /\ ~fail(p).copy_active /\ ~fail(p).buffer_full /\ ~fail(p).poll_active
  BY DEF fail, clear_buffer, PollerTyped, PollerOff

LEMMA ToggledType ==
    ASSUME NEW Byte, NEW p, PollerTyped(p, Byte)
    PROVE  PollerTyped([p EXCEPT !.toggle = 1 - @], Byte)
  <1> DEFINE t == 1 - p.toggle
             q == [p EXCEPT !.toggle = t]
  <1>1. t \in {0, 1}
    BY DEF PollerTyped
  <1> HIDE DEF t
  <1>2. PollerTyped(q, Byte)
    BY <1>1 DEF PollerTyped, PollerOff
  <1> QED
    BY <1>2 DEF t

LEMMA TakenFields ==
    ASSUME NEW Byte, NEW p, PollerTyped(p, Byte), p.poll_active, Exclusive(p),
           NEW duplicate \in BOOLEAN, NEW length \in Nat
    PROVE  Completes(p, ReportTaken(p, duplicate, length), "SUCCESS", duplicate, length)
  <1> DEFINE answered == [p EXCEPT !.poll_active = FALSE, !.errors = 0]
             advanced == [answered EXCEPT !.toggle = 1 - @]
             toggled == [p EXCEPT !.toggle = 1 - @]
             copying == [advanced EXCEPT !.copy_active = TRUE, !.mem = <<>>, !.length = length]
  <1>0. ~p.copy_active /\ ~p.buffer_full /\ ~p.failed
    BY DEF Exclusive, active
  <1>1. /\ answered.toggle = p.toggle /\ ~answered.poll_active /\ ~answered.copy_active
        /\ ~answered.buffer_full /\ ~answered.failed /\ DOMAIN answered = DOMAIN p
    BY <1>0 DEF PollerTyped, PollerOff
  <1>2. toggled.toggle = 1 - p.toggle /\ ~toggled.copy_active /\ ~toggled.buffer_full
    BY <1>0 DEF PollerTyped, PollerOff
  <1>9. PollerTyped(toggled, Byte)
    BY ToggledType
  <1> HIDE DEF answered
  <1>3. /\ advanced.toggle = 1 - p.toggle /\ ~advanced.poll_active /\ ~advanced.copy_active
        /\ ~advanced.buffer_full /\ ~advanced.failed /\ DOMAIN advanced = DOMAIN p
    BY <1>1 DEF PollerTyped, PollerOff
  <1> HIDE DEF advanced, toggled
  <1>4. /\ copying.toggle = 1 - p.toggle /\ ~copying.poll_active /\ copying.copy_active
        /\ ~copying.buffer_full /\ ~copying.failed /\ copying.mem = <<>> /\ copying.length = length
    BY <1>3 DEF PollerTyped, PollerOff
  <1> HIDE DEF copying
  <1>5. CASE duplicate
    <2>1. ReportTaken(p, duplicate, length) = answered
      BY <1>5 DEF ReportTaken, answered
    <2> QED
      BY <1>1, <1>5, <2>1 DEF Completes
  <1>6. CASE ~duplicate /\ length > MaxPacketSize
    <2>1. ReportTaken(p, duplicate, length) = record_transport_error(toggled)
      BY <1>6, PollerAssumption DEF ReportTaken, toggled
    <2>2. /\ record_transport_error(toggled).toggle = 1 - p.toggle
          /\ ~record_transport_error(toggled).copy_active
          /\ ~record_transport_error(toggled).buffer_full
          /\ ~record_transport_error(toggled).poll_active
      BY <1>2, <1>9, ErrorFields
    <2>3. length \notin 1..MaxPacketSize
      BY <1>6, PollerAssumption
    <2> QED
      BY <1>6, <2>1, <2>2, <2>3 DEF Completes
  <1>7. CASE ~duplicate /\ length = 0
    <2>1. ReportTaken(p, duplicate, length) = advanced
      BY <1>7, PollerAssumption DEF ReportTaken, answered, advanced
    <2> QED
      BY <1>3, <1>7, <2>1 DEF Completes
  <1>8. CASE ~duplicate /\ length \in 1..MaxPacketSize
    <2>1. ReportTaken(p, duplicate, length) = copying
      BY <1>8, PollerAssumption DEF ReportTaken, answered, advanced, copying
    <2> QED
      BY <1>4, <1>8, <2>1 DEF Completes
  <1> QED
    BY <1>5, <1>6, <1>7, <1>8, PollerAssumption

LEMMA CompletedFields ==
    ASSUME NEW Byte, NEW p, PollerTyped(p, Byte), p.poll_active, Exclusive(p),
           NEW status \in Statuses, NEW duplicate \in BOOLEAN, NEW length \in Nat
    PROVE  Completes(p, Completed(p, status, duplicate, length), status, duplicate, length)
  <1> DEFINE idle == [p EXCEPT !.poll_active = FALSE, !.errors = 0]
  <1>1. ~p.copy_active /\ ~p.buffer_full
    BY DEF Exclusive, active
  <1>2. idle.toggle = p.toggle /\ ~idle.poll_active /\ ~idle.copy_active /\ ~idle.buffer_full
    BY <1>1 DEF PollerTyped, PollerOff
  <1>3. CASE status = "SUCCESS"
    BY <1>3, TakenFields DEF Completed
  <1>4. CASE status = "NAK"
    <2>1. Completed(p, status, duplicate, length) = idle
      BY <1>4 DEF Completed
    <2> HIDE DEF idle
    <2> QED
      BY <1>2, <1>4, <2>1 DEF Completes
  <1>5. CASE status \in {"STALL", "DISCONNECTED"}
    <2>1. Completed(p, status, duplicate, length) = fail(p)
      BY <1>5 DEF Completed
    <2> QED
      BY <1>5, <2>1, FailFields DEF Completes
  <1>6. CASE status \notin {"SUCCESS", "NAK", "STALL", "DISCONNECTED"}
    <2>1. Completed(p, status, duplicate, length) = record_transport_error(p)
      BY <1>6 DEF Completed
    <2> QED
      BY <1>1, <1>6, <2>1, ErrorFields DEF Completes
  <1> QED
    BY <1>3, <1>4, <1>5, <1>6

LEMMA CopiedFields ==
    ASSUME NEW Byte, NEW p, PollerTyped(p, Byte), p.copy_active, Exclusive(p), NEW data \in Byte
    PROVE  Copies(p, Copied(p, data), data)
  <1> DEFINE whole == Len(p.mem) = p.length - 1
             longer == [p EXCEPT !.mem = Append(@, data), !.copy_active = ~whole]
             full == [longer EXCEPT !.buffer_full = whole]
  <1>1. ~p.poll_active /\ p.buffer_full = FALSE
    BY DEF Exclusive, active, PollerTyped
  <1> HIDE DEF whole
  <1>2. /\ longer.toggle = p.toggle /\ longer.mem = Append(p.mem, data) /\ longer.length = p.length
        /\ longer.poll_active = p.poll_active /\ longer.copy_active = ~whole
        /\ longer.buffer_full = p.buffer_full /\ longer.failed = p.failed /\ DOMAIN longer = DOMAIN p
    BY DEF PollerTyped, PollerOff
  <1>3. Copied(p, data) = [longer EXCEPT !.buffer_full = p.buffer_full \/ whole]
    BY DEF Copied, whole, PollerTyped, PollerOff
  <1>4. (p.buffer_full \/ whole) = whole
    BY <1>1 DEF whole
  <1>5. Copied(p, data) = full
    BY <1>3, <1>4
  <1> HIDE DEF longer
  <1>6. /\ full.toggle = longer.toggle /\ full.mem = longer.mem /\ full.length = longer.length
        /\ full.poll_active = longer.poll_active /\ full.copy_active = longer.copy_active
        /\ full.buffer_full = whole /\ full.failed = longer.failed
    BY <1>2 DEF PollerTyped, PollerOff
  <1> HIDE DEF full
  <1> QED
    BY <1>1, <1>2, <1>5, <1>6 DEF Copies, whole

LEMMA StreamedFields ==
    ASSUME NEW Byte, NEW p, PollerTyped(p, Byte)
    PROVE  /\ Streamed(p).toggle = p.toggle /\ Streamed(p).copy_active = p.copy_active
           /\ Streamed(p).poll_active = p.poll_active /\ Streamed(p).failed = p.failed
           /\ Streamed(p).buffer_full => p.buffer_full
  <1>1. CASE report_last(p)
    BY <1>1 DEF Streamed, PollerTyped, PollerOff
  <1>2. CASE ~report_last(p)
    BY <1>2 DEF Streamed, PollerTyped, PollerOff
  <1> QED
    BY <1>1, <1>2

\* One cycle of a poller that is enabled: it copies its report, or a poll
\* completes, or neither.
LEMMA PollerMoves ==
    ASSUME NEW Byte, NEW p, PollerTyped(p, Byte), Exclusive(p), Spent(p),
           NEW in, in.enable, in.connected,
           in.elapsed \in BOOLEAN, in.issued \in BOOLEAN, in.done \in BOOLEAN,
           in.status \in Statuses, in.duplicate \in BOOLEAN, in.rx_length \in Nat,
           in.data \in Byte, in.ready \in BOOLEAN,
           in.issued => ~active(p) /\ ~p.buffer_full /\ ~p.failed
    PROVE  /\ p.copy_active => Copies(p, PollerNext(p, in), in.data)
           /\ p.poll_active /\ in.done =>
                Completes(p, PollerNext(p, in), in.status, in.duplicate, in.rx_length)
           /\ ~p.copy_active /\ ~(p.poll_active /\ in.done) =>
                Waits(p, PollerNext(p, in), in.issued)
  <1> DEFINE paced == Paced(p, in.issued, in.elapsed)
             polled == IF p.poll_active /\ in.done
                       THEN Completed(paced, in.status, in.duplicate, in.rx_length)
                       ELSE paced
             copied == IF p.copy_active THEN Copied(polled, in.data) ELSE polled
             streamed == IF p.buffer_full /\ in.ready THEN Streamed(copied) ELSE copied
  <1>1. CASE p.failed
    <2>1. PollerNext(p, in) = p
      BY <1>1 DEF PollerNext
    <2>2. ~in.issued /\ ~p.copy_active /\ ~p.poll_active
      BY <1>1 DEF Exclusive, active
    <2> QED
      BY <2>1, <2>2 DEF Waits
  <1>2. CASE ~p.failed
    <2>1. PollerNext(p, in) = streamed
      BY <1>2 DEF PollerNext
    <2>2. p.errors # MaxTransportErrors
      BY <1>2 DEF Spent
    <2>3. /\ PollerTyped(paced, Byte) /\ paced.errors = p.errors
          /\ paced.toggle = p.toggle /\ paced.copy_active = p.copy_active /\ paced.mem = p.mem
          /\ paced.length = p.length /\ paced.buffer_full = p.buffer_full /\ paced.failed = p.failed
          /\ paced.poll_active <=> p.poll_active \/ in.issued
      <3> DEFINE issued == in.issued
                 elapsed == in.elapsed
      <3>1. issued \in BOOLEAN /\ elapsed \in BOOLEAN
        OBVIOUS
      <3>2. paced = Paced(p, issued, elapsed)
        OBVIOUS
      <3> HIDE DEF issued, elapsed, paced
      <3>3. PollerTyped(paced, Byte) /\ paced.errors = p.errors
        <4>1. PollerTyped(Paced(p, issued, elapsed), Byte) /\ Paced(p, issued, elapsed).errors = p.errors
          BY <3>1, PacedType
        <4> QED
          BY <3>2, <4>1
      <3>4. /\ paced.toggle = p.toggle /\ paced.copy_active = p.copy_active /\ paced.mem = p.mem
            /\ paced.length = p.length /\ paced.buffer_full = p.buffer_full /\ paced.failed = p.failed
            /\ paced.poll_active <=> p.poll_active \/ issued
        BY <3>1, <3>2, PacedFields
      <3> QED
        BY <3>3, <3>4 DEF issued
    <2>4. PollerTyped(p, Byte) /\ PollerTyped(paced, Byte) /\ Exclusive(p)
      BY <2>3
    <2> HIDE DEF paced
    <2>5. ASSUME p.copy_active
          PROVE  Copies(p, PollerNext(p, in), in.data)
      <3>1. ~p.poll_active /\ ~p.buffer_full /\ ~in.issued
        BY <2>5 DEF Exclusive, active
      <3>2. streamed = Copied(paced, in.data)
        BY <2>5, <3>1
      <3>3. Exclusive(paced) /\ paced.copy_active
        BY <2>3, <2>5, <3>1, <1>2 DEF Exclusive, active
      <3>4. Copies(paced, Copied(paced, in.data), in.data)
        BY <2>4, <3>3, CopiedFields
      <3> QED
        BY <2>1, <2>3, <3>2, <3>4 DEF Copies
    <2>6. ASSUME p.poll_active, in.done
          PROVE  Completes(p, PollerNext(p, in), in.status, in.duplicate, in.rx_length)
      <3>1. ~p.copy_active /\ ~p.buffer_full /\ ~in.issued
        BY <2>6 DEF Exclusive, active
      <3>2. streamed = Completed(paced, in.status, in.duplicate, in.rx_length)
        BY <2>6, <3>1
      <3>3. Exclusive(paced) /\ paced.poll_active
        BY <2>3, <2>6, <3>1, <1>2 DEF Exclusive, active
      <3>4. Completes(paced, Completed(paced, in.status, in.duplicate, in.rx_length),
                      in.status, in.duplicate, in.rx_length)
        BY <2>4, <3>3, CompletedFields
      <3> QED
        BY <2>1, <2>3, <3>2, <3>4 DEF Completes
    <2>7. ASSUME ~p.copy_active, ~(p.poll_active /\ in.done)
          PROVE  Waits(p, PollerNext(p, in), in.issued)
      <3>1. streamed = IF p.buffer_full /\ in.ready THEN Streamed(paced) ELSE paced
        BY <2>7
      <3>2. /\ Streamed(paced).toggle = paced.toggle /\ Streamed(paced).copy_active = paced.copy_active
            /\ Streamed(paced).poll_active = paced.poll_active
            /\ Streamed(paced).failed = paced.failed
            /\ Streamed(paced).buffer_full => paced.buffer_full
        BY <2>4, StreamedFields
      <3> QED
        BY <2>1, <2>3, <2>7, <3>1, <3>2 DEF Waits
    <2> QED
      BY <2>5, <2>6, <2>7
  <1> QED
    BY <1>1, <1>2

-----------------------------------------------------------------------------
\* One cycle of a writer that is live.
Fills(w, v, flush, valid, byte, last) ==
    /\ ~v.active /\ v.toggle = w.toggle
    /\ flush => v.state = "FILL" /\ v.mem = <<>>
    /\ ~flush /\ valid =>
         /\ v.mem = Append(w.mem, byte)
         /\ v.state = IF last \/ Len(w.mem) + 1 = OutPacketSize THEN "READY" ELSE "FILL"
    /\ ~flush /\ ~valid => v.mem = w.mem /\ v.state = "FILL"
Holding(w, v, flush, issued) ==
    /\ v.toggle = w.toggle
    /\ \/ flush /\ ~v.active /\ v.state = "FILL" /\ v.mem = <<>>
       \/ issued /\ v.active /\ v.state = "SEND" /\ v.mem = w.mem
       \/ ~flush /\ ~issued /\ ~v.active /\ v.state = "READY" /\ v.mem = w.mem
Writes(w, v, done, status) ==
    IF done
    THEN /\ ~v.active
         /\ v.toggle = IF status = "SUCCESS" THEN 1 - w.toggle ELSE w.toggle
         /\ \/ v.state = "FILL" /\ v.mem = <<>>
            \/ status # "SUCCESS" /\ v.state = "READY" /\ v.mem = w.mem
    ELSE v.active = w.active /\ v.toggle = w.toggle /\ v.state = "SEND" /\ v.mem = w.mem

LEMMA FilledFields ==
    ASSUME NEW Byte, NEW w, WriterTyped(w, Byte), NEW byte \in Byte, NEW last \in BOOLEAN
    PROVE  /\ Filled(w, byte, last).active = w.active /\ Filled(w, byte, last).toggle = w.toggle
           /\ Filled(w, byte, last).mem = Append(w.mem, byte)
           /\ Filled(w, byte, last).state =
                IF last \/ Len(w.mem) + 1 = OutPacketSize THEN "READY" ELSE w.state
  <1> DEFINE mem == Append(w.mem, byte)
  <1>1. w.mem \in Seq(Byte) /\ Len(mem) = Len(w.mem) + 1
    BY DEF WriterTyped
  <1> HIDE DEF mem
  <1>2. CASE last \/ Len(mem) = OutPacketSize
    <2>1. Filled(w, byte, last) = [w EXCEPT !.mem = mem, !.attempts = 0, !.state = "READY"]
      BY <1>2 DEF Filled, mem
    <2> QED
      BY <1>1, <1>2, <2>1 DEF WriterTyped, WriterOff, mem
  <1>3. CASE ~(last \/ Len(mem) = OutPacketSize)
    <2>1. Filled(w, byte, last) = [w EXCEPT !.mem = mem]
      BY <1>3 DEF Filled, mem
    <2> QED
      BY <1>1, <1>3, <2>1 DEF WriterTyped, WriterOff, mem
  <1> QED
    BY <1>2, <1>3

LEMMA EmptiedFields ==
    ASSUME NEW Byte, NEW w, WriterTyped(w, Byte)
    PROVE  /\ Emptied(w).active = w.active /\ Emptied(w).toggle = w.toggle
           /\ Emptied(w).state = "FILL" /\ Emptied(w).mem = <<>>
  BY DEF Emptied, WriterTyped, WriterOff

LEMMA WrittenFields ==
    ASSUME NEW Byte, NEW w, WriterTyped(w, Byte), NEW status \in Statuses
    PROVE  Writes(w, Written(w, status), TRUE, status)
  <1> DEFINE idle == [w EXCEPT !.active = FALSE]
             toggled == [idle EXCEPT !.toggle = 1 - @]
  <1>1. /\ WriterTyped(idle, Byte) /\ ~idle.active /\ idle.mem = w.mem /\ idle.toggle = w.toggle
        /\ WriterTyped(toggled, Byte) /\ ~toggled.active /\ toggled.toggle = 1 - w.toggle
    BY DEF WriterTyped, WriterOff
  <1>2. Written(w, status) =
          CASE status = "SUCCESS" -> Emptied(toggled)
            [] status = "NAK" -> [idle EXCEPT !.attempts = 0, !.state = "READY"]
            [] status \in {"STALL", "DISCONNECTED"} -> Emptied(idle)
            [] OTHER -> IF w.attempts = MaxAttempts - 1
                        THEN Emptied(idle)
                        ELSE [idle EXCEPT !.attempts = @ + 1, !.state = "READY"]
    BY DEF Written
  <1> HIDE DEF idle, toggled
  <1>3. CASE status = "SUCCESS"
    BY <1>1, <1>2, <1>3, EmptiedFields DEF Writes
  <1>4. CASE status = "NAK"
    <2>1. Written(w, status) = [idle EXCEPT !.attempts = 0, !.state = "READY"]
      BY <1>2, <1>4
    <2> QED
      BY <1>1, <1>4, <2>1 DEF Writes, WriterTyped, WriterOff
  <1>5. CASE status \notin {"SUCCESS", "NAK"} /\ Written(w, status) = Emptied(idle)
    BY <1>1, <1>5, EmptiedFields DEF Writes
  <1>6. CASE status \notin {"SUCCESS", "NAK", "STALL", "DISCONNECTED"} /\ w.attempts # MaxAttempts - 1
    <2>1. Written(w, status) = [idle EXCEPT !.attempts = @ + 1, !.state = "READY"]
      BY <1>2, <1>6
    <2> QED
      BY <1>1, <1>6, <2>1 DEF Writes, WriterTyped, WriterOff
  <1> QED
    BY <1>2, <1>3, <1>4, <1>5, <1>6

\* One cycle of a writer that is live.
LEMMA WriterMoves ==
    ASSUME NEW Byte, NEW w, WriterTyped(w, Byte), w.active <=> w.state = "SEND",
           NEW in, in.live, in.flush \in BOOLEAN, in.elapsed \in BOOLEAN,
           in.valid \in BOOLEAN, in.byte \in Byte, in.last \in BOOLEAN,
           in.issued \in BOOLEAN, in.done \in BOOLEAN, in.status \in Statuses,
           in.issued => ~in.flush
    PROVE  /\ w.state = "FILL" => Fills(w, WriterNext(w, in), in.flush, in.valid, in.byte, in.last)
           /\ w.state = "READY" => Holding(w, WriterNext(w, in), in.flush, in.issued)
           /\ w.state = "SEND" => Writes(w, WriterNext(w, in), in.done, in.status)
  <1> DEFINE paced == [w EXCEPT !.due = in.elapsed \/ (@ /\ ~in.issued)]
             cleared == [paced EXCEPT !.mem = <<>>]
             sending == [paced EXCEPT !.active = TRUE, !.state = "SEND"]
             byte == in.byte
             last == in.last
             status == in.status
  <1>1. /\ WriterTyped(paced, Byte) /\ paced.active = w.active /\ paced.toggle = w.toggle
        /\ paced.mem = w.mem /\ paced.state = w.state
    BY DEF WriterTyped, WriterOff
  <1> HIDE DEF paced
  <1>2. /\ cleared.active = w.active /\ cleared.toggle = w.toggle /\ cleared.mem = <<>>
        /\ cleared.state = w.state
        /\ sending.active /\ sending.toggle = w.toggle /\ sending.mem = w.mem /\ sending.state = "SEND"
    BY <1>1 DEF WriterTyped, WriterOff
  <1> HIDE DEF cleared, sending
  <1>3. byte \in Byte /\ last \in BOOLEAN /\ status \in Statuses /\ in.byte = byte /\ in.last = last
        /\ in.status = status
    OBVIOUS
  <1> HIDE DEF byte, last, status
  <1>4. ASSUME w.state = "FILL"
        PROVE  Fills(w, WriterNext(w, in), in.flush, in.valid, in.byte, in.last)
    <2>1. CASE in.flush
      <3>1. WriterNext(w, in) = cleared
        BY <1>4, <2>1 DEF WriterNext, paced, cleared
      <3> QED
        BY <1>2, <1>4, <2>1, <3>1 DEF Fills
    <2>2. CASE ~in.flush /\ in.valid
      <3>1. WriterNext(w, in) = Filled(paced, byte, last)
        BY <1>3, <1>4, <2>2 DEF WriterNext, paced
      <3>2. /\ Filled(paced, byte, last).active = paced.active
            /\ Filled(paced, byte, last).toggle = paced.toggle
            /\ Filled(paced, byte, last).mem = Append(paced.mem, byte)
            /\ Filled(paced, byte, last).state =
                 IF last \/ Len(paced.mem) + 1 = OutPacketSize THEN "READY" ELSE paced.state
        BY <1>1, <1>3, FilledFields
      <3> QED
        BY <1>1, <1>3, <1>4, <2>2, <3>1, <3>2 DEF Fills
    <2>3. CASE ~in.flush /\ ~in.valid
      <3>1. WriterNext(w, in) = paced
        BY <1>4, <2>3 DEF WriterNext, paced
      <3> QED
        BY <1>1, <1>4, <2>3, <3>1 DEF Fills
    <2> QED
      BY <2>1, <2>2, <2>3
  <1>5. ASSUME w.state = "READY"
        PROVE  Holding(w, WriterNext(w, in), in.flush, in.issued)
    <2>1. CASE in.flush
      <3>1. WriterNext(w, in) = Emptied(paced)
        BY <1>5, <2>1 DEF WriterNext, paced
      <3>2. /\ Emptied(paced).active = paced.active /\ Emptied(paced).toggle = paced.toggle
            /\ Emptied(paced).state = "FILL" /\ Emptied(paced).mem = <<>>
        BY <1>1, EmptiedFields
      <3> QED
        BY <1>1, <1>5, <2>1, <3>1, <3>2 DEF Holding
    <2>2. CASE ~in.flush /\ in.issued
      <3>1. WriterNext(w, in) = sending
        BY <1>5, <2>2 DEF WriterNext, paced, sending
      <3> QED
        BY <1>2, <1>5, <2>2, <3>1 DEF Holding
    <2>3. CASE ~in.flush /\ ~in.issued
      <3>1. WriterNext(w, in) = paced
        BY <1>5, <2>3 DEF WriterNext, paced
      <3> QED
        BY <1>1, <1>5, <2>3, <3>1 DEF Holding
    <2> QED
      BY <2>1, <2>2, <2>3
  <1>6. ASSUME w.state = "SEND"
        PROVE  Writes(w, WriterNext(w, in), in.done, in.status)
    <2>1. CASE in.done
      <3>1. WriterNext(w, in) = Written(paced, status)
        BY <1>3, <1>6, <2>1 DEF WriterNext, paced
      <3>2. Writes(paced, Written(paced, status), TRUE, status)
        BY <1>1, <1>3, WrittenFields
      <3> QED
        BY <1>1, <1>3, <2>1, <3>1, <3>2 DEF Writes
    <2>2. CASE ~in.done
      <3>1. WriterNext(w, in) = paced
        BY <1>6, <2>2 DEF WriterNext, paced
      <3> QED
        BY <1>1, <1>6, <2>2, <3>1 DEF Writes
    <2> QED
      BY <2>1, <2>2
  <1> QED
    BY <1>4, <1>5, <1>6

-----------------------------------------------------------------------------
\* The components, with their inputs connected.
LEMMA PollersMove ==
    ASSUME IInv, PollersSound, NEW elapsed, NEW consumer, PollerCycle(elapsed, consumer),
           NEW k \in Pollers
    PROVE  /\ ~ready => poller'[k] = PollerOff
           /\ ready =>
                /\ poller[k].copy_active => Copies(poller[k], poller'[k], ReadData)
                /\ poller[k].poll_active /\ port_done(k, edone) =>
                     Completes(poller[k], poller'[k], estatus, eduplicate, rx_length)
                /\ ~poller[k].copy_active /\ ~(poller[k].poll_active /\ port_done(k, edone)) =>
                     Waits(poller[k], poller'[k], polls(k))
  <1> DEFINE in == [enable |-> ready, connected |-> connected,
                    elapsed |-> k \in elapsed, issued |-> polls(k),
                    done |-> port_done(k, edone), status |-> estatus,
                    duplicate |-> eduplicate, rx_length |-> rx_length,
                    data |-> ReadData, ready |-> k = consumer]
             p == poller[k]
  <1>1. poller'[k] = PollerNext(p, in)
    BY DEF PollerCycle
  <1>2. CASE ~ready
    BY <1>1, <1>2 DEF PollerNext
  <1>3. CASE ready
    <2>1. PollerTyped(p, Bytes) /\ Spent(p) /\ Exclusive(p)
      BY DEF IInv, HostTypeOK, PollersSound
    <2>2. polls(k) \in BOOLEAN /\ port_done(k, edone) \in BOOLEAN
      BY DEF polls, issue_poll, port_done
    <2>3. ReadData \in Bytes
      <3>1. ASSUME NEW i \in Nat \ {0}
            PROVE  (IF i <= Len(rx) THEN rx[i] ELSE Zero) \in Bytes
        BY PortAssumption DEF IInv, ResultTyped, Zero, Bytes, Sof
      <3>2. ASSUME NEW j \in Pollers PROVE Len(poller[j].mem) + 1 \in Nat \ {0}
        <4>1. poller[j].mem \in Seq(Bytes)
          BY DEF IInv, HostTypeOK, PollerTyped
        <4> QED
          BY <4>1
      <3>3. (IF mux \in Pollers THEN Len(poller[mux].mem) + 1 ELSE 1) \in Nat \ {0}
        BY <3>2
      <3> QED
        BY <3>1, <3>3 DEF ReadData
    <2>4. ready /\ connected
      BY <1>3 DEF IInv, HostTypeOK
    <2>5. /\ in.enable /\ in.connected
          /\ in.elapsed \in BOOLEAN /\ in.issued \in BOOLEAN /\ in.done \in BOOLEAN
          /\ in.status \in Statuses /\ in.duplicate \in BOOLEAN /\ in.rx_length \in Nat
          /\ in.data \in Bytes /\ in.ready \in BOOLEAN
      BY <2>2, <2>3, <2>4 DEF IInv, HostTypeOK, ResultTyped
    <2>6. in.issued => ~active(p) /\ ~p.buffer_full /\ ~p.failed
      BY DEF polls, issue_poll
    <2>7. /\ in.issued = polls(k) /\ in.done = port_done(k, edone) /\ in.status = estatus
          /\ in.duplicate = eduplicate /\ in.rx_length = rx_length /\ in.data = ReadData
      OBVIOUS
    <2> HIDE DEF in, p
    <2>8. /\ p.copy_active => Copies(p, PollerNext(p, in), in.data)
          /\ p.poll_active /\ in.done =>
               Completes(p, PollerNext(p, in), in.status, in.duplicate, in.rx_length)
          /\ ~p.copy_active /\ ~(p.poll_active /\ in.done) =>
               Waits(p, PollerNext(p, in), in.issued)
      BY <2>1, <2>5, <2>6, PollerMoves
    <2> QED
      BY <1>1, <1>3, <2>7, <2>8 DEF p
  <1> QED
    BY <1>2, <1>3

LastByte(valid) ==
    /\ valid
    /\ pc_bytes + 1 = PacketLengths[pc_packet]
    /\ PacketLengths[pc_packet] < OutPacketSize

LEMMA WriterMove ==
    ASSUME IInv, WriterSound, NEW elapsed, NEW valid \in BOOLEAN, NEW flush \in BOOLEAN,
           WriterCycle(elapsed, valid, flush)
    PROVE  /\ ~out_live => writer' = WriterOff
           /\ out_live =>
                /\ writer.state = "FILL" =>
                     Fills(writer, writer', flush, valid, <<Writer, pc_packet, pc_bytes + 1>>,
                           LastByte(valid))
                /\ writer.state = "READY" => Holding(writer, writer', flush, writes(flush))
                /\ writer.state = "SEND" => Writes(writer, writer', port_done(Writer, edone), estatus)
  <1> DEFINE in == [live |-> out_live, flush |-> flush, elapsed |-> Writer \in elapsed,
                    valid |-> valid, byte |-> <<Writer, pc_packet, pc_bytes + 1>>,
                    last |-> /\ valid
                             /\ pc_bytes + 1 = PacketLengths[pc_packet]
                             /\ PacketLengths[pc_packet] < OutPacketSize,
                    issued |-> writes(flush), done |-> port_done(Writer, edone),
                    status |-> estatus]
  <1>1. writer' = WriterNext(writer, in)
    BY DEF WriterCycle
  <1>2. CASE ~out_live
    BY <1>1, <1>2 DEF WriterNext
  <1>3. CASE out_live
    <2>1. WriterTyped(writer, Bytes) /\ (writer.active <=> writer.state = "SEND")
      BY DEF IInv, HostTypeOK, WriterSound
    <2>2. writes(flush) \in BOOLEAN /\ port_done(Writer, edone) \in BOOLEAN
      BY DEF writes, issue_write, port_done
    <2>3. <<Writer, pc_packet, pc_bytes + 1>> \in Bytes
      BY PortAssumption DEF IInv, ResultTyped, Bytes, Writer
    <2>4. /\ in.live /\ in.flush \in BOOLEAN /\ in.elapsed \in BOOLEAN
          /\ in.valid \in BOOLEAN /\ in.byte \in Bytes /\ in.last \in BOOLEAN
          /\ in.issued \in BOOLEAN /\ in.done \in BOOLEAN /\ in.status \in Statuses
      BY <1>3, <2>2, <2>3 DEF IInv, ResultTyped
    <2>5. in.issued => ~in.flush
      BY DEF writes, issue_write
    <2>6. /\ in.issued = writes(flush) /\ in.done = port_done(Writer, edone) /\ in.status = estatus
          /\ in.flush = flush /\ in.valid = valid /\ in.byte = <<Writer, pc_packet, pc_bytes + 1>>
          /\ in.last = LastByte(valid)
      BY DEF LastByte
    <2> HIDE DEF in
    <2>7. /\ writer.state = "FILL" =>
               Fills(writer, WriterNext(writer, in), in.flush, in.valid, in.byte, in.last)
          /\ writer.state = "READY" => Holding(writer, WriterNext(writer, in), in.flush, in.issued)
          /\ writer.state = "SEND" => Writes(writer, WriterNext(writer, in), in.done, in.status)
      BY <2>1, <2>4, <2>5, WriterMoves
    <2> QED
      BY <1>1, <1>3, <2>6, <2>7
  <1> QED
    BY <1>2, <1>3

-----------------------------------------------------------------------------
\* The ports are told apart by their numbers.
LEMMA PortNumbers ==
    /\ Writer \notin Pollers /\ Control \notin Pollers /\ Sof \notin Pollers
    /\ Control # Writer /\ Sof # Writer /\ Control # Sof
    /\ Ports = Pollers \cup {Writer}
  BY PortAssumption DEF Writer, Pollers, Control, Sof, Ports

\* What starts a transaction: the control engine, the scheduler, or the port
\* whose turn it is.
PortStarts(flush) == bus_free /\ selected_start(flush)
PortRequest(k) ==
    IF k = Writer
    THEN [src |-> k, in |-> FALSE, toggle |-> writer.toggle, length |-> Len(writer.mem)]
    ELSE [src |-> k, in |-> TRUE, toggle |-> poller[k].toggle, length |-> 0]

LEMMA RequestFields ==
    /\ SofTransaction.src = Sof /\ SofTransaction.in = FALSE
    /\ PortRequest(Writer).src = Writer /\ PortRequest(Writer).in = FALSE
    /\ PortRequest(Writer).toggle = writer.toggle /\ PortRequest(Writer).length = Len(writer.mem)
    /\ \A k : k # Writer => /\ PortRequest(k).src = k /\ PortRequest(k).in = TRUE
                            /\ PortRequest(k).toggle = poller[k].toggle
  <1>1. SofTransaction.src = Sof /\ SofTransaction.in = FALSE
    BY DEF SofTransaction
  <1>2. /\ PortRequest(Writer).src = Writer /\ PortRequest(Writer).in = FALSE
        /\ PortRequest(Writer).toggle = writer.toggle /\ PortRequest(Writer).length = Len(writer.mem)
    BY DEF PortRequest
  <1>3. ASSUME NEW k, k # Writer
        PROVE  /\ PortRequest(k).src = k /\ PortRequest(k).in = TRUE
               /\ PortRequest(k).toggle = poller[k].toggle
    BY <1>3 DEF PortRequest
  <1> QED
    BY <1>1, <1>2, <1>3

LEMMA ControlStarts ==
    ASSUME IInv, OwnerSound, cgrant
    PROVE  /\ connected /\ ~ebusy /\ ~bus_free /\ ~sgrant /\ ~poller_busy /\ ~owner_valid
           /\ Request.src = Control /\ Request.in = cin
  <1>1. control_phase /\ ~poller_busy /\ connected /\ ~ebusy
    BY DEF cgrant, control_grant, control_owns, cstart
  <1>2. ~bus_free /\ ~sgrant
    BY <1>1 DEF bus_free, poll_bus_free, sgrant, sof_grant
  <1>3. ~owner_valid
    BY <1>1, PortNumbers DEF OwnerSound, poller_busy, active
  <1>4. mux = Control
    BY <1>1 DEF mux, MuxPort, control_owns
  <1>5. Request.src = Control /\ Request.in = cin
    BY <1>2, <1>4, PortNumbers DEF Request
  <1> QED
    BY <1>1, <1>2, <1>3, <1>5

LEMMA SofStarts ==
    ASSUME IInv, OwnerSound, sgrant
    PROVE  /\ connected /\ ~ebusy /\ ~edone /\ ~bus_free /\ ~cgrant /\ ~owner_valid
           /\ Request = SofTransaction
  <1>1. connected /\ ~ebusy /\ ~edone /\ ~cgrant /\ ~bus_free
    BY DEF sgrant, sof_grant, sof_request, bus_free, poll_bus_free
  <1>2. ~owner_valid
    BY <1>1 DEF OwnerSound
  <1>3. Request = SofTransaction
    BY DEF Request
  <1> QED
    BY <1>1, <1>2, <1>3

LEMMA PortStartsSound ==
    ASSUME IInv, OwnerSound, NEW flush \in BOOLEAN, PortStarts(flush)
    PROVE  /\ connected /\ ready /\ ~ebusy /\ ~poller_busy /\ ~cgrant /\ ~sgrant /\ ~owner_valid
           /\ rotate \in Ports /\ Request = PortRequest(rotate)
           /\ rotate = Writer => writes(flush) /\ writer.state = "READY" /\ out_live
           /\ rotate # Writer => polls(rotate)
  <1>1. ready /\ ~ebusy /\ ~poller_busy /\ ~sof_request /\ ~control_phase
    BY DEF PortStarts, bus_free, poll_bus_free, control_phase
  <1>2. connected /\ rotate \in Ports
    BY <1>1 DEF IInv, HostTypeOK
  <1>3. ~cgrant /\ ~sgrant
    BY <1>1 DEF cgrant, control_grant, control_owns, sgrant, sof_grant
  <1>4. ~owner_valid
    BY <1>1, PortNumbers DEF OwnerSound, poller_busy, active
  <1>5. mux = rotate
    BY <1>1 DEF mux, MuxPort, control_owns
  <1>6. rotate \in Pollers <=> rotate # Writer
    BY <1>2, PortNumbers
  <1>7. Request = PortRequest(rotate)
    BY <1>3, <1>5, <1>6, PortNumbers DEF Request, PortRequest
  <1>8. /\ rotate = Writer => writes(flush) /\ writer.state = "READY" /\ out_live
        /\ rotate # Writer => polls(rotate)
    BY DEF PortStarts, selected_start, writes, issue_write
  <1> QED
    BY <1>1, <1>2, <1>3, <1>4, <1>7, <1>8

-----------------------------------------------------------------------------
\* What the engine does in a cycle.
Rests(flush) ==
    /\ ~ebusy /\ estate' = "IDLE" /\ edone' = FALSE
    /\ txn' = txn /\ rx' = rx /\ sent' = sent
    /\ ~PortStarts(flush) /\ ~cgrant /\ ~sgrant
    /\ IF connected THEN DeviceQuiet ELSE DeviceReset
Begins(flush) ==
    /\ ~ebusy /\ estate' = "TOKEN" /\ edone' = FALSE
    /\ txn' = Request /\ rx' = rx /\ sent' = <<>>
    /\ PortStarts(flush) \/ cgrant \/ sgrant
    /\ connected /\ DeviceQuiet
Aborts ==
    /\ ebusy /\ ~connected /\ DeviceReset
    /\ estate' = "IDLE" /\ edone' = TRUE /\ estatus' = "DISCONNECTED" /\ rx' = rx
Works ==
    /\ ebusy /\ connected /\ DeviceQuiet
    /\ edone' = FALSE /\ txn' = txn /\ rx' = rx
    /\ \/ UNCHANGED <<estate, sent, rx_length, packet_duplicate>>
       \/ /\ estate = "TOKEN" /\ sent' = sent
          /\ estate' = IF txn.src = Sof THEN "WAIT_SOF_DRAIN"
                       ELSE IF txn.in THEN "WAIT_RESPONSE" ELSE "SEND_DATA"
       \/ /\ estate = "SEND_DATA"
          /\ IF Len(sent) < txn.length
             THEN sent' = Append(sent, Payload(Len(sent) + 1)) /\ estate' = estate
             ELSE estate' = "WAIT_RESPONSE" /\ sent' = sent
Drains ==
    /\ estate = "WAIT_SOF_DRAIN" /\ connected /\ DeviceQuiet
    /\ estate' = "IDLE" /\ edone' = TRUE /\ rx' = rx
Answers == estate = "WAIT_RESPONSE" /\ connected /\ (AnswersIn \/ AnswersOut)

LEMMA EngineEvents ==
    ASSUME IInv, OwnerSound, NEW flush \in BOOLEAN, EngineCycle(flush)
    PROVE  Rests(flush) \/ Begins(flush) \/ Aborts \/ Works \/ Drains \/ Answers
           \/ (Acknowledges /\ connected /\ estate = "ACK")
  <1>1. ASSUME cgrant \/ sgrant \/ PortStarts(flush)
        PROVE  connected /\ ~ebusy
    BY <1>1, ControlStarts, SofStarts, PortStartsSound
  <1>2. ASSUME EngineStarts(flush), connected => DeviceQuiet, ~connected => DeviceReset
        PROVE  Rests(flush) \/ Begins(flush)
    <2>1. ~ebusy
      BY <1>2 DEF EngineStarts, EngineIdle, ebusy
    <2>2. CASE cgrant \/ sgrant \/ PortStarts(flush)
      BY <1>1, <1>2, <2>1, <2>2 DEF EngineStarts, EngineIdle, NoStrobe, Begins, PortStarts
    <2>3. CASE ~(cgrant \/ sgrant \/ PortStarts(flush))
      BY <1>2, <2>1, <2>3 DEF EngineStarts, EngineIdle, NoStrobe, Rests, PortStarts
    <2> QED
      BY <2>2, <2>3
  <1>3. CASE ~connected /\ (EngineStarts(flush) \/ EngineAbort(connected)) /\ DeviceReset
    <2>1. CASE EngineStarts(flush)
      BY <1>2, <1>3, <2>1
    <2>2. CASE EngineAbort(connected)
      BY <1>3, <2>2 DEF EngineAbort, finish, Aborts
    <2> QED
      BY <1>3, <2>1, <2>2
  <1>4. CASE /\ connected /\ DeviceQuiet /\ UNCHANGED lost
             /\ \/ EngineStarts(flush)
                \/ EngineWait(connected)
                \/ EngineToken(connected, txn.src = Sof)
                \/ EngineSendData(connected, Payload(Len(sent) + 1))
                \/ EngineSofDrain(connected)
    <2>1. CASE EngineStarts(flush)
      BY <1>2, <1>4, <2>1
    <2>2. CASE EngineWait(connected)
      BY <1>4, <2>2 DEF EngineWait, NoStrobe, Works
    <2>3. CASE EngineToken(connected, txn.src = Sof)
      BY <1>4, <2>3 DEF EngineToken, NoStrobe, Works, ebusy
    <2>4. CASE EngineSendData(connected, Payload(Len(sent) + 1))
      BY <1>4, <2>4 DEF EngineSendData, NoStrobe, Works, ebusy
    <2>5. CASE EngineSofDrain(connected)
      BY <1>4, <2>5 DEF EngineSofDrain, finish, Drains
    <2> QED
      BY <1>4, <2>1, <2>2, <2>3, <2>4, <2>5
  <1>5. CASE estate = "WAIT_RESPONSE" /\ (AnswersIn \/ AnswersOut)
    <2>1. connected
      BY <1>5 DEF AnswersIn, AnswersOut, EngineHandshake, EngineBadData, EngineData
    <2> QED
      BY <1>5, <2>1 DEF Answers
  <1>6. CASE Acknowledges
    BY <1>6 DEF Acknowledges, EngineAck
  <1> QED
    BY <1>3, <1>4, <1>5, <1>6 DEF EngineCycle

\* An answer, and the host's ACK, leave the transaction or end it.
LEMMA AnswerEvents ==
    ASSUME Answers
    PROVE  /\ ebusy
           /\ \/ estate' = "ACK" /\ edone' = FALSE /\ txn' = txn /\ txn.in /\ txn.src # Sof
              \/ estate' = "IDLE" /\ edone' = TRUE
  <1>1. ebusy
    BY DEF Answers, ebusy
  <1>2. CASE AnswersIn
    BY <1>1, <1>2, PortNumbers DEF AnswersIn, EngineHandshake, EngineBadData, EngineData, finish, NoStrobe
  <1>3. CASE AnswersOut
    BY <1>1, <1>3 DEF AnswersOut, EngineHandshake, finish
  <1> QED
    BY <1>2, <1>3 DEF Answers

\* A transaction that is under way goes on or ends with a result.
LEMMA EngineKeeps ==
    ASSUME IInv, OwnerSound, NEW flush \in BOOLEAN, EngineCycle(flush)
    PROVE  /\ ~ebusy => Rests(flush) \/ Begins(flush)
           /\ ebusy => \/ ebusy' /\ edone' = FALSE /\ txn' = txn
                       \/ ~ebusy' /\ edone' = TRUE
           /\ estate' \in EngineStates
           /\ estate' = "WAIT_SOF_DRAIN" => txn'.src = Sof
           /\ ebusy' /\ txn'.src = Sof => estate' \in {"TOKEN", "WAIT_SOF_DRAIN"}
           /\ txn'.in \in BOOLEAN \/ ~ebusy'
           /\ edone' => ~ebusy'
  <1> USE DEF EngineStates
  <1>1. estate \in EngineStates /\ (ebusy => txn.in \in BOOLEAN) /\ (estate = "WAIT_SOF_DRAIN" => txn.src = Sof)
        /\ (ebusy /\ txn.src = Sof => estate \in {"TOKEN", "WAIT_SOF_DRAIN"})
    BY DEF OwnerSound
  <1>2. CASE Rests(flush)
    BY <1>1, <1>2 DEF Rests, ebusy
  <1>3. CASE Begins(flush)
    <2>1. Request.in \in BOOLEAN
      <3>1. CASE cgrant
        BY <3>1, ControlStarts DEF IInv, HostTypeOK
      <3>2. CASE sgrant
        BY <3>2, SofStarts, RequestFields
      <3>3. CASE PortStarts(flush)
        <4>1. Request = PortRequest(rotate)
          BY <3>3, PortStartsSound
        <4>2. Request.in \in {TRUE, FALSE}
          BY <4>1, RequestFields, Zenon
        <4> QED
          BY <4>2
      <3> QED
        BY <1>3, <3>1, <3>2, <3>3 DEF Begins
    <2> QED
      BY <1>3, <2>1 DEF Begins, ebusy
  <1>4. CASE Aborts
    BY <1>4 DEF Aborts, ebusy
  <1>5. CASE Works
    <2>1. ebusy /\ estate' \in EngineStates /\ ebusy'
      BY <1>1, <1>5 DEF Works, ebusy
    <2>2. estate' = "WAIT_SOF_DRAIN" => txn'.src = Sof
      BY <1>1, <1>5 DEF Works
    <2>3. txn'.src = Sof => estate' \in {"TOKEN", "WAIT_SOF_DRAIN"}
      BY <1>1, <1>5 DEF Works
    <2> QED
      BY <1>1, <1>5, <2>1, <2>2, <2>3 DEF Works
  <1>6. CASE Drains
    BY <1>6 DEF Drains, ebusy
  <1>7. CASE Answers
    BY <1>1, <1>7, AnswerEvents DEF ebusy
  <1>8. CASE Acknowledges /\ connected /\ estate = "ACK"
    BY <1>8 DEF Acknowledges, EngineAck, finish, ebusy
  <1> QED
    BY <1>2, <1>3, <1>4, <1>5, <1>6, <1>7, <1>8, EngineEvents

LEMMA ArbiterMoves ==
    ASSUME IInv, NEW flush \in BOOLEAN, ArbiterCycle(flush)
    PROVE  /\ PortStarts(flush) => owner_valid' = TRUE /\ poller_owner' = rotate
           /\ ~PortStarts(flush) /\ owner_valid /\ edone => owner_valid' = FALSE
           /\ ~PortStarts(flush) /\ ~(owner_valid /\ edone) =>
                owner_valid' = owner_valid /\ poller_owner' = poller_owner
  BY DEF IInv, HostTypeOK, ArbiterCycle, ArbiterStep, PortStarts

\* A port at work keeps the bus.
LEMMA BusyKeeps ==
    ASSUME poller_busy, NEW flush \in BOOLEAN
    PROVE  ~PortStarts(flush) /\ ~cgrant /\ \A k \in Pollers : ~polls(k)
  BY DEF PortStarts, bus_free, poll_bus_free, cgrant, control_grant, control_owns, polls, issue_poll, granted

LEMMA PollIssued ==
    ASSUME NEW flush \in BOOLEAN, NEW k \in Pollers, polls(k)
    PROVE  PortStarts(flush) /\ rotate = k
  BY PortNumbers DEF PortStarts, selected_start, polls, issue_poll, granted

LEMMA WriteIssued ==
    ASSUME NEW flush \in BOOLEAN, writes(flush)
    PROVE  PortStarts(flush) /\ rotate = Writer
  BY DEF PortStarts, selected_start, writes, issue_write, granted

LEMMA PollersSoundKept ==
    ASSUME IInv, OwnerSound, PollersSound, NEW flush \in BOOLEAN, ArbiterCycle(flush),
           NEW elapsed, NEW consumer, PollerCycle(elapsed, consumer)
    PROVE  PollersSound'
  <1> SUFFICES ASSUME NEW k \in Pollers
               PROVE  /\ Exclusive(poller'[k])
                      /\ poller'[k].poll_active => owner_valid' /\ poller_owner' = k
                      /\ poller'[k].copy_active => ~owner_valid'
    BY DEF PollersSound
  <1> DEFINE p == poller[k]
             q == poller'[k]
  <1>1. /\ Exclusive(p) /\ (p.poll_active => owner_valid /\ poller_owner = k)
        /\ (p.copy_active => ~owner_valid)
    BY DEF PollersSound
  <1>2. CASE ~ready
    <2>1. q = PollerOff
      BY <1>2, PollersMove
    <2>2. ~q.poll_active /\ ~q.copy_active
      BY <2>1 DEF PollerOff
    <2> QED
      BY <2>2 DEF Exclusive, active
  <1>3. CASE ready /\ p.copy_active
    <2>1. Copies(p, q, ReadData)
      BY <1>3, PollersMove
    <2>2. ~q.poll_active /\ q.failed = p.failed /\ (q.copy_active => ~q.buffer_full)
      BY <2>1 DEF Copies
    <2>3. ~p.failed /\ poller_busy
      BY <1>1, <1>3 DEF Exclusive, active, poller_busy
    <2>4. ~owner_valid'
      BY <1>1, <1>3, <2>3, ArbiterMoves, BusyKeeps
    <2> HIDE DEF p, q
    <2>5. Exclusive(q)
      BY <2>2, <2>3 DEF Exclusive, active
    <2> QED
      BY <2>2, <2>4, <2>5 DEF q
  <1>4. CASE ready /\ p.poll_active /\ port_done(k, edone)
    <2>1. Completes(p, q, estatus, eduplicate, rx_length)
      BY <1>4, PollersMove
    <2>2. ~q.poll_active /\ ~q.buffer_full /\ (q.copy_active => ~q.failed)
      BY <2>1 DEF Completes
    <2>3. poller_busy
      BY <1>4 DEF active, poller_busy
    <2>4. ~owner_valid'
      BY <1>4, <2>3, ArbiterMoves, BusyKeeps DEF port_done
    <2> HIDE DEF p, q
    <2>5. Exclusive(q)
      BY <2>2 DEF Exclusive, active
    <2> QED
      BY <2>2, <2>4, <2>5 DEF q
  <1>5. CASE ready /\ ~p.copy_active /\ ~(p.poll_active /\ port_done(k, edone))
    <2>1. Waits(p, q, polls(k))
      BY <1>5, PollersMove
    <2>2. polls(k) => ~active(p) /\ ~p.failed /\ ~p.buffer_full
      BY DEF polls, issue_poll
    <2>3. q.poll_active => owner_valid' /\ poller_owner' = k
      <3>1. CASE polls(k)
        BY <3>1, PollIssued, ArbiterMoves
      <3>2. CASE p.poll_active
        <4>1. poller_busy /\ ~(owner_valid /\ edone)
          BY <1>1, <1>5, <3>2 DEF port_done, active, poller_busy
        <4> QED
          BY <1>1, <3>2, <4>1, ArbiterMoves, BusyKeeps
      <3> QED
        BY <2>1, <3>1, <3>2 DEF Waits
    <2>4. ~q.copy_active
      BY <2>1 DEF Waits
    <2>5. Exclusive(q)
      <3> HIDE DEF p, q
      <3> QED
        BY <1>1, <2>1, <2>2 DEF Waits, Exclusive, active
    <2> QED
      BY <2>3, <2>4, <2>5
  <1> QED
    BY <1>2, <1>3, <1>4, <1>5

LEMMA WriterSoundKept ==
    ASSUME IInv, OwnerSound, WriterSound, NEW flush \in BOOLEAN, ArbiterCycle(flush),
           NEW elapsed, NEW valid \in BOOLEAN, WriterCycle(elapsed, valid, flush)
    PROVE  WriterSound'
  <1>1. (writer.active <=> writer.state = "SEND")
        /\ (writer.active => owner_valid /\ poller_owner = Writer)
        /\ writer.state \in {"FILL", "READY", "SEND"}
    BY DEF WriterSound, IInv, HostTypeOK, WriterTyped
  <1>2. CASE ~out_live
    <2>1. writer' = WriterOff
      BY <1>2, WriterMove
    <2>2. ~writer'.active /\ writer'.state = "FILL"
      BY <2>1 DEF WriterOff
    <2> QED
      BY <2>2 DEF WriterSound
  <1>3. CASE out_live /\ writer.state = "FILL"
    <2>1. Fills(writer, writer', flush, valid, <<Writer, pc_packet, pc_bytes + 1>>, LastByte(valid))
      BY <1>3, WriterMove
    <2>2. ~writer'.active /\ writer'.state \in {"FILL", "READY"}
      BY <2>1 DEF Fills
    <2> QED
      BY <2>2 DEF WriterSound
  <1>4. CASE out_live /\ writer.state = "READY"
    <2>1. Holding(writer, writer', flush, writes(flush))
      BY <1>4, WriterMove
    <2>2. writes(flush) => owner_valid' /\ poller_owner' = Writer
      BY WriteIssued, ArbiterMoves
    <2>3. (writer'.active <=> writer'.state = "SEND") /\ (writer'.active => writes(flush))
      BY <2>1 DEF Holding
    <2> QED
      BY <2>2, <2>3 DEF WriterSound
  <1>5. CASE out_live /\ writer.state = "SEND"
    <2>1. Writes(writer, writer', port_done(Writer, edone), estatus)
      BY <1>5, WriterMove
    <2>2. CASE port_done(Writer, edone)
      <3>1. ~writer'.active /\ writer'.state \in {"FILL", "READY"}
        BY <2>1, <2>2 DEF Writes
      <3> QED
        BY <3>1 DEF WriterSound
    <2>3. CASE ~port_done(Writer, edone)
      <3>1. writer'.active = writer.active /\ writer'.state = "SEND"
        BY <2>1, <2>3 DEF Writes
      <3>2. poller_busy /\ ~(owner_valid /\ edone)
        BY <1>1, <1>5, <2>3 DEF port_done, poller_busy
      <3>3. owner_valid' = owner_valid /\ poller_owner' = poller_owner
        BY <3>2, ArbiterMoves, BusyKeeps
      <3> QED
        BY <1>1, <1>5, <3>1, <3>3 DEF WriterSound
    <2> QED
      BY <2>2, <2>3
  <1> QED
    BY <1>1, <1>2, <1>3, <1>4, <1>5

BusSound == OwnerSound /\ PollersSound /\ WriterSound /\ Forgotten

\* What the owner of the bus does: it starts, or it is still at work.
LEMMA OwnerAtWork ==
    ASSUME IInv, BusSound, ready, owner_valid, ~edone
    PROVE  /\ poller_busy
           /\ poller_owner = Writer => writer.state = "SEND" /\ out_live
           /\ poller_owner # Writer => poller_owner \in Pollers /\ poller[poller_owner].poll_active
  <1>1. (poller_owner = Writer /\ writer.active) \/ (poller_owner \in Pollers /\ poller[poller_owner].poll_active)
    BY DEF BusSound, OwnerSound
  <1>2. poller_busy
    BY <1>1 DEF poller_busy, active
  <1>3. poller_owner = Writer => writer.active /\ writer.state = "SEND"
    BY <1>1, PortNumbers DEF BusSound, WriterSound
  <1>4. poller_owner = Writer => out_enable
    <2>1. Fresh => ~writer.active
      BY DEF Fresh, WriterOff
    <2> QED
      BY <1>3, <2>1 DEF BusSound, Forgotten
  <1>5. connected
    BY DEF IInv, HostTypeOK
  <1> QED
    BY <1>1, <1>2, <1>3, <1>4, <1>5 DEF out_live

LEMMA OwnerSoundKept ==
    ASSUME IInv, BusSound, NEW flush \in BOOLEAN, NEW valid \in BOOLEAN,
           NEW elapsed, NEW consumer, Cycle(elapsed, consumer, valid, flush)
    PROVE  OwnerSound'
  <1>0. /\ EngineCycle(flush) /\ ArbiterCycle(flush) /\ PollerCycle(elapsed, consumer)
        /\ WriterCycle(elapsed, valid, flush) /\ ReadyCycle
    BY DEF Cycle
  <1>1. OwnerSound /\ PollersSound /\ WriterSound
    BY DEF BusSound
  <1>2. /\ ~ebusy => Rests(flush) \/ Begins(flush)
        /\ ebusy => \/ ebusy' /\ edone' = FALSE /\ txn' = txn
                    \/ ~ebusy' /\ edone' = TRUE
        /\ estate' \in EngineStates
        /\ estate' = "WAIT_SOF_DRAIN" => txn'.src = Sof
        /\ ebusy' /\ txn'.src = Sof => estate' \in {"TOKEN", "WAIT_SOF_DRAIN"}
        /\ txn'.in \in BOOLEAN \/ ~ebusy'
        /\ edone' => ~ebusy'
    BY <1>0, <1>1, EngineKeeps
  <1>3. /\ PortStarts(flush) => owner_valid' = TRUE /\ poller_owner' = rotate
        /\ ~PortStarts(flush) /\ owner_valid /\ edone => owner_valid' = FALSE
        /\ ~PortStarts(flush) /\ ~(owner_valid /\ edone) =>
             owner_valid' = owner_valid /\ poller_owner' = poller_owner
    BY <1>0, ArbiterMoves
  <1>4. PortStarts(flush) => /\ ready /\ ~ebusy /\ ~cgrant /\ ~sgrant /\ rotate \in Ports
                             /\ Request.src = rotate /\ ~owner_valid
    <2>1. \A k : PortRequest(k).src = k
      BY RequestFields
    <2> QED
      BY <1>1, <2>1, PortStartsSound
  <1>5. /\ cgrant => Request.src = Control /\ ~owner_valid /\ ~poller_busy /\ ~bus_free
        /\ sgrant => Request.src = Sof /\ ~owner_valid
    <2>1. cgrant => Request.src = Control /\ ~owner_valid /\ ~poller_busy /\ ~bus_free
      BY <1>1, ControlStarts
    <2>2. sgrant => Request.src = Sof /\ ~owner_valid
      BY <1>1, SofStarts, RequestFields
    <2> QED
      BY <2>1, <2>2
  <1>6. ~ebusy /\ ebusy' => Begins(flush)
    BY <1>2 DEF Rests, ebusy
  <1>7. owner_valid' => (ebusy' /\ txn'.src = poller_owner') \/ edone'
    <2>1. CASE PortStarts(flush)
      <3>1. Begins(flush)
        BY <1>2, <1>4, <2>1 DEF Rests
      <3> QED
        BY <1>3, <1>4, <2>1, <3>1 DEF Begins, ebusy
    <2>2. CASE ~PortStarts(flush) /\ owner_valid /\ ~edone
      <3>1. ebusy /\ txn.src = poller_owner
        BY <1>1, <2>2 DEF OwnerSound
      <3> QED
        BY <1>2, <1>3, <2>2, <3>1
    <2> QED
      BY <1>3, <2>1, <2>2
  <1>8. ~owner_valid' /\ ebusy' => txn'.src \in {Control, Sof}
    <2> SUFFICES ASSUME ~owner_valid', ebusy' PROVE txn'.src \in {Control, Sof}
      OBVIOUS
    <2>1. ~PortStarts(flush)
      BY <1>3
    <2>2. CASE ebusy
      <3>1. ~owner_valid /\ txn' = txn
        BY <1>1, <1>2, <1>3, <2>1, <2>2 DEF OwnerSound
      <3> QED
        BY <1>1, <2>2, <3>1 DEF OwnerSound
    <2>3. CASE ~ebusy
      BY <1>5, <1>6, <2>1, <2>3 DEF Begins
    <2> QED
      BY <2>2, <2>3
  <1>9. txn'.src = Control /\ ebusy' => ~poller_busy'
    <2> SUFFICES ASSUME txn'.src = Control, ebusy' PROVE ~poller_busy'
      OBVIOUS
    <2>1. ~poller_busy /\ ~PortStarts(flush)
      <3>1. CASE ebusy
        BY <1>1, <1>2, <1>4, <3>1 DEF OwnerSound
      <3>2. CASE ~ebusy
        <4>1. Begins(flush) /\ ~PortStarts(flush) /\ ~sgrant
          BY <1>4, <1>5, <1>6, <3>2, PortNumbers DEF Begins
        <4> QED
          BY <1>5, <4>1 DEF Begins
      <3> QED
        BY <3>1, <3>2
    <2>2. ASSUME NEW k \in Pollers PROVE ~active(poller'[k])
      <3>1. \E e, c : PollerCycle(e, c)
        BY <1>0
      <3>2. active(poller'[k]) => active(poller[k]) \/ polls(k)
        BY <3>1, PollersStep DEF PollerKept
      <3> QED
        BY <2>1, <3>2, PollIssued DEF poller_busy
    <2>3. ~writer'.active
      BY <1>0, <2>1, OutStep, WriteIssued DEF poller_busy
    <2> QED
      BY <2>2, <2>3 DEF poller_busy
  <1>10. owner_valid' => ready' \/ ~connected'
    <2>1. connected' /\ ~ready' => ~ready /\ (connected \/ (~ebusy /\ ~edone))
      BY <1>0 DEF ReadyCycle, IInv, HostTypeOK
    <2>2. owner_valid => (ready \/ ~connected) /\ (ebusy \/ edone)
      BY <1>1 DEF OwnerSound
    <2> QED
      BY <1>3, <1>4, <2>1, <2>2
  <1>11. ASSUME ready', owner_valid'
         PROVE  \/ poller_owner' = Writer /\ writer'.active
                \/ poller_owner' \in Pollers /\ poller'[poller_owner'].poll_active
    <2>1. CASE PortStarts(flush)
      <3>1. CASE rotate = Writer
        <4>1. writes(flush) /\ writer.state = "READY" /\ out_live
          BY <1>1, <2>1, <3>1, PortStartsSound
        <4>2. Holding(writer, writer', flush, writes(flush)) /\ ~flush
          BY <1>0, <1>1, <4>1, WriterMove DEF writes, issue_write
        <4> QED
          BY <1>3, <2>1, <3>1, <4>1, <4>2 DEF Holding
      <3>2. CASE rotate # Writer
        <4>1. polls(rotate) /\ rotate \in Pollers /\ ready
          BY <1>1, <1>4, <2>1, <3>2, PortStartsSound, PortNumbers
        <4>2. ~poller[rotate].copy_active /\ ~poller[rotate].poll_active
          BY <4>1 DEF polls, issue_poll, active
        <4>3. Waits(poller[rotate], poller'[rotate], polls(rotate))
          BY <1>0, <1>1, <4>1, <4>2, PollersMove
        <4> QED
          BY <1>3, <2>1, <4>1, <4>3 DEF Waits
      <3> QED
        BY <3>1, <3>2
    <2>2. CASE ~PortStarts(flush)
      <3>1. owner_valid /\ ~edone /\ poller_owner' = poller_owner /\ ebusy
        BY <1>1, <1>3, <1>11, <2>2 DEF OwnerSound
      <3>2. ready
        BY <1>0, <1>11, <3>1 DEF ReadyCycle, IInv, HostTypeOK
      <3>3. /\ poller_owner = Writer => writer.state = "SEND" /\ out_live
            /\ poller_owner # Writer => poller_owner \in Pollers /\ poller[poller_owner].poll_active
        BY <3>1, <3>2, OwnerAtWork
      <3>4. CASE poller_owner = Writer
        <4>1. Writes(writer, writer', port_done(Writer, edone), estatus) /\ ~port_done(Writer, edone)
          BY <1>0, <1>1, <3>1, <3>3, <3>4, WriterMove DEF port_done
        <4> QED
          BY <1>1, <3>1, <3>3, <3>4, <4>1 DEF Writes, WriterSound
      <3>5. CASE poller_owner # Writer
        <4> DEFINE k == poller_owner
        <4>1. k \in Pollers /\ poller[k].poll_active /\ ~port_done(k, edone)
          BY <3>1, <3>3, <3>5 DEF port_done
        <4>2. ~poller[k].copy_active
          BY <1>1, <4>1 DEF PollersSound, Exclusive
        <4>3. Waits(poller[k], poller'[k], polls(k))
          BY <1>0, <1>1, <3>2, <4>1, <4>2, PollersMove
        <4> QED
          BY <3>1, <4>1, <4>3 DEF Waits
      <3> QED
        BY <3>4, <3>5
    <2> QED
      BY <2>1, <2>2
  <1> QED
    BY <1>2, <1>7, <1>8, <1>9, <1>10, <1>11 DEF OwnerSound

\* Without a port's transaction the device's endpoints stay as they are.
LEMMA OthersLeaveDevice ==
    ASSUME IInv, OwnerSound, NEW flush \in BOOLEAN, EngineCycle(flush), connected,
           ebusy => txn.src \in {Control, Sof}
    PROVE  DeviceQuiet
  <1>1. ebusy => txn.src \notin Pollers /\ txn.src # Writer
    BY PortNumbers
  <1>2. CASE Answers
    <2>1. txn.src # Writer
      BY <1>1, <1>2 DEF Answers, ebusy
    <2> QED
      BY <1>2, <2>1 DEF Answers, AnswersIn, AnswersOut, TakesOut
  <1>3. CASE Acknowledges /\ connected /\ estate = "ACK"
    <2>1. txn.src \notin Pollers
      BY <1>1, <1>3 DEF ebusy
    <2> QED
      BY <1>3, <2>1 DEF Acknowledges
  <1> QED
    BY <1>2, <1>3, EngineEvents DEF Rests, Begins, Aborts, Works, Drains

LEMMA LossResets ==
    ASSUME IInv, OwnerSound, NEW flush \in BOOLEAN, EngineCycle(flush), ~connected
    PROVE  DeviceReset
  <1>1. CASE Answers
    BY <1>1 DEF Answers
  <1> QED
    BY <1>1, EngineEvents DEF Rests, Begins, Aborts, Works, Drains

LEMMA ForgottenKept ==
    ASSUME IInv, BusSound, NEW flush \in BOOLEAN, NEW valid \in BOOLEAN,
           NEW elapsed, NEW consumer, Cycle(elapsed, consumer, valid, flush)
    PROVE  Forgotten'
  <1>0. /\ EngineCycle(flush) /\ PollerCycle(elapsed, consumer) /\ WriterCycle(elapsed, valid, flush)
        /\ ReadyCycle /\ PCCycle(valid, flush) /\ HistoryCycle
    BY DEF Cycle
  <1>1. out_enable' => ready' \/ ~connected'
    BY <1>0 DEF ReadyCycle, IInv, HostTypeOK
  <1>2. ASSUME ~out_enable'
        PROVE  Fresh'
    <2>1. ~ready
      BY <1>0, <1>2 DEF ReadyCycle
    <2>2. ~out_live
      BY <2>1 DEF BusSound, Forgotten, out_live
    <2>3. poller' = [k \in Pollers |-> PollerOff]
      <3>1. \A k \in Pollers : poller'[k] = PollerOff
        BY <1>0, <2>1, PollersMove DEF BusSound
      <3> QED
        BY <1>0, <3>1 DEF PollerCycle
    <2>4. writer' = WriterOff
      BY <1>0, <2>2, WriterMove DEF BusSound
    <2>5. taken' = [k \in Pollers |-> <<>>] /\ written' = 0
      BY <1>0, <2>1 DEF HistoryCycle
    <2>6. pc_packet' = 1 /\ pc_bytes' = 0
      BY <1>0, <2>1 DEF PCCycle
    <2>7. /\ dev_report' = [k \in Pollers |-> 1] /\ dev_toggle' = [k \in Pollers |-> 0]
          /\ out_toggle' = 0 /\ accepted' = <<>>
      <3>1. CASE ~connected
        BY <1>0, <3>1, LossResets DEF BusSound, DeviceReset
      <3>2. CASE connected
        <4>1. Fresh /\ ~owner_valid
          BY <2>1, <3>2 DEF BusSound, Forgotten, OwnerSound
        <4>2. ebusy => txn.src \in {Control, Sof}
          BY <4>1 DEF BusSound, OwnerSound
        <4>3. DeviceQuiet
          BY <1>0, <3>2, <4>2, OthersLeaveDevice DEF BusSound
        <4> QED
          BY <4>1, <4>3 DEF Fresh, DeviceQuiet, deviceVars
      <3> QED
        BY <3>1, <3>2
    <2> QED
      BY <2>3, <2>4, <2>5, <2>6, <2>7 DEF Fresh
  <1> QED
    BY <1>1, <1>2 DEF Forgotten

LEMMA InitBusSound == Init => BusSound
  <1> SUFFICES ASSUME Init PROVE BusSound
    OBVIOUS
  <1>1. ~PollerOff.poll_active /\ ~PollerOff.copy_active /\ ~WriterOff.active /\ WriterOff.state = "FILL"
    BY DEF PollerOff, WriterOff
  <1>2. ~ebusy /\ estate = "IDLE" /\ edone = FALSE /\ owner_valid = FALSE
    BY DEF Init, EngineInit, ArbiterInit, ebusy
  <1>3. OwnerSound
    BY <1>2 DEF OwnerSound, EngineStates
  <1>4. PollersSound
    BY <1>1 DEF Init, PollersSound, Exclusive, active
  <1>5. WriterSound
    BY <1>1 DEF Init, WriterSound
  <1>6. Forgotten
    BY DEF Init, Forgotten, Fresh
  <1> QED
    BY <1>3, <1>4, <1>5, <1>6 DEF BusSound

LEMMA BusSoundStutters == BusSound /\ UNCHANGED vars => BusSound'
  <1> SUFFICES ASSUME BusSound, UNCHANGED vars PROVE BusSound'
    OBVIOUS
  <1> USE DEF vars, portVars, engineVars, arbiterVars, hostVars, deviceVars, historyVars
  <1>1. OwnerSound'
    BY DEF BusSound, OwnerSound, ebusy, poller_busy
  <1>2. PollersSound' /\ WriterSound'
    BY DEF BusSound, PollersSound, WriterSound
  <1>3. Forgotten'
    BY DEF BusSound, Forgotten, Fresh
  <1> QED
    BY <1>1, <1>2, <1>3 DEF BusSound

LEMMA BusSoundKept ==
    ASSUME IInv, BusSound, NEW flush \in BOOLEAN, NEW valid \in BOOLEAN,
           NEW elapsed, NEW consumer, Cycle(elapsed, consumer, valid, flush)
    PROVE  BusSound'
  <1>1. PollersSound' /\ WriterSound'
    BY PollersSoundKept, WriterSoundKept DEF BusSound, Cycle
  <1> QED
    BY <1>1, OwnerSoundKept, ForgottenKept DEF BusSound

-----------------------------------------------------------------------------
\* A report is as long as it should be, and begins with its number.
LEMMA ReportFields ==
    ASSUME NEW k \in Pollers, NEW n \in 1..Len(ReportLengths)
    PROVE  /\ ReportBytes(k, n) \in Seq(Bytes) /\ Len(ReportBytes(k, n)) = ReportLengths[n]
           /\ ReportLengths[n] \in Nat
           /\ \A i \in 1..ReportLengths[n] : ReportBytes(k, n)[i] = <<k, n, i>>
           /\ ReportLengths[n] > 0 => Number(ReportBytes(k, n)) = n
  <1>1. ReportLengths[n] \in Nat /\ k \in Nat /\ n \in Nat
    BY HostAssumption, PortAssumption DEF Pollers
  <1>2. ReportBytes(k, n) = [i \in 1..ReportLengths[n] |-> <<k, n, i>>]
    BY DEF ReportBytes
  <1>3. \A i \in 1..ReportLengths[n] : <<k, n, i>> \in Bytes
    BY <1>1 DEF Bytes
  <1>4. ReportBytes(k, n) \in Seq(Bytes) /\ Len(ReportBytes(k, n)) = ReportLengths[n]
    BY <1>1, <1>2, <1>3
  <1>5. \A i \in 1..ReportLengths[n] : ReportBytes(k, n)[i] = <<k, n, i>>
    BY <1>2
  <1>6. ASSUME ReportLengths[n] > 0 PROVE Number(ReportBytes(k, n)) = n
    <2>1. ReportBytes(k, n)[1] = <<k, n, 1>>
      BY <1>1, <1>5, <1>6
    <2> QED
      BY <2>1 DEF Number
  <1> QED
    BY <1>1, <1>4, <1>5, <1>6

\* Nothing is taken from a device that has sent nothing.
LEMMA OrderlyEmpty ==
    ASSUME NEW k
    PROVE  Orderly(k, <<>>, 0, FALSE)
  BY DEF Orderly

\* The next report arrives.
LEMMA OrderlyArrives ==
    ASSUME NEW k, NEW reports, NEW got \in Nat, Orderly(k, reports, got, FALSE)
    PROVE  Orderly(k, reports, got + 1, TRUE)
  <1>1. ASSUME NEW i \in 1..Len(reports)
        PROVE  Number(reports[i]) <= got + 1 /\ Number(reports[i]) < got + 1
    <2>1. Number(reports[i]) \in Nat /\ Number(reports[i]) <= got
      BY DEF Orderly, Deliverable
    <2> QED
      BY <2>1
  <1>2. ASSUME NEW n \in 1..(got + 1), Deliverable(n)
        PROVE  (\E j \in 1..Len(reports) : Number(reports[j]) = n) \/ n = got + 1
    BY <1>2 DEF Orderly
  <1> QED
    BY <1>1, <1>2 DEF Orderly

\* A report that does not fit is left out.
LEMMA OrderlyPasses ==
    ASSUME NEW k, NEW reports, NEW got \in Nat, Orderly(k, reports, got, TRUE), ~Deliverable(got)
    PROVE  Orderly(k, reports, got, FALSE)
  BY DEF Orderly

\* The report that has arrived is taken.
LEMMA OrderlyTakes ==
    ASSUME NEW k \in Pollers, NEW reports \in Seq(Seq(Bytes)), NEW got \in Nat,
           Orderly(k, reports, got, TRUE), Deliverable(got)
    PROVE  Orderly(k, Append(reports, ReportBytes(k, got)), got, FALSE)
  <1> DEFINE longer == Append(reports, ReportBytes(k, got))
             length == Len(reports)
  <1>1. got \in 1..Len(ReportLengths) /\ ReportLengths[got] > 0
    BY PollerAssumption, HostAssumption DEF Deliverable
  <1>2. ReportBytes(k, got) \in Seq(Bytes) /\ Number(ReportBytes(k, got)) = got
    BY <1>1, ReportFields
  <1>3. /\ length \in Nat /\ Len(longer) = length + 1
        /\ \A i \in 1..length : longer[i] = reports[i]
        /\ longer[length + 1] = ReportBytes(k, got)
    BY <1>2
  <1> HIDE DEF longer
  <1>4. \A i \in 1..length : /\ Deliverable(Number(reports[i])) /\ Number(reports[i]) \in Nat
                             /\ reports[i] = ReportBytes(k, Number(reports[i]))
                             /\ Number(reports[i]) < got
    BY DEF Orderly, Deliverable
  <1> HIDE DEF length
  <1>5. ASSUME NEW i \in 1..Len(longer)
        PROVE  /\ Deliverable(Number(longer[i]))
               /\ longer[i] = ReportBytes(k, Number(longer[i]))
               /\ Number(longer[i]) <= got
    <2>1. CASE i = length + 1
      BY <1>2, <1>3, <2>1
    <2>2. CASE i \in 1..length
      BY <1>3, <1>4, <2>2
    <2> QED
      BY <1>3, <2>1, <2>2
  <1>6. ASSUME NEW i \in 1..Len(longer), NEW j \in 1..Len(longer), i < j
        PROVE  Number(longer[i]) < Number(longer[j])
    <2>1. i \in 1..length /\ longer[i] = reports[i]
      BY <1>3, <1>6
    <2>2. CASE j = length + 1
      BY <1>2, <1>3, <1>4, <2>1, <2>2
    <2>3. CASE j \in 1..length
      BY <1>3, <1>6, <2>1, <2>3 DEF Orderly, length
    <2> QED
      BY <1>3, <2>2, <2>3
  <1>7. ASSUME NEW n \in 1..got, Deliverable(n)
        PROVE  \E j \in 1..Len(longer) : Number(longer[j]) = n
    <2>1. CASE n = got
      <3>1. length + 1 \in 1..Len(longer)
        BY <1>3
      <3> QED
        BY <1>2, <1>3, <2>1, <3>1
    <2>2. CASE n # got
      <3>1. PICK j \in 1..length : Number(reports[j]) = n
        BY <1>7, <2>2 DEF Orderly, length
      <3> QED
        BY <1>3, <3>1
    <2> QED
      BY <2>1, <2>2
  <1> QED
    BY <1>5, <1>6, <1>7 DEF Orderly, longer

\* A report that fits is taken before those that come after it.
LEMMA OrderlyHasNoGap ==
    ASSUME NEW k, NEW reports \in Seq(Seq(Bytes)), NEW got \in Nat, NEW arriving \in BOOLEAN,
           Orderly(k, reports, got, arriving),
           NEW i \in 1..Len(reports), NEW n \in 1..Number(reports[i]), Deliverable(n)
    PROVE  \E j \in 1..i : Number(reports[j]) = n
  <1>1. Number(reports[i]) \in Nat /\ Number(reports[i]) <= got
        /\ (arriving => Number(reports[i]) < got)
    BY DEF Orderly, Deliverable
  <1>2. PICK j \in 1..Len(reports) : Number(reports[j]) = n
    BY <1>1 DEF Orderly
  <1>3. ~(i < j)
    <2>1. i < j => Number(reports[i]) < Number(reports[j])
      BY DEF Orderly
    <2> QED
      BY <1>1, <1>2, <2>1
  <1> QED
    BY <1>2, <1>3

-----------------------------------------------------------------------------
\* A poller that is not at work, and does not start, has nothing on the bus.
LEMMA RestingPort ==
    ASSUME IInv, BusSound, NEW flush \in BOOLEAN, EngineCycle(flush), ArbiterCycle(flush), ready,
           NEW k \in Pollers, ~poller[k].poll_active, ~polls(k)
    PROVE  /\ dev_report'[k] = dev_report[k] /\ dev_toggle'[k] = dev_toggle[k]
           /\ ~(owner_valid /\ poller_owner = k) /\ ~(owner_valid' /\ poller_owner' = k)
           /\ ~(ebusy /\ txn.src = k) /\ ~(ebusy' /\ txn'.src = k)
  <1>0. connected /\ dev_report \in [Pollers -> Nat \ {0}]
    BY DEF IInv, HostTypeOK, ResultTyped
  <1>1. k # Writer /\ k # Control /\ k # Sof
    BY PortNumbers
  <1>2. ~(owner_valid /\ poller_owner = k)
    BY <1>1 DEF BusSound, OwnerSound
  <1>3. ~(ebusy /\ txn.src = k)
    BY <1>1, <1>2 DEF BusSound, OwnerSound
  <1>4. PortStarts(flush) => rotate # k /\ Request.src = rotate
    <2>1. \A j : PortRequest(j).src = j
      BY RequestFields
    <2>2. PortStarts(flush) => Request = PortRequest(rotate) /\ (rotate # Writer => polls(rotate))
      BY PortStartsSound DEF BusSound
    <2> QED
      BY <1>1, <2>1, <2>2
  <1>5. ~(owner_valid' /\ poller_owner' = k)
    BY <1>2, <1>4, ArbiterMoves
  <1>6. Begins(flush) => txn'.src # k
    <2>1. cgrant => Request.src = Control
      BY ControlStarts DEF BusSound
    <2>2. sgrant => Request.src = Sof
      BY SofStarts, RequestFields DEF BusSound
    <2> QED
      BY <1>1, <1>4, <2>1, <2>2 DEF Begins
  <1>7. ~(ebusy' /\ txn'.src = k)
    <2>1. /\ ~ebusy => Rests(flush) \/ Begins(flush)
          /\ ebusy => \/ ebusy' /\ edone' = FALSE /\ txn' = txn
                      \/ ~ebusy' /\ edone' = TRUE
      BY EngineKeeps DEF BusSound
    <2>2. Rests(flush) => ~ebusy'
      BY DEF Rests, ebusy
    <2> QED
      BY <1>3, <1>6, <2>1, <2>2
  <1>8. dev_report'[k] = dev_report[k] /\ dev_toggle'[k] = dev_toggle[k]
    <2>1. CASE Answers
      BY <2>1 DEF Answers, AnswersIn, AnswersOut, TakesOut, DeviceQuiet, deviceVars
    <2>2. CASE Acknowledges /\ connected /\ estate = "ACK"
      <3>1. txn.src # k
        BY <1>3, <2>2 DEF ebusy
      <3>2. CASE DeviceQuiet
        BY <3>2 DEF DeviceQuiet, deviceVars
      <3>3. CASE /\ dev_report' = [dev_report EXCEPT ![txn.src] = @ + 1]
                 /\ dev_toggle' = [dev_toggle EXCEPT ![txn.src] = 1 - @]
        BY <1>0, <3>1, <3>3
      <3> QED
        BY <2>2, <3>2, <3>3 DEF Acknowledges
    <2>3. CASE Rests(flush) \/ Begins(flush) \/ Aborts \/ Works \/ Drains
      BY <1>0, <2>3 DEF Rests, Begins, Aborts, Works, Drains, DeviceQuiet, deviceVars
    <2> QED
      BY <2>1, <2>2, <2>3, EngineEvents DEF BusSound
  <1> QED
    BY <1>2, <1>3, <1>5, <1>7, <1>8

\* While a poller copies, the engine has at most a SOF on the bus, and its
\* receive buffer stays.
LEMMA CopyingPort ==
    ASSUME IInv, BusSound, NEW flush \in BOOLEAN, EngineCycle(flush), ready,
           NEW k \in Pollers, poller[k].copy_active
    PROVE  rx' = rx /\ mux = k
  <1>1. poller_busy /\ ~owner_valid /\ poller_owner = k
    BY DEF BusSound, PollersSound, IInv, SingleOwner, poller_busy, active
  <1>2. mux = k
    BY <1>1 DEF mux, MuxPort, control_owns
  <1>3. ebusy => estate \in {"TOKEN", "WAIT_SOF_DRAIN"}
    BY <1>1 DEF BusSound, OwnerSound
  <1>4. ~Answers /\ estate # "ACK"
    BY <1>3 DEF Answers, ebusy
  <1>5. rx' = rx
    BY <1>4, EngineEvents DEF BusSound, Rests, Begins, Aborts, Works, Drains
  <1> QED
    BY <1>2, <1>5

\* A result leaves the engine at rest for the port that is to take it.
LEMMA ResultTaken ==
    ASSUME IInv, BusSound, NEW flush \in BOOLEAN, EngineCycle(flush), ready,
           NEW k \in Pollers, poller[k].poll_active, port_done(k, edone)
    PROVE  Rests(flush)
  <1>1. poller_busy /\ ~ebusy /\ edone
    BY DEF BusSound, OwnerSound, port_done, poller_busy, active
  <1>2. ~PortStarts(flush) /\ ~cgrant /\ ~sgrant
    BY <1>1, BusyKeeps DEF sgrant, sof_grant
  <1>3. ~Begins(flush)
    BY <1>2 DEF Begins
  <1> QED
    BY <1>1, <1>3, EngineKeeps DEF BusSound

-----------------------------------------------------------------------------
\* The steps of one endpoint.
LEMMA GotBounds ==
    ASSUME IInv, InTyped, NEW k \in Pollers
    PROVE  /\ poller[k].toggle \in {0, 1} /\ dev_toggle[k] \in {0, 1} /\ Expected(k) \in {0, 1}
           /\ dev_report[k] \in Nat \ {0} /\ Got(k) \in Nat
           /\ Got(k) = dev_report[k] - 1 \/ Got(k) = dev_report[k]
  <1>1. poller[k].toggle \in {0, 1} /\ dev_toggle[k] \in {0, 1} /\ dev_report[k] \in Nat \ {0}
    BY DEF IInv, HostTypeOK, PollerTyped, ResultTyped, InTyped
  <1>2. Expected(k) \in {0, 1}
    BY <1>1 DEF Expected
  <1> QED
    BY <1>1, <1>2 DEF Got

\* A host that is not ready has no port's transaction on the bus, and no good
\* result of one.
LEMMA UnreadyBus ==
    ASSUME IInv, BusSound, NEW flush \in BOOLEAN, EngineCycle(flush), ArbiterCycle(flush), ~ready
    PROVE  /\ ebusy' => txn'.src \in {Control, Sof}
           /\ ~(edone' /\ owner_valid' /\ estatus' = "SUCCESS")
  <1>1. ~PortStarts(flush)
    BY PortStartsSound DEF BusSound
  <1>2. ebusy' => txn'.src \in {Control, Sof}
    <2>1. CASE ebusy
      <3>1. ebusy' => connected /\ txn' = txn
        BY <2>1, LossResets, EngineKeeps, EngineEvents
           DEF BusSound, Rests, Begins, Aborts, Works, Drains, Answers, ebusy
      <3>2. connected => txn.src \in {Control, Sof}
        BY <2>1 DEF BusSound, OwnerSound
      <3> QED
        BY <3>1, <3>2
    <2>2. CASE ~ebusy
      <3>1. Rests(flush) \/ Begins(flush)
        BY <2>2, EngineKeeps DEF BusSound
      <3>2. Rests(flush) => ~ebusy'
        BY DEF Rests, ebusy
      <3>3. cgrant => Request.src = Control
        BY ControlStarts DEF BusSound
      <3>4. sgrant => Request.src = Sof
        BY SofStarts, RequestFields DEF BusSound
      <3> QED
        BY <1>1, <3>1, <3>2, <3>3, <3>4 DEF Begins
    <2> QED
      BY <2>1, <2>2
  <1>3. ~(edone' /\ owner_valid' /\ estatus' = "SUCCESS")
    <2> SUFFICES ASSUME edone', owner_valid' PROVE estatus' # "SUCCESS"
      OBVIOUS
    <2>1. owner_valid /\ ~edone
      BY <1>1, ArbiterMoves
    <2>2. ebusy /\ ~connected
      BY <2>1 DEF BusSound, OwnerSound
    <2>3. Aborts
      BY <2>2, EngineEvents DEF BusSound, Rests, Begins, Works, Drains, Answers
    <2> QED
      BY <2>3 DEF Aborts
  <1> QED
    BY <1>2, <1>3

LEMMA UnreadyEndpoint ==
    ASSUME IInv, BusSound, BusSound', NEW flush \in BOOLEAN, NEW valid \in BOOLEAN,
           NEW elapsed, NEW consumer, Cycle(elapsed, consumer, valid, flush),
           ~ready, NEW k \in Pollers
    PROVE  Receiving(k)' /\ Order(k)'
  <1>0. EngineCycle(flush) /\ ArbiterCycle(flush) /\ ReadyCycle
    BY DEF Cycle
  <1>1. Fresh'
    BY <1>0 DEF BusSound, Forgotten, ReadyCycle
  <1>2. poller'[k] = PollerOff /\ taken'[k] = <<>> /\ dev_report'[k] = 1 /\ dev_toggle'[k] = 0
    BY <1>1 DEF Fresh
  <1>4. ebusy' => txn'.src # k
    BY <1>0, UnreadyBus, PortNumbers
  <1>5. ~Pending(k)'
    BY <1>0, UnreadyBus DEF Pending
  <1>6. ~poller'[k].copy_active /\ poller'[k].toggle = 0
    BY <1>2 DEF PollerOff
  <1>7. Receiving(k)'
    <2>1. estate' = "ACK" => ebusy'
      BY DEF ebusy
    <2> QED
      BY <1>4, <1>5, <1>6, <2>1 DEF Receiving
  <1>8. Got(k)' = 0 /\ Arriving(k)' = FALSE
    BY <1>2, <1>5, <1>6 DEF Got, Expected, Arriving
  <1>9. Order(k)'
    BY <1>2, <1>8, OrderlyEmpty DEF Order
  <1> QED
    BY <1>7, <1>9

\* The reports taken stay as they are unless a poller's buffer becomes full.
LEMMA TakenMoves ==
    ASSUME HistoryCycle, ready, NEW k \in Pollers
    PROVE  taken'[k] = IF ~poller[k].buffer_full /\ poller'[k].buffer_full
                       THEN Append(taken[k], poller'[k].mem) ELSE taken[k]
  BY DEF HistoryCycle

\* A poller that is not at work stays so, or starts.
LEMMA RestingEndpoint ==
    ASSUME IInv, BusSound, InTyped, NEW flush \in BOOLEAN, NEW valid \in BOOLEAN,
           NEW elapsed, NEW consumer, Cycle(elapsed, consumer, valid, flush),
           ready, NEW k \in Pollers, Receiving(k), Order(k),
           ~active(poller[k])
    PROVE  Receiving(k)' /\ Order(k)'
  <1>0. EngineCycle(flush) /\ ArbiterCycle(flush) /\ PollerCycle(elapsed, consumer) /\ HistoryCycle
    BY DEF Cycle
  <1>1. ~poller[k].poll_active /\ ~poller[k].copy_active
    BY DEF active
  <1>2. Waits(poller[k], poller'[k], polls(k))
    BY <1>0, <1>1, PollersMove DEF BusSound
  <1>3. /\ poller'[k].toggle = poller[k].toggle /\ ~poller'[k].copy_active
        /\ poller'[k].buffer_full => poller[k].buffer_full
    BY <1>2 DEF Waits
  <1>4. ~(owner_valid /\ poller_owner = k)
    BY <1>1, PortNumbers DEF BusSound, OwnerSound
  <1>5. /\ dev_report'[k] = dev_report[k] /\ dev_toggle'[k] = dev_toggle[k] /\ ~Pending(k)'
        /\ ebusy' /\ txn'.src = k =>
             txn'.in /\ txn'.toggle = poller[k].toggle /\ estate' = "TOKEN"
    <2>1. CASE ~polls(k)
      BY <1>0, <1>1, <2>1, RestingPort DEF Pending
    <2>2. CASE polls(k)
      <3>1. PortStarts(flush) /\ rotate = k
        BY <2>2, PollIssued
      <3>2. ~ebusy /\ Request = PortRequest(k)
        BY <3>1, PortStartsSound DEF BusSound
      <3>3. Begins(flush)
        BY <1>0, <3>1, <3>2, EngineKeeps DEF BusSound, Rests
      <3>4. PortRequest(k).in = TRUE /\ PortRequest(k).toggle = poller[k].toggle
        BY RequestFields, PortNumbers
      <3> QED
        BY <3>2, <3>3, <3>4 DEF Begins, DeviceQuiet, deviceVars, Pending
    <2> QED
      BY <2>1, <2>2
  <1>6. ~Pending(k) /\ Arriving(k) = FALSE /\ Arriving(k)' = FALSE /\ Got(k)' = Got(k)
    BY <1>1, <1>3, <1>4, <1>5 DEF Pending, Arriving, Got, Expected
  <1>7. taken'[k] = taken[k]
    BY <1>0, <1>3, TakenMoves
  <1>8. Receiving(k)'
    <2>1. estate' = "ACK" => ebusy'
      BY DEF ebusy
    <2> QED
      BY <1>3, <1>5, <2>1 DEF Receiving
  <1>9. Order(k)'
    BY <1>6, <1>7 DEF Order
  <1> QED
    BY <1>8, <1>9

\* A poller that copies its report from the receive buffer goes on, or has it
\* whole.
LEMMA CopyingEndpoint ==
    ASSUME IInv, IInv', BusSound, InTyped, NEW flush \in BOOLEAN, NEW valid \in BOOLEAN,
           NEW elapsed, NEW consumer, Cycle(elapsed, consumer, valid, flush),
           ready, NEW k \in Pollers, Receiving(k), Order(k), poller[k].copy_active
    PROVE  Receiving(k)' /\ Order(k)'
  <1>0. EngineCycle(flush) /\ ArbiterCycle(flush) /\ PollerCycle(elapsed, consumer) /\ HistoryCycle
    BY DEF Cycle
  <1> DEFINE p == poller[k]
             q == poller'[k]
             g == Got(k)
  <1>1. ~p.poll_active /\ ~p.buffer_full /\ ~polls(k)
    BY DEF BusSound, PollersSound, Exclusive, active, polls, issue_poll
  <1>2. Copies(p, q, ReadData)
    BY <1>0, PollersMove DEF BusSound
  <1>3. /\ dev_report'[k] = dev_report[k] /\ dev_toggle'[k] = dev_toggle[k]
        /\ ~Pending(k) /\ ~Pending(k)' /\ ~(ebusy' /\ txn'.src = k)
    BY <1>0, <1>1, RestingPort DEF Pending
  <1>4. rx' = rx /\ mux = k
    BY <1>0, CopyingPort
  <1>5. /\ Holds(k, g) /\ p.length = ReportLengths[g] /\ p.length \in 1..MaxPacketSize
        /\ Len(p.mem) < p.length /\ p.mem \in Seq(Bytes) /\ p.length \in Nat
        /\ \A i \in 1..Len(p.mem) : p.mem[i] = <<k, g, i>>
    BY PollerAssumption DEF Receiving, IInv, HostTypeOK, PollerTyped
  <1>6. Got(k)' = Got(k)
    BY <1>2, <1>3 DEF Got, Expected, Copies
  <1>7. g \in 1..Len(ReportLengths) /\ rx = ReportBytes(k, g) /\ g \in Nat
    BY <1>5, GotBounds DEF Holds
  <1>8. /\ Len(rx) = p.length
        /\ \A i \in 1..p.length : rx[i] = <<k, g, i>>
    BY <1>5, <1>7, ReportFields
  <1> HIDE DEF g
  <1>9. ReadData = <<k, g, Len(p.mem) + 1>>
    <2>1. Len(p.mem) + 1 \in 1..p.length
      BY <1>5
    <2>2. ReadData = rx[Len(p.mem) + 1]
      BY <1>4, <1>8, <2>1 DEF ReadData
    <2> QED
      BY <1>8, <2>1, <2>2
  <1>10. q.mem = Append(p.mem, <<k, g, Len(p.mem) + 1>>) /\ q.mem \in Seq(Bytes)
    BY <1>2, <1>9 DEF Copies, IInv, HostTypeOK, PollerTyped
  <1> HIDE DEF p, q
  <1>11. Len(q.mem) = Len(p.mem) + 1 /\ \A i \in 1..Len(q.mem) : q.mem[i] = <<k, g, i>>
    <2>1. Len(q.mem) = Len(p.mem) + 1 /\ q.mem[Len(p.mem) + 1] = <<k, g, Len(p.mem) + 1>>
      BY <1>5, <1>10
    <2>2. \A i \in 1..Len(p.mem) : q.mem[i] = p.mem[i]
      BY <1>5, <1>10
    <2>3. ASSUME NEW i \in 1..Len(q.mem) PROVE q.mem[i] = <<k, g, i>>
      <3>1. CASE i = Len(p.mem) + 1
        BY <2>1, <3>1
      <3>2. CASE i # Len(p.mem) + 1
        <4>1. i \in 1..Len(p.mem)
          BY <1>5, <2>1, <3>2
        <4> QED
          BY <1>5, <2>2, <4>1
      <3> QED
        BY <3>1, <3>2
    <2> QED
      BY <2>1, <2>3
  <1>12. Receiving(k)'
    <2>1. estate' = "ACK" => ebusy'
      BY DEF ebusy
    <2>2. ASSUME q.copy_active
          PROVE  /\ rx' = ReportBytes(k, g) /\ q.length = ReportLengths[g]
                 /\ q.length \in 1..MaxPacketSize /\ Len(q.mem) < q.length
      <3>1. q.length = p.length /\ Len(p.mem) # p.length - 1
        BY <1>2, <2>2 DEF Copies
      <3>2. Len(p.mem) \in Nat
        BY <1>5
      <3>3. Len(q.mem) < q.length
        BY <1>5, <1>11, <3>1, <3>2
      <3> QED
        BY <1>4, <1>5, <1>7, <3>1, <3>3
    <2> QED
      BY <1>3, <1>6, <1>7, <1>11, <2>1, <2>2 DEF Receiving, g, q, Holds
  <1>13. Order(k)'
    <2>0. Orderly(k, taken[k], g, TRUE)
      BY DEF Order, Arriving, g
    <2>1. CASE Len(p.mem) # p.length - 1
      <3>1. q.copy_active /\ ~q.buffer_full
        BY <1>2, <2>1 DEF Copies
      <3>2. taken'[k] = taken[k]
        BY <1>0, <3>1, TakenMoves DEF q
      <3>3. Arriving(k)' = TRUE
        BY <3>1 DEF Arriving, q
      <3> QED
        BY <1>6, <2>0, <3>2, <3>3 DEF Order, g
    <2>2. CASE Len(p.mem) = p.length - 1
      <3>1. ~q.copy_active /\ q.buffer_full
        BY <1>2, <2>2 DEF Copies
      <3>2. taken'[k] = Append(taken[k], q.mem)
        BY <1>0, <1>1, <3>1, TakenMoves DEF p, q
      <3>3. Len(q.mem) = ReportLengths[g]
        BY <1>5, <1>11, <2>2
      <3>4. q.mem = ReportBytes(k, g)
        <4>1. /\ ReportBytes(k, g) \in Seq(Bytes) /\ Len(ReportBytes(k, g)) = ReportLengths[g]
              /\ \A i \in 1..ReportLengths[g] : ReportBytes(k, g)[i] = <<k, g, i>>
          BY <1>7, ReportFields
        <4>2. Len(q.mem) = Len(ReportBytes(k, g))
          BY <3>3, <4>1
        <4>3. \A i \in 1..Len(q.mem) : q.mem[i] = ReportBytes(k, g)[i]
          BY <1>11, <3>3, <4>1
        <4> QED
          BY <1>10, <4>1, <4>2, <4>3, SeqEqual
      <3>5. Deliverable(g) /\ taken[k] \in Seq(Seq(Bytes))
        BY <1>5, <1>7 DEF Deliverable, InTyped
      <3>6. Orderly(k, taken'[k], g, FALSE)
        BY <1>7, <2>0, <3>2, <3>4, <3>5, OrderlyTakes
      <3>7. Arriving(k)' = FALSE
        BY <1>3, <3>1 DEF Arriving, q
      <3> QED
        BY <1>6, <3>6, <3>7 DEF Order, g
    <2> QED
      BY <2>1, <2>2
  <1> QED
    BY <1>12, <1>13

\* A poll completes: a report that has arrived is copied, unless it is empty or
\* too long.
LEMMA CompletingEndpoint ==
    ASSUME IInv, BusSound, InTyped, NEW flush \in BOOLEAN, NEW valid \in BOOLEAN,
           NEW elapsed, NEW consumer, Cycle(elapsed, consumer, valid, flush),
           ready, NEW k \in Pollers, Receiving(k), Order(k),
           poller[k].poll_active, port_done(k, edone)
    PROVE  Receiving(k)' /\ Order(k)'
  <1>0. EngineCycle(flush) /\ ArbiterCycle(flush) /\ PollerCycle(elapsed, consumer) /\ HistoryCycle
    BY DEF Cycle
  <1> DEFINE p == poller[k]
             q == poller'[k]
             g == Got(k)
  <1>1. Rests(flush) /\ connected
    BY <1>0, ResultTaken DEF IInv, HostTypeOK
  <1>2. /\ rx' = rx /\ ~ebusy' /\ estate' # "ACK" /\ edone' = FALSE
        /\ dev_report'[k] = dev_report[k] /\ dev_toggle'[k] = dev_toggle[k]
    BY <1>1 DEF Rests, ebusy, DeviceQuiet, deviceVars
  <1>3. Completes(p, q, estatus, eduplicate, rx_length)
    BY <1>0, PollersMove DEF BusSound
  <1>4. ~p.copy_active
    BY DEF BusSound, PollersSound, Exclusive
  <1>5. Pending(k) <=> estatus = "SUCCESS" /\ ~eduplicate
    BY DEF Pending, port_done
  <1>6. q.toggle = Expected(k) /\ ~Pending(k)'
    BY <1>2, <1>3, <1>5 DEF Completes, Expected, Pending
  <1>7. Got(k)' = g
    BY <1>2, <1>6 DEF Got, Expected
  <1>8. /\ q.copy_active => Pending(k) /\ rx_length \in 1..MaxPacketSize /\ q.mem = <<>> /\ q.length = rx_length
        /\ Pending(k) /\ rx_length \in 1..MaxPacketSize => q.copy_active
    BY <1>3, <1>5 DEF Completes
  <1>9. Pending(k) => Holds(k, g) /\ rx_length = ReportLengths[g]
    BY DEF Receiving
  <1>10. g \in Nat
    BY GotBounds
  <1> HIDE DEF g
  <1>11. Receiving(k)'
    <2>1. ASSUME q.copy_active
          PROVE  /\ rx' = ReportBytes(k, g) /\ g \in 1..Len(ReportLengths)
                 /\ q.length = ReportLengths[g] /\ q.length \in 1..MaxPacketSize
                 /\ Len(q.mem) < q.length /\ \A i \in 1..Len(q.mem) : q.mem[i] = <<k, g, i>>
      <3>1. /\ rx' = ReportBytes(k, g) /\ g \in 1..Len(ReportLengths)
            /\ q.length = ReportLengths[g] /\ q.length \in 1..MaxPacketSize /\ q.mem = <<>>
        BY <1>2, <1>8, <1>9, <2>1 DEF Holds
      <3>2. Len(q.mem) = 0
        BY <3>1
      <3> HIDE DEF q
      <3> QED
        BY <3>1, <3>2, PollerAssumption
    <2> QED
      BY <1>2, <1>6, <1>7, <2>1 DEF Receiving, Holds, q
  <1>12. taken'[k] = taken[k]
    BY <1>0, <1>3, TakenMoves DEF Completes
  <1>13. Orderly(k, taken[k], g, Arriving(k)) /\ (Arriving(k) <=> Pending(k)) /\ (Arriving(k)' <=> q.copy_active)
    BY <1>4, <1>6 DEF Order, Arriving, g
  <1>14. Orderly(k, taken[k], g, Arriving(k)')
    <2>1. CASE Pending(k) /\ ~q.copy_active
      <3>1. ~Deliverable(g)
        BY <1>8, <1>9, <2>1 DEF Deliverable
      <3>2. Arriving(k) = TRUE /\ Arriving(k)' = FALSE
        BY <1>13, <2>1 DEF Arriving
      <3> QED
        BY <1>10, <1>13, <3>1, <3>2, OrderlyPasses
    <2>2. CASE ~(Pending(k) /\ ~q.copy_active)
      <3>1. Arriving(k) <=> Arriving(k)'
        BY <1>8, <1>13, <2>2
      <3>2. CASE Arriving(k)
        BY <1>13, <3>1, <3>2 DEF Orderly
      <3>3. CASE ~Arriving(k)
        BY <1>13, <3>1, <3>3 DEF Orderly
      <3> QED
        BY <3>2, <3>3
    <2> QED
      BY <2>1, <2>2
  <1> QED
    BY <1>7, <1>11, <1>12, <1>14 DEF Order

\* What may happen to the poll a port waits for.
LEMMA AwaitedEvents ==
    ASSUME IInv, BusSound, InTyped, NEW flush \in BOOLEAN, EngineCycle(flush),
           ready, NEW k \in Pollers, Receiving(k), ebusy, txn.src = k
    PROVE  \/ /\ dev_report'[k] = dev_report[k] /\ dev_toggle'[k] = dev_toggle[k]
              /\ edone' = FALSE /\ txn' = txn
              /\ estate' = "ACK" => estate = "ACK" /\ UNCHANGED <<rx, rx_length, packet_duplicate>>
           \/ /\ dev_report'[k] = dev_report[k] /\ dev_toggle'[k] = dev_toggle[k]
              /\ estate' = "IDLE" /\ estatus' # "SUCCESS"
           \/ /\ dev_report'[k] = dev_report[k] /\ dev_toggle'[k] = dev_toggle[k]
              /\ edone' = FALSE /\ txn' = txn
              /\ dev_report[k] \in 1..Len(ReportLengths)
              /\ packet_duplicate' <=> dev_toggle[k] # txn.toggle
              /\ ~packet_duplicate' =>
                   /\ rx' = ReportBytes(k, dev_report[k])
                   /\ rx_length' = Len(ReportBytes(k, dev_report[k]))
           \/ /\ estate = "ACK" /\ estate' = "IDLE" /\ rx' = rx /\ rx_length' = rx_length
              /\ edone' = TRUE /\ estatus' = "SUCCESS" /\ eduplicate' = packet_duplicate
              /\ \/ dev_report'[k] = dev_report[k] + 1 /\ dev_toggle'[k] = 1 - dev_toggle[k]
                 \/ dev_report'[k] = dev_report[k] /\ dev_toggle'[k] = dev_toggle[k]
  <1>0. connected /\ dev_report \in [Pollers -> Nat \ {0}] /\ dev_toggle \in [Pollers -> {0, 1}]
    BY DEF IInv, HostTypeOK, ResultTyped, InTyped
  <1>1. k # Writer /\ k # Control /\ k # Sof /\ txn.in
    BY PortNumbers DEF Receiving
  <1>2. CASE Works
    BY <1>2 DEF Works, DeviceQuiet, deviceVars
  <1>3. CASE Answers
    <2>1. AnswersIn /\ DeviceQuiet
      BY <1>1, <1>3 DEF Answers, AnswersIn, AnswersOut
    <2>2. dev_report'[k] = dev_report[k] /\ dev_toggle'[k] = dev_toggle[k]
      BY <2>1 DEF DeviceQuiet, deviceVars
    <2>3. CASE \/ EngineHandshake(connected, "NAK") \/ EngineHandshake(connected, "STALL")
               \/ EngineHandshake(connected, "TIMEOUT")
      BY <2>2, <2>3 DEF EngineHandshake, finish
    <2>4. CASE EngineBadData(connected, Junk)
      BY <2>2, <2>4 DEF EngineBadData, finish
    <2>5. CASE /\ dev_report[txn.src] <= Len(ReportLengths)
               /\ EngineData(connected, dev_toggle[txn.src], ReportBytes(txn.src, dev_report[txn.src]))
      <3>1. dev_report[k] \in 1..Len(ReportLengths)
        BY <1>0, <2>5, HostAssumption
      <3> QED
        BY <2>2, <2>5, <3>1 DEF EngineData, NoStrobe
    <2> QED
      BY <1>1, <2>1, <2>3, <2>4, <2>5 DEF AnswersIn
  <1>4. CASE Acknowledges /\ connected /\ estate = "ACK"
    <2>1. estate' = "IDLE" /\ rx' = rx /\ rx_length' = rx_length
          /\ edone' = TRUE /\ estatus' = "SUCCESS" /\ eduplicate' = packet_duplicate
      BY <1>4 DEF Acknowledges, EngineAck, finish
    <2>2. CASE /\ dev_report' = [dev_report EXCEPT ![txn.src] = @ + 1]
               /\ dev_toggle' = [dev_toggle EXCEPT ![txn.src] = 1 - @]
      BY <1>0, <1>4, <2>1, <2>2
    <2>3. CASE DeviceQuiet
      BY <1>4, <2>1, <2>3 DEF DeviceQuiet, deviceVars
    <2> QED
      BY <1>4, <2>2, <2>3 DEF Acknowledges
  <1>5. CASE Drains
    BY <1>1, <1>5 DEF Drains, BusSound, OwnerSound
  <1> QED
    BY <1>0, <1>2, <1>3, <1>4, <1>5, EngineEvents DEF BusSound, Rests, Begins, Aborts

\* A port waits for its poll, and a report arrives or does not.
LEMMA AwaitingEndpoint ==
    ASSUME IInv, BusSound, InTyped, NEW flush \in BOOLEAN, NEW valid \in BOOLEAN,
           NEW elapsed, NEW consumer, Cycle(elapsed, consumer, valid, flush),
           ready, NEW k \in Pollers, Receiving(k), Order(k),
           poller[k].poll_active, ~port_done(k, edone)
    PROVE  Receiving(k)' /\ Order(k)'
  <1>0. EngineCycle(flush) /\ ArbiterCycle(flush) /\ PollerCycle(elapsed, consumer) /\ HistoryCycle
    BY DEF Cycle
  <1>1. poller_busy /\ owner_valid /\ poller_owner = k /\ ~edone /\ ~poller[k].copy_active
    BY DEF BusSound, PollersSound, Exclusive, port_done, poller_busy, active
  <1>2. ebusy /\ txn.src = k
    BY <1>1 DEF BusSound, OwnerSound
  <1>3. owner_valid' /\ poller_owner' = k
    BY <1>0, <1>1, ArbiterMoves, BusyKeeps
  <1>4. Waits(poller[k], poller'[k], polls(k))
    BY <1>0, <1>1, PollersMove DEF BusSound
  <1>5. /\ poller'[k].toggle = poller[k].toggle /\ ~poller'[k].copy_active
        /\ taken'[k] = taken[k]
    BY <1>0, <1>4, TakenMoves DEF Waits
  <1>6. ~Pending(k) /\ Arriving(k) = FALSE /\ Expected(k) = poller[k].toggle
    BY <1>1 DEF Pending, Arriving, Expected
  <1>7. Orderly(k, taken[k], Got(k), FALSE) /\ Got(k) \in Nat
    BY <1>6, GotBounds DEF Order
  <1>8. txn.in /\ txn.toggle = poller[k].toggle
    BY <1>2 DEF Receiving
  <1>9. ASSUME dev_report'[k] = dev_report[k], dev_toggle'[k] = dev_toggle[k], ~Pending(k)'
        PROVE  Order(k)'
    <2>1. Got(k)' = Got(k) /\ Arriving(k)' = FALSE
      BY <1>5, <1>6, <1>9 DEF Got, Expected, Arriving
    <2> QED
      BY <1>5, <1>7, <2>1 DEF Order
  <1>10. CASE /\ dev_report'[k] = dev_report[k] /\ dev_toggle'[k] = dev_toggle[k]
              /\ edone' = FALSE /\ txn' = txn
              /\ estate' = "ACK" => estate = "ACK" /\ UNCHANGED <<rx, rx_length, packet_duplicate>>
    <2>1. ~Pending(k)'
      BY <1>10 DEF Pending
    <2>2. Receiving(k)'
      BY <1>2, <1>5, <1>8, <1>10, <2>1 DEF Receiving, Holds
    <2> QED
      BY <1>9, <1>10, <2>1, <2>2
  <1>11. CASE /\ dev_report'[k] = dev_report[k] /\ dev_toggle'[k] = dev_toggle[k]
              /\ estate' = "IDLE" /\ estatus' # "SUCCESS"
    <2>1. ~Pending(k)' /\ ~ebusy'
      BY <1>11 DEF Pending, ebusy
    <2>2. Receiving(k)'
      BY <1>5, <1>11, <2>1 DEF Receiving
    <2> QED
      BY <1>9, <1>11, <2>1, <2>2
  <1>12. CASE /\ dev_report'[k] = dev_report[k] /\ dev_toggle'[k] = dev_toggle[k]
              /\ edone' = FALSE /\ txn' = txn
              /\ dev_report[k] \in 1..Len(ReportLengths)
              /\ packet_duplicate' <=> dev_toggle[k] # txn.toggle
              /\ ~packet_duplicate' =>
                   /\ rx' = ReportBytes(k, dev_report[k])
                   /\ rx_length' = Len(ReportBytes(k, dev_report[k]))
    <2>1. ~Pending(k)'
      BY <1>12 DEF Pending
    <2>2. Len(ReportBytes(k, dev_report[k])) = ReportLengths[dev_report[k]]
      BY <1>12, ReportFields
    <2>3. packet_duplicate' <=> poller'[k].toggle # dev_toggle'[k]
      BY <1>5, <1>8, <1>12
    <2>4. ~packet_duplicate' => /\ rx' = ReportBytes(k, dev_report'[k])
                                /\ dev_report'[k] \in 1..Len(ReportLengths)
                                /\ rx_length' = ReportLengths[dev_report'[k]]
      BY <1>12, <2>2
    <2>5. txn'.in /\ txn'.toggle = poller'[k].toggle
      BY <1>5, <1>8, <1>12
    <2>6. Receiving(k)'
      BY <1>5, <2>1, <2>3, <2>4, <2>5 DEF Receiving, Holds
    <2> QED
      BY <1>9, <1>12, <2>1, <2>6
  <1>13. CASE /\ estate = "ACK" /\ estate' = "IDLE" /\ rx' = rx /\ rx_length' = rx_length
              /\ edone' = TRUE /\ estatus' = "SUCCESS" /\ eduplicate' = packet_duplicate
              /\ \/ dev_report'[k] = dev_report[k] + 1 /\ dev_toggle'[k] = 1 - dev_toggle[k]
                 \/ dev_report'[k] = dev_report[k] /\ dev_toggle'[k] = dev_toggle[k]
    <2>1. ~ebusy'
      BY <1>13 DEF ebusy
    <2>2. Pending(k)' <=> ~packet_duplicate
      BY <1>3, <1>13 DEF Pending
    <2>3. /\ packet_duplicate <=> poller[k].toggle # dev_toggle[k]
          /\ ~packet_duplicate => Holds(k, dev_report[k]) /\ rx_length = ReportLengths[dev_report[k]]
      BY <1>2, <1>13 DEF Receiving
    <2>4. /\ poller[k].toggle \in {0, 1} /\ dev_toggle[k] \in {0, 1} /\ dev_report[k] \in Nat \ {0}
      BY GotBounds
    <2>5. Expected(k)' = IF packet_duplicate THEN poller[k].toggle ELSE 1 - poller[k].toggle
      BY <1>5, <2>2 DEF Expected
    <2>6. Got(k)' = dev_report[k] /\ Got(k) = IF packet_duplicate THEN dev_report[k] ELSE dev_report[k] - 1
      BY <1>6, <1>13, <2>3, <2>4, <2>5 DEF Got
    <2>7. Receiving(k)'
      <3>1. Pending(k)' => /\ dev_report[k] \in 1..Len(ReportLengths)
                           /\ rx' = ReportBytes(k, dev_report[k])
                           /\ rx_length' = ReportLengths[dev_report[k]]
        BY <1>13, <2>2, <2>3 DEF Holds
      <3>2. estate' # "ACK"
        BY <1>13
      <3> QED
        BY <1>5, <2>1, <2>6, <3>1, <3>2 DEF Receiving, Holds
    <2>8. Order(k)'
      <3>1. CASE packet_duplicate
        <4>1. Arriving(k)' = FALSE /\ Got(k)' = Got(k)
          BY <1>5, <2>2, <2>6, <3>1 DEF Arriving
        <4> QED
          BY <1>5, <1>7, <4>1 DEF Order
      <3>2. CASE ~packet_duplicate
        <4>1. Arriving(k)' = TRUE /\ Got(k)' = Got(k) + 1
          BY <2>2, <2>4, <2>6, <3>2 DEF Arriving
        <4>2. Orderly(k, taken[k], Got(k) + 1, TRUE)
          BY <1>7, OrderlyArrives
        <4> QED
          BY <1>5, <4>1, <4>2 DEF Order
      <3> QED
        BY <3>1, <3>2
    <2> QED
      BY <2>7, <2>8
  <1> QED
    BY <1>0, <1>2, <1>10, <1>11, <1>12, <1>13, AwaitedEvents

LEMMA InTypedKept ==
    ASSUME IInv, IInv', BusSound, InTyped, NEW flush \in BOOLEAN, NEW valid \in BOOLEAN,
           NEW elapsed, NEW consumer, Cycle(elapsed, consumer, valid, flush)
    PROVE  InTyped'
  <1>0. EngineCycle(flush) /\ HistoryCycle
    BY DEF Cycle
  <1>1. taken' \in [Pollers -> Seq(Seq(Bytes))]
    <2>1. \A k \in Pollers : poller'[k].mem \in Seq(Bytes) /\ taken[k] \in Seq(Seq(Bytes))
      BY DEF IInv, HostTypeOK, PollerTyped, InTyped
    <2>2. \A k \in Pollers : Append(taken[k], poller'[k].mem) \in Seq(Seq(Bytes))
      BY <2>1, AppendProperties
    <2>3. <<>> \in Seq(Seq(Bytes))
      OBVIOUS
    <2> QED
      BY <1>0, <2>1, <2>2, <2>3 DEF HistoryCycle
  <1>2. dev_toggle' \in [Pollers -> {0, 1}]
    <2>1. CASE dev_toggle' = [dev_toggle EXCEPT ![txn.src] = 1 - @]
      <3>1. \A k \in Pollers : dev_toggle[k] \in {0, 1} /\ 1 - dev_toggle[k] \in {0, 1}
        BY DEF InTyped
      <3>2. \A k \in Pollers :
              dev_toggle'[k] = IF k = txn.src THEN 1 - dev_toggle[k] ELSE dev_toggle[k]
        BY <2>1 DEF InTyped
      <3>3. dev_toggle' = [k \in Pollers |-> dev_toggle'[k]]
        BY <2>1 DEF InTyped
      <3>4. \A k \in Pollers : dev_toggle'[k] \in {0, 1}
        BY <3>1, <3>2
      <3> QED
        BY <3>3, <3>4
    <2>2. CASE dev_toggle' = [k \in Pollers |-> 0] \/ dev_toggle' = dev_toggle
      BY <2>2 DEF InTyped
    <2>3. CASE Answers
      <3>1. dev_toggle' = dev_toggle
        BY <2>3 DEF Answers, AnswersIn, AnswersOut, TakesOut, DeviceQuiet, deviceVars
      <3> QED
        BY <2>2, <3>1
    <2>4. CASE Acknowledges
      BY <2>1, <2>2, <2>4 DEF Acknowledges, DeviceQuiet, deviceVars
    <2>5. CASE Rests(flush) \/ Begins(flush) \/ Aborts \/ Works \/ Drains
      BY <2>2, <2>5 DEF Rests, Begins, Aborts, Works, Drains, DeviceQuiet, DeviceReset, deviceVars
    <2> QED
      BY <1>0, <2>3, <2>4, <2>5, EngineEvents DEF BusSound
  <1> QED
    BY <1>1, <1>2 DEF InTyped

LEMMA InInvKept ==
    ASSUME IInv, IInv', BusSound, BusSound', InInv, NEW flush \in BOOLEAN, NEW valid \in BOOLEAN,
           NEW elapsed, NEW consumer, Cycle(elapsed, consumer, valid, flush)
    PROVE  InInv'
  <1>1. InTyped /\ InTyped'
    BY InTypedKept DEF InInv
  <1>2. ASSUME NEW k \in Pollers
        PROVE  Receiving(k)' /\ Order(k)'
    <2>0. Receiving(k) /\ Order(k)
      BY DEF InInv
    <2>1. CASE ~ready
      BY <2>1, UnreadyEndpoint
    <2>2. CASE ready /\ ~active(poller[k])
      BY <1>1, <2>0, <2>2, RestingEndpoint
    <2>3. CASE ready /\ poller[k].copy_active
      BY <1>1, <2>0, <2>3, CopyingEndpoint
    <2>4. CASE ready /\ poller[k].poll_active /\ port_done(k, edone)
      BY <1>1, <2>0, <2>4, CompletingEndpoint
    <2>5. CASE ready /\ poller[k].poll_active /\ ~port_done(k, edone)
      BY <1>1, <2>0, <2>5, AwaitingEndpoint
    <2> QED
      BY <2>1, <2>2, <2>3, <2>4, <2>5 DEF active
  <1> QED
    BY <1>1, <1>2 DEF InInv

LEMMA InitInInv == Init => InInv
  <1> SUFFICES ASSUME Init PROVE InInv
    OBVIOUS
  <1>1. InTyped
    BY DEF Init, InTyped
  <1>2. ASSUME NEW k \in Pollers PROVE Receiving(k) /\ Order(k)
    <2>1. poller[k] = PollerOff /\ taken[k] = <<>> /\ dev_report[k] = 1 /\ dev_toggle[k] = 0
      BY DEF Init
    <2>2. ~poller[k].copy_active /\ poller[k].toggle = 0
      BY <2>1 DEF PollerOff
    <2>3. ~ebusy /\ estate # "ACK" /\ ~edone
      BY DEF Init, EngineInit, ebusy
    <2>4. ~Pending(k)
      BY <2>3 DEF Pending
    <2>5. Receiving(k)
      BY <2>2, <2>3, <2>4 DEF Receiving
    <2>6. Got(k) = 0 /\ Arriving(k) = FALSE
      BY <2>1, <2>2, <2>4 DEF Got, Expected, Arriving
    <2>7. Order(k)
      BY <2>1, <2>6, OrderlyEmpty DEF Order
    <2> QED
      BY <2>5, <2>7
  <1> QED
    BY <1>1, <1>2 DEF InInv

LEMMA InInvStutters == InInv /\ UNCHANGED vars => InInv'
  <1> SUFFICES ASSUME InInv, UNCHANGED vars PROVE InInv'
    OBVIOUS
  <1> USE DEF vars, portVars, engineVars, arbiterVars, hostVars, deviceVars, historyVars
  <1>1. InTyped'
    BY DEF InInv, InTyped
  <1>2. ASSUME NEW k \in Pollers PROVE Receiving(k)' /\ Order(k)'
    <2>1. Pending(k)' = Pending(k)
      BY DEF Pending
    <2>2. Expected(k)' = Expected(k)
      BY <2>1 DEF Expected
    <2>3. Got(k)' = Got(k)
      BY <2>2 DEF Got
    <2>4. Arriving(k)' = Arriving(k)
      BY <2>1 DEF Arriving
    <2>5. Order(k)'
      BY <2>3, <2>4 DEF InInv, Order
    <2>6. Receiving(k)'
      BY <2>1, <2>3 DEF InInv, Receiving, Holds, ebusy
    <2> QED
      BY <2>5, <2>6
  <1> QED
    BY <1>1, <1>2 DEF InInv

LEMMA InInvImplies == IInv /\ InInv => InOrderOnce
  <1> SUFFICES ASSUME IInv, InInv, NEW k \in Pollers PROVE TakenInOrder(k) /\ NoneLost(k)
    BY DEF InOrderOnce
  <1>1. /\ Orderly(k, taken[k], Got(k), Arriving(k)) /\ taken[k] \in Seq(Seq(Bytes))
        /\ Arriving(k) \in BOOLEAN /\ Got(k) \in Nat /\ dev_report[k] \in Nat \ {0}
        /\ Got(k) = dev_report[k] - 1 \/ Got(k) = dev_report[k]
    BY GotBounds DEF InInv, InTyped, Order, Arriving, Pending, IInv, ResultTyped, HostTypeOK, PollerTyped
  <1>2. TakenInOrder(k)
    <2>1. ASSUME NEW i \in 1..Len(taken[k]), NEW n \in 1..Number(taken[k][i]), Deliverable(n)
          PROVE  \E j \in 1..i : Number(taken[k][j]) = n
      <3> DEFINE reports == taken[k]
                 got == Got(k)
                 arriving == Arriving(k)
      <3>1. /\ Orderly(k, reports, got, arriving) /\ reports \in Seq(Seq(Bytes))
            /\ arriving \in BOOLEAN /\ got \in Nat
            /\ i \in 1..Len(reports) /\ n \in 1..Number(reports[i])
        BY <1>1
      <3> HIDE DEF reports, got, arriving
      <3>2. \E j \in 1..i : Number(reports[j]) = n
        BY <2>1, <3>1, OrderlyHasNoGap
      <3> QED
        BY <3>2 DEF reports
    <2> QED
      BY <1>1, <2>1 DEF TakenInOrder, Orderly
  <1>3. NoneLost(k)
    <2> SUFFICES ASSUME ready, ~(owner_valid /\ edone),
                        NEW n \in 1..(dev_report[k] - 1), Deliverable(n)
                 PROVE  \/ \E j \in 1..Len(taken[k]) : Number(taken[k][j]) = n
                        \/ poller[k].copy_active /\ n = dev_report[k] - 1
      BY DEF NoneLost
    <2>1. ~Pending(k) /\ (Arriving(k) <=> poller[k].copy_active)
      BY DEF Pending, Arriving
    <2>2. n \in 1..Got(k) /\ (n = Got(k) => n = dev_report[k] - 1)
      BY <1>1
    <2> QED
      BY <1>1, <2>1, <2>2 DEF Orderly
  <1> QED
    BY <1>2, <1>3

LEMMA NextIn == IInv /\ BusSound /\ InInv /\ [Next]_vars => (IInv /\ BusSound /\ InInv)'
  <1> SUFFICES ASSUME IInv, BusSound, InInv, [Next]_vars PROVE (IInv /\ BusSound /\ InInv)'
    OBVIOUS
  <1>1. IInv'
    BY NextIInv
  <1>2. CASE Next
    <2>1. PICK elapsed \in SUBSET Elapsing, consumer \in Consumers,
               valid \in BOOLEAN, flush \in BOOLEAN : Cycle(elapsed, consumer, valid, flush)
      BY <1>2 DEF Next
    <2>2. BusSound'
      BY <2>1, BusSoundKept
    <2> QED
      BY <1>1, <2>1, <2>2, InInvKept
  <1>3. CASE UNCHANGED vars
    BY <1>1, <1>3, BusSoundStutters, InInvStutters
  <1> QED
    BY <1>2, <1>3

\* poller.py, behind host.py's arbiter: for any number of endpoints, reports of
\* any lengths and any losses on the bus, each poller hands on the device's
\* reports whole, in the device's order and none twice, and leaves none out that
\* fits; one the device has moved on from is taken, or being copied out.
THEOREM ReportsInOrderOnce == Spec => []InOrderOnce
  <1>1. Init => IInv /\ BusSound /\ InInv
    BY InitIInv, InitBusSound, InitInInv
  <1>2. IInv /\ BusSound /\ InInv => InOrderOnce
    BY InInvImplies
  <1> QED
    BY <1>1, <1>2, NextIn, PTL DEF Spec

-----------------------------------------------------------------------------
\* Packets begin with their numbers.
LEMMA PacketFields ==
    ASSUME NEW n \in 1..Len(PacketLengths)
    PROVE  /\ PacketBytes(n) \in Seq(Bytes) /\ Len(PacketBytes(n)) = PacketLengths[n]
           /\ PacketLengths[n] \in 1..OutPacketSize /\ PacketLengths[n] \in Nat
           /\ \A i \in 1..PacketLengths[n] : PacketBytes(n)[i] = <<Writer, n, i>>
           /\ Number(PacketBytes(n)) = n
  <1>1. PacketLengths[n] \in 1..OutPacketSize /\ PacketLengths[n] \in Nat /\ Writer \in Nat /\ n \in Nat
    BY HostAssumption, WriterAssumption, PortAssumption DEF Writer
  <1>2. PacketBytes(n) = [i \in 1..PacketLengths[n] |-> <<Writer, n, i>>]
    BY DEF PacketBytes
  <1>3. \A i \in 1..PacketLengths[n] : <<Writer, n, i>> \in Bytes
    BY <1>1 DEF Bytes
  <1>4. PacketBytes(n) \in Seq(Bytes) /\ Len(PacketBytes(n)) = PacketLengths[n]
    <2> DEFINE length == PacketLengths[n]
               packet == PacketBytes(n)
    <2>1. length \in Nat /\ packet = [i \in 1..length |-> <<Writer, n, i>>]
      BY <1>1, <1>2
    <2>2. \A i \in 1..length : <<Writer, n, i>> \in Bytes
      BY <1>3
    <2> HIDE DEF length, packet
    <2>3. packet \in Seq(Bytes)
      BY <2>1, <2>2
    <2>4. Len(packet) = length
      BY <2>1
    <2> QED
      BY <2>3, <2>4 DEF length, packet
  <1>5. \A i \in 1..PacketLengths[n] : PacketBytes(n)[i] = <<Writer, n, i>>
    BY <1>2
  <1>6. Number(PacketBytes(n)) = n
    <2>1. PacketBytes(n)[1] = <<Writer, n, 1>>
      BY <1>1, <1>5
    <2> QED
      BY <2>1 DEF Number
  <1> QED
    BY <1>1, <1>4, <1>5, <1>6

LEMMA OrdersEmpty ==
    ASSUME NEW next
    PROVE  Orders(<<>>, next)
  BY DEF Orders

LEMMA OrdersLater ==
    ASSUME NEW packets, NEW m \in Nat, NEW n \in Nat, m <= n, Orders(packets, m)
    PROVE  Orders(packets, n)
  BY DEF Orders

LEMMA OrdersTakes ==
    ASSUME NEW packets \in Seq(Seq(Bytes)), NEW n \in 1..Len(PacketLengths), Orders(packets, n)
    PROVE  Orders(Append(packets, PacketBytes(n)), n + 1)
  <1> DEFINE longer == Append(packets, PacketBytes(n))
             length == Len(packets)
  <1>1. PacketBytes(n) \in Seq(Bytes) /\ Number(PacketBytes(n)) = n /\ n \in Nat
    BY PacketFields
  <1>2. /\ length \in Nat /\ Len(longer) = length + 1
        /\ \A i \in 1..length : longer[i] = packets[i]
        /\ longer[length + 1] = PacketBytes(n)
    BY <1>1
  <1> HIDE DEF longer
  <1>3. \A i \in 1..length : /\ Number(packets[i]) \in 1..Len(PacketLengths)
                             /\ packets[i] = PacketBytes(Number(packets[i]))
                             /\ Number(packets[i]) \in Nat /\ Number(packets[i]) < n
    BY DEF Orders
  <1> HIDE DEF length
  <1>4. ASSUME NEW i \in 1..Len(longer)
        PROVE  /\ Number(longer[i]) \in 1..Len(PacketLengths)
               /\ longer[i] = PacketBytes(Number(longer[i]))
               /\ Number(longer[i]) < n + 1
    <2>1. CASE i = length + 1
      BY <1>1, <1>2, <2>1
    <2>2. CASE i \in 1..length
      BY <1>1, <1>2, <1>3, <2>2
    <2> QED
      BY <1>2, <2>1, <2>2
  <1>5. ASSUME NEW i \in 1..Len(longer), NEW j \in 1..Len(longer), i < j
        PROVE  Number(longer[i]) < Number(longer[j])
    <2>1. i \in 1..length /\ longer[i] = packets[i]
      BY <1>2, <1>5
    <2>2. CASE j = length + 1
      BY <1>1, <1>2, <1>3, <2>1, <2>2
    <2>3. CASE j \in 1..length
      BY <1>2, <1>5, <2>1, <2>3 DEF Orders, length
    <2> QED
      BY <1>2, <2>2, <2>3
  <1> QED
    BY <1>4, <1>5 DEF Orders, longer

\* A writer that is not at work, and does not start, has nothing on the bus.
LEMMA RestingWriter ==
    ASSUME IInv, BusSound, NEW flush \in BOOLEAN, EngineCycle(flush), ArbiterCycle(flush), ready,
           ~writer.active, ~writes(flush)
    PROVE  /\ accepted' = accepted /\ out_toggle' = out_toggle
           /\ ~(owner_valid /\ poller_owner = Writer) /\ ~(owner_valid' /\ poller_owner' = Writer)
           /\ ~(ebusy /\ txn.src = Writer) /\ ~(ebusy' /\ txn'.src = Writer)
  <1>0. connected
    BY DEF IInv, HostTypeOK
  <1>1. Writer \notin Pollers /\ Writer # Control /\ Writer # Sof
    BY PortNumbers
  <1>2. ~(owner_valid /\ poller_owner = Writer)
    BY <1>1 DEF BusSound, OwnerSound
  <1>3. ~(ebusy /\ txn.src = Writer)
    BY <1>1, <1>2 DEF BusSound, OwnerSound
  <1>4. PortStarts(flush) => rotate # Writer /\ Request.src = rotate
    <2>1. \A j : PortRequest(j).src = j
      BY RequestFields
    <2>2. PortStarts(flush) => Request = PortRequest(rotate) /\ (rotate = Writer => writes(flush))
      BY PortStartsSound DEF BusSound
    <2> QED
      BY <2>1, <2>2
  <1>5. ~(owner_valid' /\ poller_owner' = Writer)
    BY <1>2, <1>4, ArbiterMoves
  <1>6. Begins(flush) => txn'.src # Writer
    <2>1. cgrant => Request.src = Control
      BY ControlStarts DEF BusSound
    <2>2. sgrant => Request.src = Sof
      BY SofStarts, RequestFields DEF BusSound
    <2> QED
      BY <1>1, <1>4, <2>1, <2>2 DEF Begins
  <1>7. ~(ebusy' /\ txn'.src = Writer)
    <2>1. /\ ~ebusy => Rests(flush) \/ Begins(flush)
          /\ ebusy => \/ ebusy' /\ edone' = FALSE /\ txn' = txn
                      \/ ~ebusy' /\ edone' = TRUE
      BY EngineKeeps DEF BusSound
    <2>2. Rests(flush) => ~ebusy'
      BY DEF Rests, ebusy
    <2> QED
      BY <1>3, <1>6, <2>1, <2>2
  <1>8. accepted' = accepted /\ out_toggle' = out_toggle
    <2>1. CASE Answers
      <3>1. txn.src # Writer
        BY <1>3, <2>1 DEF Answers, ebusy
      <3> QED
        BY <2>1, <3>1 DEF Answers, AnswersIn, AnswersOut, TakesOut, DeviceQuiet, deviceVars
    <2>2. CASE Acknowledges
      BY <2>2 DEF Acknowledges, DeviceQuiet, deviceVars
    <2>3. CASE Rests(flush) \/ Begins(flush) \/ Aborts \/ Works \/ Drains
      BY <1>0, <2>3 DEF Rests, Begins, Aborts, Works, Drains, DeviceQuiet, deviceVars
    <2> QED
      BY <2>1, <2>2, <2>3, EngineEvents DEF BusSound
  <1> QED
    BY <1>2, <1>3, <1>5, <1>7, <1>8

-----------------------------------------------------------------------------
\* The steps of the writer.
LEMMA OutLive ==
    ASSUME IInv, BusSound
    PROVE  /\ out_live => ready /\ connected
           /\ ready /\ ~out_live => Fresh
           /\ writer.state \in {"FILL", "READY", "SEND"} /\ writer.mem \in Seq(Bytes)
           /\ writer.toggle \in {0, 1} /\ (writer.active <=> writer.state = "SEND")
           /\ pc_packet \in Nat /\ pc_bytes \in Nat
  BY DEF IInv, HostTypeOK, ResultTyped, WriterTyped, BusSound, Forgotten, WriterSound, out_live

\* Nothing of an earlier device is left for the next.
LEMMA FreshWriter ==
    ASSUME writer' = WriterOff, accepted' = <<>>, out_toggle' = 0, written' = 0,
           pc_packet' = 1, pc_bytes' = 0,
           ~(ebusy' /\ txn'.src = Writer),
           ~(edone' /\ owner_valid' /\ poller_owner' = Writer /\ estatus' = "SUCCESS")
    PROVE  OutInv'
  <1>1. writer'.state = "FILL" /\ writer'.mem = <<>> /\ writer'.toggle = 0
    BY DEF WriterOff
  <1>2. OutTyped'
    BY DEF OutTyped
  <1>3. Filling' /\ Full'
    BY <1>1 DEF Filling, Full
  <1>4. Sending'
    BY DEF Sending
  <1>5. AcceptedSound'
    BY <1>1, OrdersEmpty DEF AcceptedSound
  <1>6. Counted'
    BY <1>1 DEF Counted
  <1> QED
    BY <1>2, <1>3, <1>4, <1>5, <1>6 DEF OutInv

LEMMA UnreadyWriter ==
    ASSUME IInv, BusSound, BusSound', NEW flush \in BOOLEAN, NEW valid \in BOOLEAN,
           NEW elapsed, NEW consumer, Cycle(elapsed, consumer, valid, flush), ~ready
    PROVE  OutInv'
  <1>0. EngineCycle(flush) /\ ArbiterCycle(flush) /\ ReadyCycle
    BY DEF Cycle
  <1>1. Fresh'
    BY <1>0 DEF BusSound, Forgotten, ReadyCycle
  <1>2. ~(ebusy' /\ txn'.src = Writer) /\ ~(edone' /\ owner_valid' /\ estatus' = "SUCCESS")
    BY <1>0, UnreadyBus, PortNumbers
  <1> QED
    BY <1>1, <1>2, FreshWriter DEF Fresh

\* The cycle in which the writer is not yet enabled.
LEMMA DormantWriter ==
    ASSUME IInv, BusSound, NEW flush \in BOOLEAN, NEW valid \in BOOLEAN,
           NEW elapsed, NEW consumer, Cycle(elapsed, consumer, valid, flush),
           valid => out_enable, ready, ~out_live
    PROVE  OutInv'
  <1>0. /\ EngineCycle(flush) /\ ArbiterCycle(flush) /\ WriterCycle(elapsed, valid, flush)
        /\ PCCycle(valid, flush) /\ HistoryCycle
    BY DEF Cycle
  <1>1. Fresh
    BY OutLive
  <1>2. writer.state = "FILL" /\ ~writer.active /\ ~writes(flush)
    BY <1>1 DEF Fresh, WriterOff, writes, issue_write
  <1>3. /\ accepted' = <<>> /\ out_toggle' = 0
        /\ ~(owner_valid' /\ poller_owner' = Writer) /\ ~(ebusy' /\ txn'.src = Writer)
    BY <1>0, <1>1, <1>2, RestingWriter DEF Fresh
  <1>4. writer' = WriterOff
    BY <1>0, WriterMove DEF BusSound
  <1>5. pc_packet' = 1 /\ pc_bytes' = 0
    <2>1. ~valid
      BY DEF out_live, IInv, HostTypeOK
    <2> QED
      BY <1>0, <1>1, <2>1 DEF PCCycle, Fresh
  <1>6. written' = 0
    BY <1>0, <1>1, <1>2 DEF HistoryCycle, Fresh
  <1> QED
    BY <1>3, <1>4, <1>5, <1>6, FreshWriter

\* The packet in the writer's memory grows, is complete, or is flushed.
LEMMA FillingWriter ==
    ASSUME IInv, BusSound, OutInv, NEW flush \in BOOLEAN, NEW valid \in BOOLEAN,
           NEW elapsed, NEW consumer, Cycle(elapsed, consumer, valid, flush),
           valid => pc_packet <= Len(PacketLengths), out_live, writer.state = "FILL"
    PROVE  OutInv'
  <1>0. /\ EngineCycle(flush) /\ ArbiterCycle(flush) /\ WriterCycle(elapsed, valid, flush)
        /\ PCCycle(valid, flush) /\ HistoryCycle
    BY DEF Cycle
  <1>1. /\ ready /\ writer.mem \in Seq(Bytes) /\ pc_packet \in Nat /\ pc_bytes \in Nat
        /\ ~writer.active /\ writer.toggle \in {0, 1}
    BY OutLive
  <1>2. ~writes(flush)
    BY DEF writes, issue_write
  <1>3. /\ accepted' = accepted /\ out_toggle' = out_toggle
        /\ ~(owner_valid' /\ poller_owner' = Writer) /\ ~(ebusy' /\ txn'.src = Writer)
    BY <1>0, <1>1, <1>2, RestingWriter
  <1>4. Fills(writer, writer', flush, valid, <<Writer, pc_packet, pc_bytes + 1>>, LastByte(valid))
    BY <1>0, WriterMove DEF BusSound
  <1>5. written' = written /\ writer'.toggle = writer.toggle
    BY <1>0, <1>1, <1>4 DEF HistoryCycle, Fills
  <1>6. OutTyped' /\ Sending' /\ Counted'
    <2>1. pc_packet' \in Nat \ {0}
      <3>1. pc_packet' = pc_packet \/ pc_packet' = pc_packet + 1
        BY <1>0, <1>1 DEF PCCycle
      <3> QED
        BY <3>1 DEF OutInv, OutTyped
    <2> QED
      BY <1>3, <1>5, <2>1 DEF OutInv, OutTyped, Sending, Counted
  <1>7. writer.mem = [i \in 1..pc_bytes |-> <<Writer, pc_packet, i>>]
        /\ (pc_bytes > 0 => pc_packet <= Len(PacketLengths) /\ pc_bytes < PacketLengths[pc_packet])
    BY DEF OutInv, Filling
  <1>8. Orders(accepted, pc_packet)
    BY DEF OutInv, AcceptedSound
  <1>9. CASE flush
    <2>1. writer'.state = "FILL" /\ writer'.mem = <<>>
      BY <1>4, <1>9 DEF Fills
    <2>2. pc_bytes' = 0 /\ pc_packet' \in Nat /\ pc_packet <= pc_packet'
      BY <1>0, <1>1, <1>9 DEF PCCycle
    <2>3. Filling' /\ Full'
      BY <2>1, <2>2 DEF Filling, Full
    <2>4. AcceptedSound'
      BY <1>1, <1>3, <1>8, <2>1, <2>2, OrdersLater DEF AcceptedSound
    <2> QED
      BY <1>6, <2>3, <2>4 DEF OutInv
  <1>10. CASE ~flush /\ ~valid
    <2>1. writer'.state = "FILL" /\ writer'.mem = writer.mem
      BY <1>4, <1>10 DEF Fills
    <2>2. pc_bytes' = pc_bytes /\ pc_packet' = pc_packet
      BY <1>0, <1>1, <1>10 DEF PCCycle
    <2>3. Filling' /\ Full' /\ AcceptedSound'
      BY <1>3, <1>7, <1>8, <2>1, <2>2 DEF Filling, Full, AcceptedSound
    <2> QED
      BY <1>6, <2>3 DEF OutInv
  <1>11. CASE ~flush /\ valid
    <2> DEFINE length == PacketLengths[pc_packet]
               byte == <<Writer, pc_packet, pc_bytes + 1>>
               complete == pc_bytes + 1 = length
    <2>1. pc_packet \in 1..Len(PacketLengths)
      <3>1. pc_packet \in Nat \ {0}
        BY DEF OutInv, OutTyped
      <3> QED
        BY <1>11, <3>1, HostAssumption
    <2>2. length \in 1..OutPacketSize /\ length \in Nat /\ OutPacketSize \in Nat /\ pc_bytes < length
      BY <1>1, <1>7, <2>1, PacketFields, WriterAssumption
    <2>3. Len(writer.mem) = pc_bytes
      BY <1>1, <1>7
    <2>4. /\ writer'.mem = Append(writer.mem, byte)
          /\ writer'.state = IF LastByte(valid) \/ pc_bytes + 1 = OutPacketSize THEN "READY" ELSE "FILL"
      BY <1>4, <1>11, <2>3 DEF Fills
    <2>5. writer'.state = IF complete THEN "READY" ELSE "FILL"
      BY <1>1, <1>11, <2>2, <2>4 DEF LastByte
    <2>6. writer'.mem = [i \in 1..(pc_bytes + 1) |-> <<Writer, pc_packet, i>>]
      BY <1>1, <1>7, <2>3, <2>4
    <2>7. /\ pc_packet' = IF complete THEN pc_packet + 1 ELSE pc_packet
          /\ pc_bytes' = IF complete THEN 0 ELSE pc_bytes + 1
      BY <1>0, <1>1, <1>11 DEF PCCycle, out_ready
    <2>8. CASE complete
      <3>1. writer'.mem = PacketBytes(pc_packet)
        BY <2>6, <2>8 DEF PacketBytes
      <3>2. Number(writer'.mem) = pc_packet
        BY <2>1, <3>1, PacketFields
      <3>3. Filling' /\ Full'
        BY <1>1, <2>1, <2>5, <2>7, <2>8, <3>1, <3>2 DEF Filling, Full
      <3>4. Orders(accepted, pc_packet + 1)
        BY <1>1, <1>8, OrdersLater
      <3>5. AcceptedSound'
        BY <1>3, <1>8, <2>7, <2>8, <3>2, <3>4 DEF AcceptedSound
      <3> QED
        BY <1>6, <3>3, <3>5 DEF OutInv
    <2>9. CASE ~complete
      <3>1. writer'.state = "FILL" /\ pc_packet' = pc_packet /\ pc_bytes' = pc_bytes + 1
        BY <2>5, <2>7, <2>9
      <3>2. pc_bytes + 1 < length
        BY <1>1, <2>2, <2>9
      <3>3. Filling' /\ Full' /\ AcceptedSound'
        BY <1>3, <1>8, <2>1, <2>6, <3>1, <3>2 DEF Filling, Full, AcceptedSound
      <3> QED
        BY <1>6, <3>3 DEF OutInv
    <2> QED
      BY <2>8, <2>9
  <1> QED
    BY <1>9, <1>10, <1>11

\* With a whole packet in the writer's memory the PC waits.
LEMMA WaitingPC ==
    ASSUME IInv, BusSound, OutInv, NEW valid \in BOOLEAN, NEW flush \in BOOLEAN,
           PCCycle(valid, flush), out_live, writer.state # "FILL"
    PROVE  pc_packet' = pc_packet /\ pc_bytes' = 0
  <1>1. ready /\ pc_bytes = 0 /\ ~out_ready(writer, out_live)
    BY OutLive DEF OutInv, Full, out_ready
  <1>2. CASE flush
    <2>1. pc_packet' = (IF pc_bytes > 0 THEN pc_packet + 1 ELSE pc_packet) /\ pc_bytes' = 0
      BY <1>1, <1>2 DEF PCCycle
    <2> QED
      BY <1>1, <2>1
  <1>3. CASE ~flush
    <2>1. UNCHANGED <<pc_packet, pc_bytes>>
      BY <1>1, <1>3 DEF PCCycle
    <2> QED
      BY <1>1, <2>1
  <1> QED
    BY <1>2, <1>3

\* The packet goes out, or waits, or is flushed.
LEMMA HoldingWriter ==
    ASSUME IInv, BusSound, OutInv, NEW flush \in BOOLEAN, NEW valid \in BOOLEAN,
           NEW elapsed, NEW consumer, Cycle(elapsed, consumer, valid, flush),
           out_live, writer.state = "READY"
    PROVE  OutInv'
  <1>0. /\ EngineCycle(flush) /\ ArbiterCycle(flush) /\ WriterCycle(elapsed, valid, flush)
        /\ PCCycle(valid, flush) /\ HistoryCycle
    BY DEF Cycle
  <1>1. ready /\ ~writer.active /\ writer.mem \in Seq(Bytes) /\ writer.toggle \in {0, 1}
    BY OutLive
  <1>2. pc_packet' = pc_packet /\ pc_bytes' = 0 /\ pc_bytes = 0
    BY <1>0, WaitingPC DEF OutInv, Full
  <1>3. Holding(writer, writer', flush, writes(flush))
    BY <1>0, WriterMove DEF BusSound
  <1>4. written' = written /\ writer'.toggle = writer.toggle
    BY <1>0, <1>1, <1>3 DEF HistoryCycle, Holding
  <1>5. /\ Number(writer.mem) \in 1..Len(PacketLengths) /\ Number(writer.mem) < pc_packet
        /\ writer.mem = PacketBytes(Number(writer.mem))
        /\ Orders(accepted, pc_packet)
        /\ writer.toggle = out_toggle => Orders(accepted, Number(writer.mem))
    BY DEF OutInv, Full, AcceptedSound
  <1>6. \/ writer'.state = "FILL" /\ writer'.mem = <<>>
        \/ writer'.state # "FILL" /\ writer'.mem = writer.mem
    BY <1>3 DEF Holding
  <1>7. accepted' = accepted /\ out_toggle' = out_toggle
        /\ ~(edone' /\ owner_valid' /\ poller_owner' = Writer) /\ Sending'
    <2>1. CASE ~writes(flush)
      BY <1>0, <1>1, <2>1, RestingWriter DEF Sending
    <2>2. CASE writes(flush)
      <3>1. PortStarts(flush) /\ rotate = Writer /\ ~flush
        BY <2>2, WriteIssued DEF writes, issue_write
      <3>2. ~ebusy /\ Request = PortRequest(Writer)
        BY <3>1, PortStartsSound DEF BusSound
      <3>3. Begins(flush)
        BY <1>0, <3>1, <3>2, EngineKeeps DEF BusSound, Rests
      <3>4. /\ PortRequest(Writer).in = FALSE /\ PortRequest(Writer).toggle = writer.toggle
            /\ PortRequest(Writer).length = Len(writer.mem)
        BY RequestFields
      <3>5. writer'.active /\ writer'.mem = writer.mem
        BY <1>3, <2>2, <3>1 DEF Holding
      <3>6. /\ txn' = PortRequest(Writer) /\ estate' = "TOKEN" /\ edone' = FALSE /\ sent' = <<>>
            /\ accepted' = accepted /\ out_toggle' = out_toggle
        BY <3>2, <3>3 DEF Begins, DeviceQuiet, deviceVars
      <3>7. Len(sent') = 0 /\ sent' \in Seq(Bytes) /\ Len(writer.mem) \in Nat
        BY <1>1, <3>6
      <3>8. /\ txn'.in = FALSE /\ txn'.toggle = writer'.toggle /\ txn'.length = Len(writer'.mem)
        BY <1>4, <3>4, <3>5, <3>6
      <3>9. Sending'
        BY <3>5, <3>6, <3>7, <3>8 DEF Sending
      <3> QED
        BY <3>6, <3>9
    <2> QED
      BY <2>1, <2>2
  <1>8. OutTyped' /\ Counted'
    BY <1>2, <1>4, <1>7 DEF OutInv, OutTyped, Counted
  <1>9. Filling' /\ Full' /\ AcceptedSound'
    <2>1. CASE writer'.state = "FILL" /\ writer'.mem = <<>>
      BY <1>2, <1>5, <1>7, <2>1 DEF Filling, Full, AcceptedSound
    <2>2. CASE writer'.state # "FILL" /\ writer'.mem = writer.mem
      BY <1>2, <1>4, <1>5, <1>7, <2>2 DEF Filling, Full, AcceptedSound
    <2> QED
      BY <1>6, <2>1, <2>2
  <1> QED
    BY <1>7, <1>8, <1>9 DEF OutInv

\* The result of a write is known: the packet counts as written, is kept, or is
\* given up.
LEMMA WrittenWriter ==
    ASSUME IInv, BusSound, OutInv, NEW flush \in BOOLEAN, NEW valid \in BOOLEAN,
           NEW elapsed, NEW consumer, Cycle(elapsed, consumer, valid, flush),
           out_live, writer.state = "SEND", port_done(Writer, edone)
    PROVE  OutInv'
  <1>0. /\ EngineCycle(flush) /\ ArbiterCycle(flush) /\ WriterCycle(elapsed, valid, flush)
        /\ PCCycle(valid, flush) /\ HistoryCycle
    BY DEF Cycle
  <1>1. ready /\ connected /\ writer.active /\ writer.toggle \in {0, 1} /\ poller_busy
    BY OutLive DEF poller_busy
  <1>2. pc_packet' = pc_packet /\ pc_bytes' = 0 /\ pc_bytes = 0
    BY <1>0, WaitingPC DEF OutInv, Full
  <1>3. Writes(writer, writer', TRUE, estatus)
    <2>1. port_done(Writer, edone) = TRUE
      BY DEF port_done, IInv, ResultTyped, HostTypeOK
    <2> QED
      BY <1>0, <2>1, WriterMove DEF BusSound
  <1>4. Rests(flush)
    <2>1. ~ebusy /\ edone
      BY DEF port_done, BusSound, OwnerSound
    <2>2. ~Begins(flush)
      BY <1>1, <2>1, BusyKeeps DEF Begins, sgrant, sof_grant
    <2> QED
      BY <1>0, <2>1, <2>2, EngineKeeps DEF BusSound
  <1>5. /\ accepted' = accepted /\ out_toggle' = out_toggle /\ edone' = FALSE /\ ~ebusy'
    BY <1>1, <1>4 DEF Rests, DeviceQuiet, deviceVars, ebusy
  <1>6. /\ Number(writer.mem) \in 1..Len(PacketLengths) /\ Number(writer.mem) < pc_packet
        /\ writer.mem = PacketBytes(Number(writer.mem))
        /\ Orders(accepted, pc_packet)
        /\ writer.toggle = out_toggle => Orders(accepted, Number(writer.mem))
    BY DEF OutInv, Full, AcceptedSound
  <1>7. written' = IF estatus = "SUCCESS" THEN written + 1 ELSE written
    BY <1>0, <1>1 DEF HistoryCycle
  <1>8. accepted \in Seq(Seq(Bytes)) /\ Len(accepted) \in Nat /\ written \in Nat
        /\ out_toggle \in {0, 1} /\ pc_packet \in Nat \ {0}
    BY DEF OutInv, OutTyped
  <1>9. OutTyped'
    BY <1>2, <1>5, <1>7, <1>8 DEF OutTyped
  <1>10. Counted'
    <2>1. /\ Len(accepted) >= written + (IF writer.toggle # out_toggle THEN 1 ELSE 0)
          /\ estatus = "SUCCESS" => writer.toggle # out_toggle
      BY DEF OutInv, Counted, port_done
    <2>2. writer'.toggle = IF estatus = "SUCCESS" THEN 1 - writer.toggle ELSE writer.toggle
      BY <1>3 DEF Writes
    <2>3. Len(accepted') >= written' + (IF writer'.toggle # out_toggle' THEN 1 ELSE 0)
      <3>1. CASE estatus = "SUCCESS"
        <4>1. writer'.toggle = out_toggle'
          BY <1>1, <1>5, <1>8, <2>1, <2>2, <3>1
        <4> QED
          BY <1>5, <1>7, <1>8, <2>1, <3>1, <4>1
      <3>2. CASE estatus # "SUCCESS"
        BY <1>5, <1>7, <2>1, <2>2, <3>2
      <3> QED
        BY <3>1, <3>2
    <2> QED
      BY <1>5, <2>3 DEF Counted
  <1>11. Filling' /\ Full' /\ AcceptedSound'
    <2>1. CASE writer'.state = "FILL" /\ writer'.mem = <<>>
      BY <1>2, <1>5, <1>6, <2>1 DEF Filling, Full, AcceptedSound
    <2>2. CASE estatus # "SUCCESS" /\ writer'.state = "READY" /\ writer'.mem = writer.mem
      <3>1. writer'.toggle = writer.toggle
        BY <1>3, <2>2 DEF Writes
      <3> QED
        BY <1>2, <1>5, <1>6, <2>2, <3>1 DEF Filling, Full, AcceptedSound
    <2> QED
      BY <1>3, <2>1, <2>2 DEF Writes
  <1>12. Sending'
    BY <1>5 DEF Sending
  <1> QED
    BY <1>9, <1>10, <1>11, <1>12 DEF OutInv

\* What the device does to a write under way.
LEMMA WriteEvents ==
    ASSUME IInv, BusSound, OutInv, NEW flush \in BOOLEAN, EngineCycle(flush),
           ready, ebusy, txn.src = Writer
    PROVE  \/ Works
           \/ /\ estate = "WAIT_RESPONSE" /\ estate' = "IDLE"
              /\ \/ TakesOut
                 \/ DeviceQuiet /\ estatus' # "SUCCESS"
  <1>0. connected
    BY DEF IInv, HostTypeOK
  <1>1. ~txn.in /\ estate # "ACK" /\ estate # "WAIT_SOF_DRAIN"
    BY PortNumbers DEF OutInv, Sending, BusSound, OwnerSound
  <1>2. CASE Answers
    <2>1. AnswersOut /\ estate = "WAIT_RESPONSE"
      BY <1>1, <1>2 DEF Answers, AnswersIn
    <2> QED
      BY <2>1 DEF AnswersOut, EngineHandshake, finish
  <1> QED
    BY <1>0, <1>1, <1>2, EngineEvents DEF BusSound, Rests, Begins, Aborts, Drains

\* The packet's bytes follow each other on the wire.
LEMMA SendingWorks ==
    ASSUME IInv, BusSound, OutInv, Works, txn.src = Writer, poller_owner = Writer, writer.active,
           writer'.active, writer'.mem = writer.mem, writer'.toggle = writer.toggle
    PROVE  Sending'
  <1>1. /\ ebusy /\ ~txn.in /\ txn.toggle = writer.toggle /\ txn.length = Len(writer.mem)
        /\ sent \in Seq(Bytes) /\ Len(sent) \in Nat /\ Len(sent) <= Len(writer.mem)
        /\ \A i \in 1..Len(sent) : sent[i] = writer.mem[i]
        /\ estate # "ACK" /\ (estate = "TOKEN" => sent = <<>>)
        /\ estate = "WAIT_RESPONSE" => sent = writer.mem
    BY DEF OutInv, Sending, Works
  <1>2. writer.mem \in Seq(Bytes) /\ Len(writer.mem) \in Nat
    BY OutLive
  <1>3. txn' = txn /\ Writer # Sof
    BY PortNumbers DEF Works
  <1>4. CASE UNCHANGED <<estate, sent, rx_length, packet_duplicate>>
    BY <1>1, <1>3, <1>4 DEF Sending
  <1>5. CASE /\ estate = "TOKEN" /\ sent' = sent
             /\ estate' = IF txn.src = Sof THEN "WAIT_SOF_DRAIN"
                          ELSE IF txn.in THEN "WAIT_RESPONSE" ELSE "SEND_DATA"
    <2>1. estate' = "SEND_DATA"
      BY <1>1, <1>3, <1>5
    <2> QED
      BY <1>1, <1>3, <1>5, <2>1 DEF Sending
  <1>6. CASE estate = "SEND_DATA" /\ Len(sent) < txn.length /\ estate' = estate
             /\ sent' = Append(sent, Payload(Len(sent) + 1))
    <2>1. mux = Writer
      BY DEF mux, MuxPort, control_owns, poller_busy
    <2>2. Len(sent) + 1 \in 1..Len(writer.mem)
      BY <1>1, <1>2, <1>6
    <2>3. Payload(Len(sent) + 1) = writer.mem[Len(sent) + 1]
      BY <2>1, <2>2, PortNumbers DEF Payload
    <2>4. writer.mem[Len(sent) + 1] \in Bytes
      BY <1>2, <2>2
    <2>5. sent' \in Seq(Bytes) /\ Len(sent') = Len(sent) + 1
      BY <1>1, <1>6, <2>3, <2>4
    <2>6. \A i \in 1..Len(sent') : sent'[i] = writer.mem[i]
      <3>1. sent'[Len(sent) + 1] = writer.mem[Len(sent) + 1]
        BY <1>1, <1>6, <2>3, <2>4
      <3>2. \A i \in 1..Len(sent) : sent'[i] = sent[i]
        BY <1>1, <1>6, <2>3, <2>4
      <3> QED
        BY <1>1, <2>5, <3>1, <3>2
    <2>7. Len(sent') <= Len(writer'.mem)
      BY <2>2, <2>5
    <2> QED
      BY <1>1, <1>3, <1>6, <2>5, <2>6, <2>7 DEF Sending
  <1>7. CASE estate = "SEND_DATA" /\ ~(Len(sent) < txn.length) /\ estate' = "WAIT_RESPONSE" /\ sent' = sent
    <2>1. Len(sent) = Len(writer.mem)
      BY <1>1, <1>2, <1>7
    <2>2. sent = writer.mem
      BY <1>1, <1>2, <2>1, SeqEqual
    <2> QED
      BY <1>1, <1>3, <1>7, <2>2 DEF Sending
  <1> QED
    BY <1>4, <1>5, <1>6, <1>7 DEF Works

\* A write is under way: its packet reaches the device or does not.
LEMMA SendingWriter ==
    ASSUME IInv, BusSound, OutInv, NEW flush \in BOOLEAN, NEW valid \in BOOLEAN,
           NEW elapsed, NEW consumer, Cycle(elapsed, consumer, valid, flush),
           out_live, writer.state = "SEND", ~port_done(Writer, edone)
    PROVE  OutInv'
  <1>0. /\ EngineCycle(flush) /\ ArbiterCycle(flush) /\ WriterCycle(elapsed, valid, flush)
        /\ PCCycle(valid, flush) /\ HistoryCycle
    BY DEF Cycle
  <1>1. ready /\ writer.active /\ writer.toggle \in {0, 1}
    BY OutLive
  <1>2. pc_packet' = pc_packet /\ pc_bytes' = 0 /\ pc_bytes = 0
    BY <1>0, WaitingPC DEF OutInv, Full
  <1>3. /\ writer'.active = writer.active /\ writer'.toggle = writer.toggle
        /\ writer'.state = "SEND" /\ writer'.mem = writer.mem
    <2>1. Writes(writer, writer', port_done(Writer, edone), estatus)
      BY <1>0, WriterMove DEF BusSound
    <2> QED
      BY <2>1 DEF Writes
  <1>4. owner_valid /\ poller_owner = Writer /\ ebusy /\ txn.src = Writer
    BY <1>1 DEF port_done, BusSound, WriterSound, OwnerSound
  <1>5. written' = written
    BY <1>0, <1>1 DEF HistoryCycle
  <1>6. /\ Number(writer.mem) \in 1..Len(PacketLengths) /\ Number(writer.mem) < pc_packet
        /\ writer.mem = PacketBytes(Number(writer.mem))
        /\ Orders(accepted, pc_packet)
        /\ writer.toggle = out_toggle => Orders(accepted, Number(writer.mem))
        /\ Len(accepted) >= written + (IF writer.toggle # out_toggle THEN 1 ELSE 0)
    BY <1>1 DEF OutInv, Full, AcceptedSound, Counted
  <1>7. accepted \in Seq(Seq(Bytes)) /\ Len(accepted) \in Nat /\ written \in Nat
        /\ out_toggle \in {0, 1} /\ pc_packet \in Nat \ {0}
    BY DEF OutInv, OutTyped
  <1>8. Filling' /\ Full'
    BY <1>2, <1>3, <1>6 DEF Filling, Full
  <1>9. CASE Works
    <2>1. accepted' = accepted /\ out_toggle' = out_toggle /\ edone' = FALSE
      BY <1>9 DEF Works, DeviceQuiet, deviceVars
    <2>2. OutTyped' /\ Counted' /\ AcceptedSound'
      BY <1>2, <1>3, <1>5, <1>6, <1>7, <2>1 DEF OutTyped, Counted, AcceptedSound
    <2>3. Sending'
      BY <1>1, <1>3, <1>4, <1>9, SendingWorks
    <2> QED
      BY <1>8, <2>2, <2>3 DEF OutInv
  <1>10. CASE estate = "WAIT_RESPONSE" /\ estate' = "IDLE" /\ (TakesOut \/ (DeviceQuiet /\ estatus' # "SUCCESS"))
    <2>1. Sending'
      BY <1>10 DEF Sending, ebusy
    <2>2. sent = writer.mem /\ txn.toggle = writer.toggle
      BY <1>4, <1>10 DEF OutInv, Sending
    <2>3. CASE txn.toggle = out_toggle /\ TakesOut
      <3> DEFINE n == Number(writer.mem)
      <3>1. accepted' = Append(accepted, PacketBytes(n)) /\ out_toggle' = 1 - out_toggle
        BY <1>4, <1>6, <2>2, <2>3 DEF TakesOut
      <3>2. n \in 1..Len(PacketLengths) /\ Orders(accepted, n) /\ n < pc_packet /\ n \in Nat
        BY <1>6, <2>2, <2>3
      <3>3. PacketBytes(n) \in Seq(Bytes)
        BY <3>2, PacketFields
      <3> HIDE DEF n
      <3>4. Orders(accepted', n + 1)
        BY <1>7, <3>1, <3>2, OrdersTakes
      <3>5. Orders(accepted', pc_packet)
        <4>1. n + 1 \in Nat /\ n + 1 <= pc_packet /\ pc_packet \in Nat
          BY <1>7, <3>2
        <4> QED
          BY <3>4, <4>1, OrdersLater
      <3>6. writer'.toggle # out_toggle'
        BY <1>3, <1>7, <2>2, <2>3, <3>1
      <3>7. AcceptedSound'
        BY <1>2, <3>5, <3>6 DEF AcceptedSound
      <3>8. accepted' \in Seq(Seq(Bytes)) /\ Len(accepted') = Len(accepted) + 1
        BY <1>7, <3>1, <3>3
      <3>9. Len(accepted') >= written + 1
        BY <1>6, <1>7, <2>2, <2>3, <3>8
      <3>10. Counted'
        BY <1>5, <1>7, <3>6, <3>9 DEF Counted
      <3>11. OutTyped'
        BY <1>2, <1>5, <1>7, <3>1, <3>8 DEF OutTyped
      <3> QED
        BY <1>8, <2>1, <3>7, <3>10, <3>11 DEF OutInv
    <2>4. CASE DeviceQuiet /\ (txn.toggle # out_toggle \/ estatus' # "SUCCESS")
      <3>1. accepted' = accepted /\ out_toggle' = out_toggle
        BY <2>4 DEF DeviceQuiet, deviceVars
      <3>2. OutTyped' /\ AcceptedSound'
        BY <1>2, <1>3, <1>5, <1>6, <1>7, <3>1 DEF OutTyped, AcceptedSound
      <3>3. Counted'
        BY <1>3, <1>5, <1>6, <2>2, <2>4, <3>1 DEF Counted
      <3> QED
        BY <1>8, <2>1, <3>2, <3>3 DEF OutInv
    <2>5. TakesOut /\ txn.toggle # out_toggle => DeviceQuiet
      BY DEF TakesOut
    <2> QED
      BY <1>10, <2>3, <2>4, <2>5
  <1> QED
    BY <1>0, <1>1, <1>4, <1>9, <1>10, WriteEvents

LEMMA OutInvKept ==
    ASSUME IInv, BusSound, BusSound', OutInv, NEW flush \in BOOLEAN, NEW valid \in BOOLEAN,
           NEW elapsed, NEW consumer, Cycle(elapsed, consumer, valid, flush),
           valid => out_enable /\ ready /\ pc_packet <= Len(PacketLengths)
    PROVE  OutInv'
  <1>1. writer.state \in {"FILL", "READY", "SEND"}
    BY OutLive
  <1>2. CASE ~ready
    BY <1>2, UnreadyWriter
  <1>3. CASE ready /\ ~out_live
    BY <1>3, DormantWriter
  <1>4. CASE out_live /\ writer.state = "FILL"
    BY <1>4, FillingWriter
  <1>5. CASE out_live /\ writer.state = "READY"
    BY <1>5, HoldingWriter
  <1>6. CASE out_live /\ writer.state = "SEND" /\ port_done(Writer, edone)
    BY <1>6, WrittenWriter
  <1>7. CASE out_live /\ writer.state = "SEND" /\ ~port_done(Writer, edone)
    BY <1>7, SendingWriter
  <1> QED
    BY <1>1, <1>2, <1>3, <1>4, <1>5, <1>6, <1>7

LEMMA InitOutInv == Init => OutInv
  <1> SUFFICES ASSUME Init PROVE OutInv
    OBVIOUS
  <1>1. writer.state = "FILL" /\ writer.mem = <<>> /\ writer.toggle = 0
    BY DEF Init, WriterOff
  <1>2. ~ebusy /\ ~edone
    BY DEF Init, EngineInit, ebusy
  <1>3. OutTyped /\ Filling /\ Full
    BY <1>1 DEF Init, OutTyped, Filling, Full
  <1>4. Sending /\ Counted
    BY <1>1, <1>2 DEF Init, Sending, Counted
  <1>5. AcceptedSound
    BY <1>1, OrdersEmpty DEF Init, AcceptedSound
  <1> QED
    BY <1>3, <1>4, <1>5 DEF OutInv

LEMMA OutInvStutters == OutInv /\ UNCHANGED vars => OutInv'
  <1> SUFFICES ASSUME OutInv, UNCHANGED vars PROVE OutInv'
    OBVIOUS
  <1> USE DEF vars, portVars, engineVars, arbiterVars, hostVars, deviceVars, historyVars
  <1>1. OutTyped' /\ Filling' /\ Full'
    BY DEF OutInv, OutTyped, Filling, Full
  <1>2. Sending' /\ Counted'
    BY DEF OutInv, Sending, Counted, ebusy
  <1>3. AcceptedSound'
    BY DEF OutInv, AcceptedSound
  <1> QED
    BY <1>1, <1>2, <1>3 DEF OutInv

LEMMA NextOut == IInv /\ BusSound /\ OutInv /\ [Next]_vars => (IInv /\ BusSound /\ OutInv)'
  <1> SUFFICES ASSUME IInv, BusSound, OutInv, [Next]_vars PROVE (IInv /\ BusSound /\ OutInv)'
    OBVIOUS
  <1>1. IInv'
    BY NextIInv
  <1>2. CASE Next
    <2>1. PICK elapsed \in SUBSET Elapsing, consumer \in Consumers,
               valid \in BOOLEAN, flush \in BOOLEAN :
             /\ valid => out_enable /\ ready /\ pc_packet <= Len(PacketLengths)
             /\ Cycle(elapsed, consumer, valid, flush)
      BY <1>2 DEF Next
    <2>2. BusSound'
      BY <2>1, BusSoundKept
    <2> QED
      BY <1>1, <2>1, <2>2, OutInvKept
  <1>3. CASE UNCHANGED vars
    BY <1>1, <1>3, BusSoundStutters, OutInvStutters
  <1> QED
    BY <1>2, <1>3

\* out_writer.py, behind the same arbiter: for packets of any lengths and any
\* losses on the bus, the device takes the PC's OUT packets whole, in order and
\* none twice, and at least as many as the writer counts as written.
THEOREM PacketsInOrderOnce == Spec => []OutInOrderOnce
  <1>1. Init => IInv /\ BusSound /\ OutInv
    BY InitIInv, InitBusSound, InitOutInv
  <1>2. OutInv => OutInOrderOnce
    <2> SUFFICES ASSUME OutInv PROVE OutInOrderOnce
      OBVIOUS
    <2>1. Orders(accepted, pc_packet) /\ Len(accepted) \in Nat /\ written \in Nat
      BY DEF OutInv, AcceptedSound, OutTyped
    <2>2. written <= Len(accepted)
      BY <2>1 DEF OutInv, Counted
    <2> QED
      BY <2>1, <2>2 DEF OutInOrderOnce, Orders
  <1> QED
    BY <1>1, <1>2, NextOut, PTL DEF Spec
=============================================================================
