------------------------------ MODULE HostBus ------------------------------
(***************************************************************************)
(* The real device's bus as BoundedMouseHost shares it (host.py): the      *)
(* interrupt pollers, the OUT writer, control transfers and SOFs on one    *)
(* transaction engine behind the arbiter, and the device's interrupt       *)
(* endpoints with their data toggles.  A step is one cycle of the usb      *)
(* clock, in which every component moves.                                  *)
(*                                                                         *)
(* A byte is <<source, n, i>>: byte i of report (or OUT packet) n of an    *)
(* endpoint, or of control data.                                           *)
(***************************************************************************)
EXTENDS InterruptInPoller, InterruptOutWriter, USBHostTransactionEngine,
        USBHostTransactionArbiter

CONSTANTS
    ReportLengths,       \* lengths of the reports each IN endpoint has to send
    PacketLengths,       \* lengths of the OUT packets the PC sends
    MaxLost,             \* bound: transactions lost or damaged on the bus
    MaxDetaches,         \* bound: losses of the device
    MaxFlushes,          \* bound: PC session resets
    Sofs,                \* whether SOFs are sent
    NakTimeouts          \* whether the NAK timeout of control transfers is followed

VARIABLES
    poller,              \* per IN endpoint, InterruptInPoller's registers
    writer,              \* InterruptOutWriter's registers
    connected, ready,    \* the enumerator's
    out_enable,          \* writer.enable, registered
    sof_start,           \* the scheduler's pending SOF
    owned,               \* relay.engine_owned
    cstate, cin,         \* the control engine: what it does, is its transaction IN
    cnak,                \* its nak_timeout_counter: off, counting or at its end
    dev_report,          \* per IN endpoint: number of the report to send
    dev_toggle,          \* per IN endpoint: its data PID
    out_toggle,          \* the data PID the OUT endpoint expects
    accepted,            \* payloads the OUT endpoint took
    pc_packet, pc_bytes, \* the OUT packet the PC is sending, its bytes consumed
    taken,               \* per IN endpoint: reports buffered for the merge mux
    written,             \* OUT packets the writer counted as written
    lost, detaches, flushes

portVars == <<poller, writer>>
hostVars == <<connected, ready, out_enable, sof_start, owned, cstate, cin, cnak>>
deviceVars == <<dev_report, dev_toggle, out_toggle, accepted>>
historyVars == <<pc_packet, pc_bytes, taken, written, lost, detaches, flushes>>
vars == <<portVars, engineVars, arbiterVars, hostVars, deviceVars, historyVars>>

Pollers == 0..(LastPort - 1)
Writer == LastPort

ASSUME HostAssumption ==
    /\ ReportLengths \in Seq(Nat)
    /\ PacketLengths \in Seq(1..OutPacketSize)
    /\ MaxLost \in Nat /\ MaxDetaches \in Nat /\ MaxFlushes \in Nat
    /\ Sofs \in BOOLEAN /\ NakTimeouts \in BOOLEAN

ControlStates == {"idle", "issue", "wait", "stream"}
ControlLength == 2       \* bytes of a control packet

ReportBytes(k, n) == [i \in 1..ReportLengths[n] |-> <<k, n, i>>]
PacketBytes(n) == [i \in 1..PacketLengths[n] |-> <<Writer, n, i>>]
ControlBytes == [i \in 1..ControlLength |-> <<Control, 0, i>>]
Zero == <<Sof, 0, 0>>
Junk == <<Zero>>

SofTransaction == [src |-> Sof, in |-> FALSE, toggle |-> 0, length |-> 0]

-----------------------------------------------------------------------------
\* Wires of host.py.

control_phase == ~ready \/ owned
poller_busy == (\E k \in Pollers : active(poller[k])) \/ writer.active
sof_request == sof_start /\ connected
bus_free == poll_bus_free(control_phase, sof_request, ebusy, poller_busy)
out_live == out_enable /\ connected
polls(k) == issue_poll(poller[k], ready, connected, granted(k, bus_free))
writes(flush) == issue_write(writer, out_live, flush, granted(Writer, bus_free))
selected_start(flush) == IF rotate = Writer THEN writes(flush) ELSE polls(rotate)

nak_timeout == cnak = "expired" /\ cstate \in {"issue", "wait"}
cstart == cstate = "issue" /\ connected /\ ~nak_timeout
cgrant == control_grant(control_phase, poller_busy, cstart, ebusy)
sgrant == sof_grant(sof_request, ebusy, edone, cgrant)
mux == MuxPort(control_phase, poller_busy)

Request ==
    CASE sgrant -> SofTransaction
      [] ~sgrant /\ mux \in Pollers ->
           [src |-> mux, in |-> TRUE, toggle |-> poller[mux].toggle, length |-> 0]
      [] ~sgrant /\ mux = Writer ->
           [src |-> mux, in |-> FALSE, toggle |-> writer.toggle,
            length |-> Len(writer.mem)]
      [] ~sgrant /\ mux = Control ->
           [src |-> mux, in |-> cin, toggle |-> 0,
            length |-> IF cin THEN 0 ELSE ControlLength]

\* tx_payload: the bytes of the port selected now, zero if it offers none.
Payload(i) ==
    CASE mux = Writer /\ i <= Len(writer.mem) -> writer.mem[i]
      [] mux = Control /\ (cstart \/ cstate = "wait") -> ControlBytes[i]
      [] OTHER -> Zero

\* rx_read_data, read at the index of the port selected now.
ReadData ==
    LET i == IF mux \in Pollers THEN Len(poller[mux].mem) + 1 ELSE 1
    IN  IF i <= Len(rx) THEN rx[i] ELSE Zero

-----------------------------------------------------------------------------
Init ==
    /\ poller = [k \in Pollers |-> PollerOff]
    /\ writer = WriterOff
    /\ ArbiterInit
    /\ EngineInit
    /\ connected = FALSE /\ ready = FALSE /\ out_enable = FALSE
    /\ sof_start = FALSE /\ owned = FALSE /\ cstate = "idle" /\ cin = FALSE
    /\ cnak = "off"
    /\ dev_report = [k \in Pollers |-> 1]
    /\ dev_toggle = [k \in Pollers |-> 0]
    /\ out_toggle = 0 /\ accepted = <<>>
    /\ pc_packet = 1 /\ pc_bytes = 0
    /\ taken = [k \in Pollers |-> <<>>] /\ written = 0
    /\ lost = 0 /\ detaches = 0 /\ flushes = 0

-----------------------------------------------------------------------------
\* The device.

DeviceQuiet == UNCHANGED deviceVars

\* A transaction of which one packet, the host's or the device's, is lost.
Lossy == lost < MaxLost /\ lost' = lost + 1

\* The device answers an IN transaction.
AnswersIn ==
    /\ txn.in
    /\ DeviceQuiet
    /\ \/ EngineHandshake(connected, "NAK") /\ UNCHANGED lost
       \/ EngineHandshake(connected, "STALL") /\ UNCHANGED lost
       \/ EngineHandshake(connected, "TIMEOUT") /\ Lossy
       \/ EngineBadData(connected, Junk) /\ Lossy
       \/ /\ txn.src \in Pollers
          /\ dev_report[txn.src] <= Len(ReportLengths)
          /\ EngineData(connected, dev_toggle[txn.src],
                        ReportBytes(txn.src, dev_report[txn.src]))
          /\ UNCHANGED lost
       \/ /\ txn.src = Control
          /\ EngineData(connected, txn.toggle, ControlBytes)
          /\ UNCHANGED lost

\* The OUT endpoint takes a packet with the PID it expects, and only
\* acknowledges one it has already.
TakesOut ==
    IF txn.src = Writer /\ txn.toggle = out_toggle
    THEN /\ accepted' = Append(accepted, sent)
         /\ out_toggle' = 1 - out_toggle
         /\ UNCHANGED <<dev_report, dev_toggle>>
    ELSE DeviceQuiet

AnswersOut ==
    /\ ~txn.in
    /\ \/ EngineHandshake(connected, "NAK") /\ DeviceQuiet /\ UNCHANGED lost
       \/ EngineHandshake(connected, "STALL") /\ DeviceQuiet /\ UNCHANGED lost
       \/ EngineHandshake(connected, "SUCCESS") /\ TakesOut /\ UNCHANGED lost
       \/ EngineHandshake(connected, "TIMEOUT") /\ Lossy /\ (TakesOut \/ DeviceQuiet)

\* The host's ACK reaches the device, which moves on to its next report, or
\* is lost, and the device sends the same one again.
Acknowledges ==
    /\ EngineAck(connected)
    /\ \/ /\ txn.src \in Pollers
          /\ dev_report' = [dev_report EXCEPT ![txn.src] = @ + 1]
          /\ dev_toggle' = [dev_toggle EXCEPT ![txn.src] = 1 - @]
          /\ UNCHANGED <<out_toggle, accepted, lost>>
       \/ txn.src \in Pollers /\ DeviceQuiet /\ Lossy
       \/ txn.src \notin Pollers /\ DeviceQuiet /\ UNCHANGED lost

\* A device that is gone forgets everything; the next one starts anew.
DeviceReset ==
    /\ dev_report' = [k \in Pollers |-> 1]
    /\ dev_toggle' = [k \in Pollers |-> 0]
    /\ out_toggle' = 0 /\ accepted' = <<>>
    /\ UNCHANGED lost

-----------------------------------------------------------------------------
\* The host's components, each with its inputs connected.

EngineStarts(flush) ==
    EngineIdle(cgrant \/ sgrant \/ (bus_free /\ selected_start(flush)),
               connected, Request)

EngineCycle(flush) ==
    \/ ~connected /\ (EngineStarts(flush) \/ EngineAbort(connected)) /\ DeviceReset
    \/ /\ connected /\ DeviceQuiet /\ UNCHANGED lost
       /\ \/ EngineStarts(flush)
          \/ EngineWait(connected)
          \/ EngineToken(connected, txn.src = Sof)
          \/ EngineSendData(connected, Payload(Len(sent) + 1))
          \/ EngineSofDrain(connected)
    \/ estate = "WAIT_RESPONSE" /\ (AnswersIn \/ AnswersOut)
    \/ Acknowledges

ArbiterCycle(flush) == ArbiterStep(bus_free, selected_start(flush), edone)

PollerCycle(elapsed, consumer) ==
    poller' = [k \in Pollers |->
        PollerNext(poller[k],
            [enable |-> ready, connected |-> connected,
             elapsed |-> k \in elapsed, issued |-> polls(k),
             done |-> port_done(k, edone), status |-> estatus,
             duplicate |-> eduplicate, rx_length |-> rx_length,
             data |-> ReadData, ready |-> k = consumer])]

\* LUNA's OUT stream marks the last byte of a packet, but not of a full one.
WriterCycle(elapsed, valid, flush) ==
    writer' = WriterNext(writer,
        [live |-> out_live, flush |-> flush, elapsed |-> Writer \in elapsed,
         valid |-> valid, byte |-> <<Writer, pc_packet, pc_bytes + 1>>,
         last |-> /\ valid
                  /\ pc_bytes + 1 = PacketLengths[pc_packet]
                  /\ PacketLengths[pc_packet] < OutPacketSize,
         issued |-> writes(flush), done |-> port_done(Writer, edone),
         status |-> estatus])

\* The control engine, for the enumerator before `ready` and for the relay
\* afterwards: transactions one after the other, each NAKed one again until
\* the NAK timeout, which looks at no transaction in progress.
ControlEnds == cstate' = "idle" /\ cin' = FALSE /\ cnak' = "off"
ControlBegins == cstate' = "issue" /\ cin' \in BOOLEAN /\ cnak' = "off"

Counting == cnak' \in {cnak} \cup {c \in {"expired"} : cnak = "counting"}

ControlIdle ==
    /\ cstate = "idle"
    /\ (connected /\ control_phase /\ ControlBegins) \/ UNCHANGED <<cstate, cin, cnak>>

ControlIssue ==
    /\ cstate = "issue"
    /\ cstate' = IF control_owns(control_phase, poller_busy) /\ ~ebusy
                 THEN "wait" ELSE "issue"
    /\ Counting
    /\ UNCHANGED cin

ControlWait ==
    /\ cstate = "wait"
    /\ \/ ~edone /\ Counting /\ UNCHANGED <<cstate, cin>>
       \/ /\ edone /\ estatus = "NAK"
          /\ cstate' = "issue" /\ UNCHANGED cin
          /\ cnak' = IF NakTimeouts THEN "counting" ELSE "off"
       \/ /\ edone /\ estatus = "SUCCESS" /\ cin /\ eduplicate
          /\ cstate' = "issue" /\ Counting /\ UNCHANGED cin
       \/ /\ edone /\ estatus = "SUCCESS" /\ cin /\ ~eduplicate
          /\ cstate' = "stream" /\ cnak' = "off" /\ UNCHANGED cin
       \/ edone /\ estatus = "SUCCESS" /\ ~(cin /\ eduplicate) /\ (ControlBegins \/ ControlEnds)
       \/ edone /\ estatus \notin {"SUCCESS", "NAK"} /\ ControlEnds

ControlStream ==
    cstate = "stream" /\ (ControlBegins \/ UNCHANGED <<cstate, cin, cnak>>)

ControlCycle ==
    \/ cstate # "idle" /\ (~connected \/ nak_timeout) /\ ControlEnds
    \/ ControlIdle
    \/ connected /\ ~nak_timeout /\ (ControlIssue \/ ControlWait \/ ControlStream)

\* The relay takes the engine for a forward and gives it back when the
\* transfer is over; the scheduler asks for a SOF and holds the request.
OwnedCycle ==
    \/ UNCHANGED owned
    \/ ready /\ ~owned /\ owned' = TRUE
    \/ owned /\ cstate = "idle" /\ cstate' = "idle" /\ owned' = FALSE

SofCycle ==
    \/ ~connected /\ sof_start' = FALSE
    \/ connected /\ ~sof_start /\ sof_start' \in {FALSE, Sofs}
    \/ connected /\ sof_start /\ sof_start' = ~sgrant

\* The enumerator: ready and connected fall together.
ReadyCycle ==
    /\ \/ UNCHANGED <<connected, ready, detaches>>
       \/ /\ ~connected /\ ~ebusy /\ ~edone /\ cstate = "idle"
          /\ connected' = TRUE
          /\ UNCHANGED <<ready, detaches>>
       \/ /\ connected /\ ~ready /\ ~ebusy /\ ~edone /\ cstate = "idle" /\ cstate' = "idle"
          /\ ready' = TRUE
          /\ UNCHANGED <<connected, detaches>>
       \/ /\ connected /\ detaches < MaxDetaches
          /\ connected' = FALSE /\ ready' = FALSE
          /\ detaches' = detaches + 1
    /\ out_enable' = ready

\* The PC sends its OUT packets to the clone; a session reset empties the
\* clone's OUT FIFO, and the packet in it is lost.
PCCycle(valid, flush) ==
    LET consumed == valid /\ out_ready(writer, out_live)
        complete == pc_bytes + 1 = PacketLengths[pc_packet]
    IN  /\ \/ /\ ~ready /\ pc_packet' = 1 /\ pc_bytes' = 0
           \/ /\ ready /\ flush
              /\ pc_packet' = IF pc_bytes > 0 THEN pc_packet + 1 ELSE pc_packet
              /\ pc_bytes' = 0
           \/ /\ ready /\ ~flush /\ consumed
              /\ pc_packet' = IF complete THEN pc_packet + 1 ELSE pc_packet
              /\ pc_bytes' = IF complete THEN 0 ELSE pc_bytes + 1
           \/ /\ ready /\ ~flush /\ ~consumed
              /\ UNCHANGED <<pc_packet, pc_bytes>>
        /\ flushes' = IF flush THEN flushes + 1 ELSE flushes

HistoryCycle ==
    /\ taken' = [k \in Pollers |->
          IF ~ready THEN <<>>
          ELSE IF ~poller[k].buffer_full /\ poller'[k].buffer_full
               THEN Append(taken[k], poller'[k].mem) ELSE taken[k]]
    /\ written' = IF ~ready THEN 0
                  ELSE IF /\ writer.state = "SEND" /\ out_live
                          /\ port_done(Writer, edone) /\ estatus = "SUCCESS"
                       THEN written + 1 ELSE written

Cycle(elapsed, consumer, valid, flush) ==
    /\ EngineCycle(flush)
    /\ ArbiterCycle(flush)
    /\ PollerCycle(elapsed, consumer)
    /\ WriterCycle(elapsed, valid, flush)
    /\ ControlCycle /\ OwnedCycle /\ SofCycle /\ ReadyCycle
    /\ PCCycle(valid, flush)
    /\ HistoryCycle

\* The endpoints an elapsing interval makes a difference to: those not due,
\* or that spend their due in this cycle.
Elapsing == {k \in Pollers : ~poller[k].due \/ polls(k)}
            \cup {k \in {Writer} : ~writer.due \/ writes(FALSE)}

\* The poller whose report the merge mux takes a byte of, or none (Writer).
Consumers == {k \in Pollers : poller[k].buffer_full} \cup {Writer}

Next ==
    \E elapsed \in SUBSET Elapsing, consumer \in Consumers, valid, flush \in BOOLEAN :
        /\ valid => out_enable /\ ready /\ pc_packet <= Len(PacketLengths)
        /\ flush => ready /\ flushes < MaxFlushes
        /\ Cycle(elapsed, consumer, valid, flush)

Spec == Init /\ [][Next]_vars
-----------------------------------------------------------------------------
Bytes == Nat \X Nat \X Nat

HostTypeOK ==
    /\ DOMAIN poller = Pollers /\ \A k \in Pollers : PollerTyped(poller[k], Bytes)
    /\ WriterTyped(writer, Bytes)
    /\ rotate \in Ports /\ poller_owner \in Ports
    /\ owner_valid \in BOOLEAN /\ engine_done_d \in BOOLEAN
    /\ connected \in BOOLEAN /\ ready \in BOOLEAN /\ (ready => connected)
    /\ out_enable \in BOOLEAN /\ sof_start \in BOOLEAN /\ owned \in BOOLEAN
    /\ cstate \in ControlStates /\ cin \in BOOLEAN
    /\ cnak \in {"off", "counting", "expired"}

\* A report, and a packet, begins with a byte that has its number.
Number(bytes) == bytes[1][2]

\* The reports a poller has to hand on: the others are empty, or longer than
\* the endpoint allows.
Deliverable(n) == n \in 1..Len(ReportLengths) /\ ReportLengths[n] \in 1..MaxPacketSize

\* What a poller has handed on are reports of the device, whole, in its order,
\* and from the first on.
TakenInOrder(k) ==
    /\ \A i \in 1..Len(taken[k]) :
          /\ Deliverable(Number(taken[k][i]))
          /\ taken[k][i] = ReportBytes(k, Number(taken[k][i]))
          /\ \A n \in 1..Number(taken[k][i]) :
                Deliverable(n) => \E j \in 1..i : Number(taken[k][j]) = n
    /\ \A i, j \in 1..Len(taken[k]) : i < j => Number(taken[k][i]) < Number(taken[k][j])

\* When the device has moved on from a report, the poller has it, or is about to.
NoneLost(k) ==
    ready /\ ~(owner_valid /\ edone) =>
        \A n \in 1..(dev_report[k] - 1) :
            Deliverable(n) =>
                \/ \E j \in 1..Len(taken[k]) : Number(taken[k][j]) = n
                \/ poller[k].copy_active /\ n = dev_report[k] - 1

\* A poller hands on the device's reports whole, in order, none twice and none
\* left out, whatever is lost on the bus (the data toggle), whatever length they
\* have, and whatever shares the engine and its receive buffer (the arbiter).
InOrderOnce == \A k \in Pollers : TakenInOrder(k) /\ NoneLost(k)

\* Who holds the engine or its receive buffer holds both alone: a port from
\* its grant until it has copied its report out, or the control engine.
SingleOwner ==
    /\ \A k \in Pollers : active(poller[k]) => poller_owner = k
    /\ writer.active => poller_owner = Writer
    /\ poller_busy => cstate \notin {"wait", "stream"}

\* The device takes the PC's OUT packets whole, in order and none twice, and at
\* least as many as count as written.
OutInOrderOnce ==
    /\ \A i \in 1..Len(accepted) :
          /\ Number(accepted[i]) \in 1..Len(PacketLengths)
          /\ accepted[i] = PacketBytes(Number(accepted[i]))
    /\ \A i, j \in 1..Len(accepted) : i < j => Number(accepted[i]) < Number(accepted[j])
    /\ written <= Len(accepted)

\* While the bus keeps becoming free, every endpoint's poll is issued: the
\* rotating pointer starves nobody, not even under repeated forwards and SOFs.
NoStarvation ==
    []<>bus_free =>
        \A k \in Pollers :
            (ready /\ poller[k].due) ~>
                \/ ~poller[k].due \/ poller[k].poll_active
                \/ poller[k].buffer_full \/ ~ready

\* The clock never stops.  With SOFs every state has another to come, the next
\* SOF's at the latest, so this is WF_vars(Next), which TLC takes far longer for.
ClockRuns == []<><<TRUE>>_vars

FairSpec == Spec /\ ClockRuns
=============================================================================
