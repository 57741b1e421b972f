---------------------- MODULE USBHostTransactionEngine ----------------------
(***************************************************************************)
(* transaction.py, USBHostTransactionEngine: one USB transaction at a time *)
(* on the real device's bus.  One action per group of FSM states; a state  *)
(* that only waits for a counter or for the PHY lasts any number of        *)
(* cycles.                                                                 *)
(*   TOKEN      TOKEN_START, TOKEN_SEND, WAIT_DATA_GAP                     *)
(*   ACK        WAIT_ACK_GAP, SEND_ACK, WAIT_ACK_DRAIN                     *)
(* What a transaction latched is dropped at its end, and its result after  *)
(* the cycle of `done`: nobody reads them later.                           *)
(* A request is [src, in, toggle, length]: the port it came from, IN or    *)
(* OUT (a SETUP is an OUT), and the inputs latched at the start.           *)
(***************************************************************************)
EXTENDS Naturals, Sequences

VARIABLES
    estate,
    txn,                 \* the request latched at the start
    sent,                \* payload bytes put on the wire, read live
    rx,                  \* the shared receive buffer, rx_memory
    rx_length,
    packet_duplicate,
    edone, estatus, eduplicate       \* done, status, duplicate

engineVars == <<estate, txn, sent, rx, rx_length, packet_duplicate,
                edone, estatus, eduplicate>>

EngineStates == {"IDLE", "TOKEN", "SEND_DATA", "WAIT_RESPONSE", "ACK",
                 "WAIT_SOF_DRAIN"}

ebusy == estate # "IDLE"

NoRequest == [src |-> 0, in |-> FALSE, toggle |-> 0, length |-> 0]

EngineInit ==
    /\ estate = "IDLE" /\ txn = NoRequest /\ sent = <<>> /\ rx = <<>>
    /\ rx_length = 0 /\ packet_duplicate = FALSE
    /\ edone = FALSE /\ estatus = "SUCCESS" /\ eduplicate = FALSE

\* The strobes last one cycle.
NoStrobe == edone' = FALSE /\ estatus' = "SUCCESS" /\ eduplicate' = FALSE

finish(status, length, duplicate) ==
    /\ estate' = "IDLE"
    /\ edone' = TRUE /\ estatus' = status /\ eduplicate' = duplicate
    /\ rx_length' = length
    /\ txn' = NoRequest /\ sent' = <<>> /\ packet_duplicate' = FALSE

EngineIdle(start, connected, request) ==
    /\ estate = "IDLE"
    /\ \/ /\ ~start
          /\ NoStrobe
          /\ rx_length' = 0
          /\ UNCHANGED <<estate, txn, sent, packet_duplicate>>
       \/ start /\ ~connected /\ finish("DISCONNECTED", 0, FALSE)
       \/ /\ start /\ connected
          /\ estate' = "TOKEN"
          /\ txn' = request
          /\ sent' = <<>> /\ rx_length' = 0 /\ packet_duplicate' = FALSE
          /\ NoStrobe
    /\ UNCHANGED rx

\* abort_disconnected(), in every state of a transaction.
EngineAbort(connected) ==
    /\ ebusy /\ ~connected
    /\ finish("DISCONNECTED", 0, FALSE)
    /\ UNCHANGED rx

EngineWait(connected) ==
    /\ ebusy /\ connected
    /\ NoStrobe
    /\ UNCHANGED <<estate, txn, sent, rx, rx_length, packet_duplicate>>

EngineToken(connected, sof) ==
    /\ estate = "TOKEN" /\ connected
    /\ estate' = IF sof THEN "WAIT_SOF_DRAIN"
                 ELSE IF txn.in THEN "WAIT_RESPONSE" ELSE "SEND_DATA"
    /\ NoStrobe
    /\ UNCHANGED <<txn, sent, rx, rx_length, packet_duplicate>>

\* SEND_DATA: tx_payload is read from the port in the cycle it is sent.
EngineSendData(connected, payload) ==
    /\ estate = "SEND_DATA" /\ connected
    /\ IF Len(sent) < txn.length
       THEN sent' = Append(sent, payload) /\ UNCHANGED estate
       ELSE estate' = "WAIT_RESPONSE" /\ UNCHANGED sent
    /\ NoStrobe
    /\ UNCHANGED <<txn, rx, rx_length, packet_duplicate>>

\* WAIT_RESPONSE: a handshake, an error or nothing in time ends it.
EngineHandshake(connected, status) ==
    /\ estate = "WAIT_RESPONSE" /\ connected
    /\ finish(status, 0, FALSE)
    /\ UNCHANGED rx

\* WAIT_RESPONSE: a good data packet.  Only one with the expected PID is
\* stored.
EngineData(connected, toggle, bytes) ==
    /\ estate = "WAIT_RESPONSE" /\ connected /\ txn.in
    /\ estate' = "ACK"
    /\ packet_duplicate' = (toggle # txn.toggle)
    /\ rx' = IF toggle = txn.toggle THEN bytes ELSE rx
    /\ rx_length' = IF toggle = txn.toggle THEN Len(bytes) ELSE 0
    /\ NoStrobe
    /\ UNCHANGED <<txn, sent>>

\* A packet with a bad CRC: its bytes were stored as they came.
EngineBadData(connected, junk) ==
    /\ estate = "WAIT_RESPONSE" /\ connected /\ txn.in
    /\ finish("CRC_ERROR", 0, FALSE)
    /\ rx' = junk

EngineAck(connected) ==
    /\ estate = "ACK" /\ connected
    /\ finish("SUCCESS", rx_length, packet_duplicate)
    /\ UNCHANGED rx

EngineSofDrain(connected) ==
    /\ estate = "WAIT_SOF_DRAIN" /\ connected
    /\ finish("SUCCESS", 0, FALSE)
    /\ UNCHANGED rx
=============================================================================
