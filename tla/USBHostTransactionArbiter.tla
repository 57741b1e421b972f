--------------------- MODULE USBHostTransactionArbiter ---------------------
(***************************************************************************)
(* host.py, USBHostTransactionArbiter: shares the transaction engine among *)
(* the control engine, the SOF scheduler and the ports 0..LastPort of the  *)
(* pollers and the OUT writer.                                             *)
(*   phase     control_phase              pbusy   poller_busy              *)
(*   ebusy, edone   the engine's busy and done                             *)
(***************************************************************************)
EXTENDS Naturals

CONSTANT LastPort        \* the OUT writer's port; pollers are 0..LastPort-1

ASSUME PortAssumption == LastPort \in Nat \ {0}

VARIABLES
    rotate,              \* the only port that may start
    poller_owner,        \* the port that started the last transaction
    owner_valid,         \* its result is still to come
    engine_done_d        \* done, a cycle ago

arbiterVars == <<rotate, poller_owner, owner_valid, engine_done_d>>

Ports == 0..LastPort
Control == LastPort + 1
Sof == LastPort + 2

control_owns(phase, pbusy) == phase /\ ~pbusy

control_grant(phase, pbusy, start, ebusy) ==
    control_owns(phase, pbusy) /\ start /\ ~ebusy

sof_grant(sof_start, ebusy, edone, cgrant) ==
    sof_start /\ ~ebusy /\ ~edone /\ ~engine_done_d /\ ~cgrant

\* Mutant: a poller may start while another still copies its report.
poll_bus_free_mid_copy(phase, sof_start, ebusy, pbusy) ==
    ~phase /\ ~sof_start /\ ~ebusy

poll_bus_free(phase, sof_start, ebusy, pbusy) ==
    ~phase /\ ~sof_start /\ ~ebusy /\ ~pbusy

\* start_ready & ~busy, as port k sees it.
granted(k, bus_free) == bus_free /\ rotate = k

\* The port the engine's inputs and rx_read_index come from.
MuxPort(phase, pbusy) ==
    IF control_owns(phase, pbusy) THEN Control
    ELSE IF pbusy THEN poller_owner ELSE rotate

port_done(k, edone) == edone /\ owner_valid /\ poller_owner = k

NextPort(k) == IF k = LastPort THEN 0 ELSE k + 1

ArbiterInit ==
    rotate = 0 /\ poller_owner = 0 /\ owner_valid = FALSE /\ engine_done_d = FALSE

\* Mutant: the pointer stays on a port that has nothing to start.
ArbiterStepStuck(bus_free, selected_start, edone) ==
    /\ engine_done_d' = edone
    /\ \/ /\ bus_free /\ selected_start
          /\ poller_owner' = rotate /\ owner_valid' = TRUE
          /\ UNCHANGED rotate
       \/ /\ ~(bus_free /\ selected_start) /\ owner_valid /\ edone
          /\ owner_valid' = FALSE
          /\ rotate' = NextPort(poller_owner)
          /\ UNCHANGED poller_owner
       \/ /\ ~(bus_free /\ selected_start) /\ ~(owner_valid /\ edone)
          /\ UNCHANGED <<rotate, poller_owner, owner_valid>>

ArbiterStep(bus_free, selected_start, edone) ==
    /\ engine_done_d' = edone
    /\ \/ /\ bus_free /\ selected_start
          /\ poller_owner' = rotate /\ owner_valid' = TRUE
          /\ UNCHANGED rotate
       \/ /\ ~(bus_free /\ selected_start) /\ owner_valid /\ edone
          /\ owner_valid' = FALSE
          /\ rotate' = NextPort(poller_owner)
          /\ UNCHANGED poller_owner
       \/ /\ bus_free /\ ~selected_start /\ ~(owner_valid /\ edone)
          /\ rotate' = NextPort(rotate)
          /\ UNCHANGED <<poller_owner, owner_valid>>
       \/ /\ ~bus_free /\ ~(owner_valid /\ edone)
          /\ UNCHANGED <<rotate, poller_owner, owner_valid>>
=============================================================================
