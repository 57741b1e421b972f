------------------------ MODULE BootProtocolTracker ------------------------
(***************************************************************************)
(* boot_protocol.py: which endpoints of the real device send boot reports, *)
(* and the replays of SET_PROTOCOL(report) after the PC resets the clone.  *)
(* One action per FSM state; the snoop pipeline and the trigger's edge     *)
(* detector run in every cycle, and the resets of a lost device override.  *)
(* Slots stand for captured IN endpoints; the endpoint numbers of two IN   *)
(* endpoints differ, so boot_mask is the set of slots whose bit is set.    *)
(***************************************************************************)
EXTENDS Naturals

CONSTANTS
    Slots,               \* the slots below ep_count
    EpInterface          \* ep_interface: the interface of each slot

ASSUME SlotsAssumption == Slots \subseteq Nat

VARIABLES
    tstate,              \* FSM state
    trigger_seen,
    trigger_prev,
    pending,             \* slots whose interface still needs its replay
    current,             \* the slot being replayed, as a set
    same_interface,      \* slots settled by the replay in flight
    boot_mask,
    apply,               \* snoop stage 1: a PC SET_PROTOCOL was decoded
    boot_value,
    forward_match

trackerVars == <<tstate, trigger_seen, trigger_prev, pending, current,
                 same_interface, boot_mask, apply, boot_value, forward_match>>

TrackerStates == {"IDLE", "SELECT", "OFFER", "WAIT"}

SlotsOf(i) == {k \in Slots : EpInterface[k] = i}

Lowest(S) == {k \in S : \A j \in S : k <= j}

\* current_interface; `current` holds one slot from SELECT on.
CurrentInterface == EpInterface[CHOOSE k \in current : TRUE]

Offered == pending \cap current # {}

Snooped == IF apply THEN forward_match ELSE {}

\* Mutant: the offer stands while a decode is in flight.
resync_valid_during_decode == tstate = "OFFER" /\ Offered

resync_valid == tstate = "OFFER" /\ Offered /\ ~apply

-----------------------------------------------------------------------------
\* The reset values, and what ~ready forces (ResetInserter).
TrackerInit ==
    /\ tstate = "IDLE"
    /\ trigger_seen = FALSE
    /\ trigger_prev = FALSE
    /\ pending = {}
    /\ current = {}
    /\ same_interface = {}
    /\ boot_mask = {}
    /\ apply = FALSE
    /\ boot_value = FALSE
    /\ forward_match = {}

TrackerReset ==
    /\ tstate' = "IDLE"
    /\ trigger_seen' = FALSE
    /\ trigger_prev' = FALSE
    /\ pending' = {}
    /\ current' = {}
    /\ same_interface' = {}
    /\ boot_mask' = {}
    /\ apply' = FALSE
    /\ boot_value' = FALSE
    /\ forward_match' = {}

\* Snoop stage 1: register the decode of the request in `r` on forward_ok.
SnoopDecode(fwd_ok, r) ==
    /\ apply' = (fwd_ok /\ r.class /\ ~r.in /\ r.req = "SET_PROTOCOL")
    /\ boot_value' = r.boot
    /\ forward_match' = SlotsOf(r.iface)

\* Mutant: the device's success at a replay leaves the mask alone.
SnoopApplyPCOnly(replayed) ==
    boot_mask' = (boot_mask \ (IF boot_value THEN {} ELSE Snooped))
                 \cup (IF boot_value THEN Snooped ELSE {})

\* Snoop stage 2: the PC's choice sets or clears the bits, and wins over the
\* replay whose completion (replayed) clears them in the same cycle.
SnoopApply(replayed) ==
    boot_mask' = (boot_mask \ ((IF boot_value THEN {} ELSE Snooped)
                                \cup (IF replayed THEN same_interface ELSE {})))
                 \cup (IF boot_value THEN Snooped ELSE {})

\* The rising edge of the trigger is kept even in the cycle that consumes one.
TriggerEdge(trigger, consumed) ==
    /\ trigger_prev' = trigger
    /\ trigger_seen' = \/ trigger /\ ~trigger_prev
                       \/ trigger_seen /\ ~consumed

\* What every cycle does besides the FSM; next_pending is the FSM's load.
TrackerCommon(trigger, consumed, fwd_ok, r, replayed, next_pending) ==
    /\ SnoopDecode(fwd_ok, r)
    /\ SnoopApply(replayed)
    /\ TriggerEdge(trigger, consumed)
    /\ pending' = next_pending \ Snooped

TrackerIdle(trigger, fwd_ok, r) ==
    /\ tstate = "IDLE"
    /\ tstate' = IF trigger_seen THEN "SELECT" ELSE "IDLE"
    /\ TrackerCommon(trigger, TRUE, fwd_ok, r, FALSE,
                     IF trigger_seen THEN boot_mask ELSE pending)
    /\ UNCHANGED <<current, same_interface>>

TrackerSelect(trigger, fwd_ok, r) ==
    /\ tstate = "SELECT"
    /\ tstate' = IF pending = {} THEN "IDLE" ELSE "OFFER"
    /\ current' = IF pending = {} THEN current ELSE Lowest(pending)
    /\ TrackerCommon(trigger, FALSE, fwd_ok, r, FALSE, pending)
    /\ UNCHANGED same_interface

TrackerOffer(trigger, fwd_ok, r, relay_resync_active) ==
    /\ tstate = "OFFER"
    /\ tstate' = IF relay_resync_active THEN "WAIT"
                 ELSE IF ~Offered THEN "SELECT"
                 ELSE "OFFER"
    /\ same_interface' = SlotsOf(CurrentInterface)
    /\ TrackerCommon(trigger, FALSE, fwd_ok, r, FALSE, pending)
    /\ UNCHANGED current

\* Mutant: a failed replay is waited for again.
TrackerWaitForSuccess(trigger, fwd_ok, r, relay_resync_done, relay_error) ==
    LET settled == relay_resync_done /\ ~relay_error
    IN  /\ tstate = "WAIT"
        /\ tstate' = IF settled THEN "SELECT" ELSE "WAIT"
        /\ TrackerCommon(trigger, FALSE, fwd_ok, r, settled,
                         IF settled THEN pending \ same_interface ELSE pending)
        /\ UNCHANGED <<current, same_interface>>

TrackerWait(trigger, fwd_ok, r, relay_resync_done, relay_error) ==
    /\ tstate = "WAIT"
    /\ tstate' = IF relay_resync_done THEN "SELECT" ELSE "WAIT"
    /\ TrackerCommon(trigger, FALSE, fwd_ok, r,
                     relay_resync_done /\ ~relay_error,
                     IF relay_resync_done THEN pending \ same_interface ELSE pending)
    /\ UNCHANGED <<current, same_interface>>

=============================================================================
