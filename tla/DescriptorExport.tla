-------------------------- MODULE DescriptorExport --------------------------
(***************************************************************************)
(* descriptor_export.py, DescriptorExportEngine: sends the report          *)
(* descriptors of the store to the MCU, in fragments, on the SPI link;     *)
(* with it the part of the plane (gateware.py) that starts it and that     *)
(* gives the link's frame builder to one sender at a time, and the builder *)
(* (spi_link.py), which asks for a fragment's payload byte by byte.        *)
(* Exporter, plane and builder are records; ...Step is the next value of   *)
(* each after one cycle.                                                   *)
(*                                                                         *)
(* Payload address 0 stands for the eight bytes that say what the fragment *)
(* is of, 1..FragmentBytes are descriptor bytes; builder index 0 stands    *)
(* for the frame's first four bytes, the last index for its CRC.           *)
(* descriptor_changed, which only comes while the session is not active,   *)
(* is left out, and busy and fragment_pending are read off the state.      *)
(* Registers that are written before they are read again are reset early.  *)
(***************************************************************************)
EXTENDS DescriptorStore

CONSTANTS
    ReportKeys,          \* the keys of type 0x22
    FragmentBytes        \* 18

ASSUME ExportAssumption == ReportKeys \subseteq Keys /\ FragmentBytes \in Nat \ {0}

NoHeader == [generation |-> 0, key |-> NoKey, offset |-> 0, length |-> 0]

ExporterOff ==
    [state |-> "IDLE", slot |-> 0, offset |-> 0, length |-> 0, key |-> NoKey,
     generation |-> 0, payload |-> "IDLE", address |-> 0, data |-> NoByte, done |-> FALSE]

\* export_pending; tx_owner and tx_owner_locked; tx_request_pending, _address.
PlaneOff ==
    [link_q |-> FALSE, session_q |-> FALSE, export_pending |-> FALSE, owner |-> "none",
     request_pending |-> FALSE, address |-> 0]

\* The frame is what is in tx_memory: a fragment's header and data.
BuilderOff ==
    [building |-> FALSE, index |-> 0, waiting |-> FALSE, queued |-> FALSE, ready |-> FALSE,
     header |-> NoHeader, data |-> <<>>]

(***************************************************************************)
(* The inputs of a cycle: link and session, whether they are up; the       *)
(* descriptor generation; other, whether a status or a telemetry message   *)
(* has its way with the builder: it is the next to be built, or is built   *)
(* to its end; sent, whether the link has taken the queued frame.          *)
(***************************************************************************)
message_valid(e) == e.state = "EMIT"

\* Mutant: whoever's frame is queued, the exporter takes it for its own.
message_ready_of_any(p, b) == p.owner # "none" /\ b.ready

message_ready(p, b) == p.owner = "descriptor" /\ b.ready

session_lost(p, j) == p.session_q /\ ~j.session
tx_valid(e, p, j) ==
    /\ j.link /\ ~session_lost(p, j)
    /\ CASE p.owner = "none" -> j.other \/ message_valid(e)
         [] p.owner = "descriptor" -> message_valid(e)
         [] OTHER -> TRUE
tx_abort(e, p, j) == p.owner # "none" /\ ~tx_valid(e, p, j)

\* What the builder asks and the plane passes on.
in_payload(b) == b.index \in 1..(FragmentBytes + 1)
tx_fill_start(e, p, b, j) == tx_valid(e, p, j) /\ ~b.building /\ ~b.queued
tx_payload_request(e, p, b, j) ==
    b.building /\ p.owner # "other" /\ tx_valid(e, p, j) /\ in_payload(b) /\ ~b.waiting
tx_request_issue(e, p, b, j) ==
    /\ p.owner = "descriptor" /\ tx_payload_request(e, p, b, j)
    /\ ~p.request_pending /\ ~tx_abort(e, p, j)
response_matches(e, p, b, j) ==
    /\ p.owner = "descriptor" /\ p.request_pending /\ b.index - 1 = p.address
    /\ message_valid(e) /\ e.payload = "RESPONSE" /\ ~tx_abort(e, p, j)

-----------------------------------------------------------------------------
\* The exporter asks the store for one slot after the other.  There is no clear while
\* the session is active.
export_request(e) == IF e.state = "SLOT_WAIT" THEN <<e.slot>> ELSE NoRequest

export_start(e, p, j) ==
    p.export_pending /\ j.link /\ j.session /\ e.state = "IDLE"

\* The payload RAM's third port: an address now, its byte in the next cycle.
export_in_range(e, s) ==
    /\ message_valid(e) /\ e.payload # "IDLE" /\ e.address # 0
    /\ s.export.valid /\ e.offset + (e.address - 1) < s.export.length
ExportRead(e, s) ==
    IF export_in_range(e, s) THEN s.memory[s.export.start + e.offset + (e.address - 1)]
    ELSE NoByte

NextSlot(e) ==
    IF e.slot = Slots - 1 THEN [e EXCEPT !.state = "IDLE", !.done = TRUE]
    ELSE [e EXCEPT !.state = "SLOT_WAIT", !.slot = @ + 1, !.offset = 0]

\* A byte that is asked for is on its way for two cycles.
PayloadStep(e, p, b, j) ==
    IF tx_abort(e, p, j) \/ message_ready(p, b) \/ ~message_valid(e)
    THEN [e EXCEPT !.payload = "IDLE"]
    ELSE CASE e.payload = "IDLE" ->
                IF tx_request_issue(e, p, b, j)
                THEN [e EXCEPT !.payload = "PIPELINE", !.address = b.index - 1] ELSE e
           [] e.payload = "PIPELINE" -> [e EXCEPT !.payload = "RESPONSE"]
           [] OTHER -> [e EXCEPT !.payload = "IDLE"]

SlotStep(e, p, b, j, s, x) ==
    CASE e.state = "IDLE" ->
           IF export_start(e, p, j)
           THEN [e EXCEPT !.state = "SLOT_WAIT", !.slot = 0, !.offset = 0,
                          !.generation = j.generation]
           ELSE e
      [] e.state = "SLOT_WAIT" ->
           IF export_ready(s, x) THEN [e EXCEPT !.state = "SLOT_PIPELINE"] ELSE e
      [] e.state = "SLOT_PIPELINE" ->
           IF s.export.response THEN [e EXCEPT !.state = "SLOT_CHECK"] ELSE e
      [] e.state = "SLOT_CHECK" ->
           IF s.export.valid /\ s.export.key \in ReportKeys /\ s.export.length # 0
           THEN [e EXCEPT !.state = "EMIT", !.offset = 0, !.key = s.export.key,
                          !.length = s.export.length]
           ELSE NextSlot(e)
      [] OTHER ->
           IF ~message_ready(p, b) THEN e
           ELSE IF e.offset + FragmentBytes >= e.length THEN NextSlot(e)
           ELSE [e EXCEPT !.offset = @ + FragmentBytes]

ExporterStep(e, p, b, j, s, x) ==
    LET read == [e EXCEPT !.done = FALSE, !.data = ExportRead(e, s)]
    IN  IF x.clear THEN ExporterOff
        ELSE SlotStep(PayloadStep(read, p, b, j), p, b, j, s, x)

-----------------------------------------------------------------------------
\* A new session or a link that is back asks for an export.
export_trigger(p, j) == j.link /\ j.session /\ (~p.link_q \/ ~p.session_q)

OwnerStep(e, p, b, j) ==
    IF tx_abort(e, p, j) THEN [p EXCEPT !.owner = "none", !.request_pending = FALSE]
    ELSE IF tx_fill_start(e, p, b, j) /\ p.owner = "none"
    THEN [p EXCEPT !.owner = IF j.other THEN "other" ELSE "descriptor",
                   !.request_pending = FALSE]
    ELSE IF p.owner # "none" /\ b.ready
    THEN [p EXCEPT !.owner = "none", !.request_pending = FALSE]
    ELSE IF tx_request_issue(e, p, b, j)
    THEN [p EXCEPT !.request_pending = TRUE, !.address = b.index - 1]
    ELSE IF response_matches(e, p, b, j) THEN [p EXCEPT !.request_pending = FALSE]
    ELSE p

PlaneStep(e, p, b, j) ==
    [OwnerStep(e, p, b, j) EXCEPT
        !.link_q = j.link, !.session_q = j.session,
        !.export_pending = export_trigger(p, j) \/ (@ /\ ~export_start(e, p, j))]

\* The byte the exporter has for the address it was asked for.
Filled(e, b) ==
    IF e.address = 0
    THEN [b EXCEPT !.header = [generation |-> e.generation, key |-> e.key,
                               offset |-> e.offset, length |-> e.length]]
    ELSE [b EXCEPT !.data = Append(@, e.data)]

Queued(b) == [b EXCEPT !.building = FALSE, !.index = 0, !.queued = TRUE, !.ready = TRUE]

\* A frame that is given up is built from its start again.
BuilderStep(e, p, b, j) ==
    LET c == [b EXCEPT !.ready = FALSE]
    IN  IF tx_fill_start(e, p, b, j)
        THEN [BuilderOff EXCEPT !.building = TRUE]
        ELSE IF ~b.building THEN IF j.sent THEN BuilderOff ELSE c
        ELSE IF ~tx_valid(e, p, j) THEN BuilderOff
        ELSE IF p.owner = "other" THEN IF j.other THEN Queued(c) ELSE c
        ELSE IF ~in_payload(b)
        THEN IF b.index = 0 THEN [c EXCEPT !.index = 1] ELSE Queued(c)
        ELSE IF response_matches(e, p, b, j) /\ b.waiting
        THEN [Filled(e, c) EXCEPT !.waiting = FALSE, !.index = b.index + 1]
        ELSE [c EXCEPT !.waiting = @ \/ tx_payload_request(e, p, b, j)]
=============================================================================
