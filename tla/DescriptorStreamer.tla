------------------------- MODULE DescriptorStreamer -------------------------
(***************************************************************************)
(* device_control.py, ClonedDescriptorStreamer: sends one EP0 packet of a  *)
(* cloned descriptor per `start`, read out of the store's serve port.  A   *)
(* streamer is a record; StreamerStep is its next value after one cycle.   *)
(* Registers that are written before they are read again are reset early.  *)
(***************************************************************************)
EXTENDS DescriptorStore

CONSTANT MaxPacketSize0  \* max_packet_size: bMaxPacketSize0 of the device

ASSUME StreamerAssumption == MaxPacketSize0 \in Nat \ {0}

StreamerOff ==
    [prepared |-> FALSE, prepared_found |-> FALSE, prepare_queued |-> FALSE,
     lookup_pending |-> FALSE, start_pending |-> FALSE, start_deferred |-> FALSE,
     request_length |-> 0, request_start |-> 0, pos |-> 0, chunk_end |-> 0,
     active |-> FALSE, zlp |-> FALSE, stall |-> FALSE]

(***************************************************************************)
(* The inputs of a cycle: prepare, cancel, start; key and length, from the *)
(* latched SETUP; start_position, the parent's; ready, the transmitter's.  *)
(***************************************************************************)
need_prepare(t, i) ==
    i.prepare \/ (i.start /\ ~t.prepared /\ ~t.lookup_pending /\ ~t.prepare_queued)

\* The serve port's inputs.
serve_cancel(t, i) == i.cancel \/ i.prepare
serve_request(t, i) == IF need_prepare(t, i) \/ t.prepare_queued THEN i.key ELSE NoKey
serve_read_enable(t, i) == t.active \/ i.start \/ t.start_pending \/ t.start_deferred

\* Mutant: the read address follows the byte that is being sent.
serve_offset_late(t, i) == IF t.active THEN t.pos ELSE i.start_position

serve_offset(t, i) ==
    IF t.active
    THEN IF i.ready /\ t.pos # t.chunk_end - 1 THEN t.pos + 1 ELSE t.pos
    ELSE i.start_position

\* What the streamer asks of the store.
Asked(t, i) ==
    [Quiet EXCEPT !.serve_cancel = serve_cancel(t, i),
                  !.serve_request = serve_request(t, i),
                  !.read_enable = serve_read_enable(t, i),
                  !.offset = serve_offset(t, i)]

\* The transmit stream.
tx_last(t) == t.zlp \/ (t.active /\ t.pos = t.chunk_end - 1)

-----------------------------------------------------------------------------
Lesser(a, b) == IF a < b THEN a ELSE b

\* Mutant: a descriptor of whole packets ends in a stall.
ArmedNoZlp(u, s, found, from, wanted) ==
    LET length == Lesser(s.serve.length, wanted)
    IN  IF ~found \/ from >= length THEN [u EXCEPT !.stall = TRUE]
        ELSE [u EXCEPT !.active = TRUE, !.pos = from, !.stall = FALSE,
                       !.chunk_end = Lesser(length, from + MaxPacketSize0)]

\* A packet of the descriptor from `from`, of a transfer of `wanted` bytes:
\* bytes, a zero-length packet, or a stall.
Armed(u, s, found, from, wanted) ==
    LET length == Lesser(s.serve.length, wanted)
    IN  IF ~found \/ length = 0 THEN [u EXCEPT !.stall = TRUE]
        ELSE IF from >= length THEN [u EXCEPT !.zlp = TRUE, !.stall = FALSE]
        ELSE [u EXCEPT !.active = TRUE, !.pos = from, !.stall = FALSE,
                       !.chunk_end = Lesser(length, from + MaxPacketSize0)]

\* A new SETUP: what is prepared, sent or waiting belongs to the one before.
Prepared(t) ==
    [t EXCEPT !.active = FALSE, !.zlp = FALSE, !.stall = FALSE, !.prepared = FALSE,
              !.prepared_found = FALSE, !.prepare_queued = TRUE,
              !.start_pending = FALSE, !.start_deferred = FALSE]

Fired(u) ==
    [u EXCEPT !.prepare_queued = FALSE, !.lookup_pending = TRUE, !.prepared = FALSE,
              !.prepared_found = FALSE]

\* Mutant: a start that meets the store's answer is lost.
start_swallowed(t, i) == FALSE

\* A start that meets the store's answer is replayed in the next cycle.
start_replayed(t, i) == i.start /\ ~t.start_pending

Answered(t, i, s, u) ==
    LET v == [u EXCEPT !.lookup_pending = FALSE, !.prepared = TRUE,
                       !.prepared_found = s.serve.found,
                       !.start_deferred = start_replayed(t, i)]
    IN  IF t.start_pending
        THEN Armed([v EXCEPT !.start_pending = FALSE], s, s.serve.found,
                   t.request_start, t.request_length)
        ELSE v

Started(t, i, s, u) ==
    LET v == [u EXCEPT !.request_length = i.length, !.request_start = i.start_position,
                       !.stall = FALSE]
    IN  IF t.prepared THEN Armed(v, s, t.prepared_found, i.start_position, i.length)
        ELSE [v EXCEPT !.start_pending = TRUE]

\* A replacement accepted in this cycle owns the lookup.
answer_taken(t, s, fire) == s.serve.response /\ t.lookup_pending /\ ~fire

\* One cycle: s is the store, x the inputs the store sees.
StreamerStep(t, i, s, x) ==
    LET fire == serve_request(t, i) # NoKey /\ serve_ready(s, x)
        asked == IF i.prepare THEN Prepared(t) ELSE t
        fired == IF fire THEN Fired(asked) ELSE asked
        u == [fired EXCEPT !.start_deferred = FALSE]
    IN  IF i.cancel THEN StreamerOff
        ELSE IF t.active /\ i.ready
             THEN IF t.pos = t.chunk_end - 1 THEN [u EXCEPT !.active = FALSE]
                  ELSE [u EXCEPT !.pos = t.pos + 1]
        ELSE IF t.zlp THEN [u EXCEPT !.zlp = FALSE]
        ELSE IF answer_taken(t, s, fire) THEN Answered(t, i, s, u)
        ELSE IF (i.start \/ t.start_deferred) /\ ~t.active THEN Started(t, i, s, u)
        ELSE u
=============================================================================
